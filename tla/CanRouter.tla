----------------------------- MODULE CanRouter ------------------------------
(***************************************************************************)
(* The frame demultiplexers of canopen-core/src/can_router.rs.             *)
(*                                                                         *)
(* CanDemux owns a transport: a call that waits for one kind of frame puts *)
(* every other frame it receives into the buffer of its kind, where later  *)
(* calls find it.  SdoPort and HeartbeatPort borrow a transport and keep   *)
(* what they were not waiting for in one overflow buffer.                  *)
(*                                                                         *)
(* A frame is its number in the order of arrival, its identifier and       *)
(* whether it has eight data bytes.                                        *)
(***************************************************************************)
EXTENDS Integers, Sequences, CobIds

CONSTANTS
  Target,                     \* the node the SDO ports talk to
  RouterFrames,               \* [id, full]: the frames that may arrive
  HbCap, PdoCap, OtherCap,    \* 8, 16 and 4 in the code
  PortCap,                    \* 16 in the code
  MaxRouted                   \* bound: frames that arrive

\* Node numbers are NodeIds.
ASSUME TargetAssumption == Target \in NodeIds
ASSUME CapAssumption == PortCap \in Nat

VARIABLES
  user,                       \* who has the transport: demux, sdo port or heartbeat port
  portNode,                   \* filter_node of a HeartbeatPort, 0 = any
  hbBuf, pdoBuf, otherBuf,    \* heartbeat_buf, pdo_buf, other_buf
  overflow, overflowDropped,  \* of the SdoPort or HeartbeatPort
  call,                       \* the call in progress: [kind, node], node 0 = any
  routed,                     \* frames received so far
  handed                      \* history: frames handed to the caller, in order

routerVars == <<user, portNode, hbBuf, pdoBuf, otherBuf, overflow, overflowDropped, call, routed, handed>>

NoCall == [kind |-> "none", node |-> 0]

RouterInit ==
  /\ user \in {"demux", "sdo port", "heartbeat port"}
  /\ portNode \in {0, Target}
  /\ hbBuf = <<>> /\ pdoBuf = <<>> /\ otherBuf = <<>>
  /\ overflow = <<>> /\ overflowDropped = 0
  /\ call = NoCall /\ routed = 0 /\ handed = <<>>

IsHeartbeat(f, node) == ParsedAs(f.id) = "heartbeat" /\ (node = 0 \/ NodeOf(f.id) = node)
IsPdo(f) == ParsedAs(f.id) \in {"tpdo", "rpdo"}

\* push_back on a bounded buffer, its refusal ignored: the newest is lost.
KeptIn(buf, f, cap) == IF Len(buf) < cap THEN Append(buf, f) ELSE buf

\* route_frame
RouteFrame(f) ==
  /\ hbBuf' = IF IsHeartbeat(f, 0) THEN KeptIn(hbBuf, f, HbCap) ELSE hbBuf
  /\ pdoBuf' = IF IsPdo(f) THEN KeptIn(pdoBuf, f, PdoCap) ELSE pdoBuf
  /\ otherBuf' = IF ~IsHeartbeat(f, 0) /\ ~IsPdo(f) THEN KeptIn(otherBuf, f, OtherCap) ELSE otherBuf

\* Mutant: the search stops at the first match, so the frames it turned over
\* end up behind the ones it did not look at.
TakeHeartbeatEarly(buf, node) ==
  LET hits == {i \in DOMAIN buf : IsHeartbeat(buf[i], node)}
      k == CHOOSE i \in hits : \A j \in hits : i <= j
  IN IF hits = {} THEN [found |-> <<>>, rest |-> buf]
     ELSE [found |-> <<buf[k]>>, rest |-> SubSeq(buf, k + 1, Len(buf)) \o SubSeq(buf, 1, k - 1)]

\* take_buffered_heartbeat: every buffered frame goes round once, the first
\* match stays out.
TakeHeartbeat(buf, node) ==
  LET hits == {i \in DOMAIN buf : IsHeartbeat(buf[i], node)}
      k == CHOOSE i \in hits : \A j \in hits : i <= j
  IN IF hits = {} THEN [found |-> <<>>, rest |-> buf]
     ELSE [found |-> <<buf[k]>>, rest |-> SubSeq(buf, 1, k - 1) \o SubSeq(buf, k + 1, Len(buf))]

\* recv_heartbeat and recv_heartbeat_timed: the buffer first.
RecvHeartbeat(node) ==
  /\ user = "demux" /\ call = NoCall
  /\ LET t == TakeHeartbeat(hbBuf, node)
     IN /\ hbBuf' = t.rest /\ handed' = handed \o t.found
        /\ call' = IF t.found = <<>> THEN [kind |-> "heartbeat", node |-> node] ELSE NoCall
  /\ UNCHANGED <<user, portNode, pdoBuf, otherBuf, overflow, overflowDropped, routed>>

\* recv_pdo
RecvPdo ==
  /\ user = "demux" /\ call = NoCall
  /\ IF pdoBuf = <<>>
     THEN call' = [kind |-> "pdo", node |-> 0] /\ UNCHANGED <<pdoBuf, handed>>
     ELSE pdoBuf' = Tail(pdoBuf) /\ handed' = Append(handed, Head(pdoBuf)) /\ UNCHANGED call
  /\ UNCHANGED <<user, portNode, hbBuf, otherBuf, overflow, overflowDropped, routed>>

\* try_recv_heartbeat, try_recv_pdo, try_recv_other
TryRecvBuffered(buf) ==
  /\ user = "demux" /\ call = NoCall
  /\ \/ buf = "hb" /\ hbBuf # <<>> /\ hbBuf' = Tail(hbBuf) /\ handed' = Append(handed, Head(hbBuf))
        /\ UNCHANGED <<pdoBuf, otherBuf>>
     \/ buf = "pdo" /\ pdoBuf # <<>> /\ pdoBuf' = Tail(pdoBuf)
        /\ handed' = Append(handed, Head(pdoBuf)) /\ UNCHANGED <<hbBuf, otherBuf>>
     \/ buf = "other" /\ otherBuf # <<>> /\ otherBuf' = Tail(otherBuf)
        /\ handed' = Append(handed, Head(otherBuf)) /\ UNCHANGED <<hbBuf, pdoBuf>>
  /\ UNCHANGED <<user, portNode, overflow, overflowDropped, call, routed>>

\* receive of a DemuxSdoPort, of an SdoPort or of a HeartbeatPort begins.
PortReceive(kind, node) ==
  /\ call = NoCall
  /\ user = IF kind = "demux sdo" THEN "demux" ELSE kind
  /\ call' = [kind |-> kind, node |-> node]
  /\ UNCHANGED <<user, portNode, hbBuf, pdoBuf, otherBuf, overflow, overflowDropped, routed, handed>>

\* What the call in progress is waiting for.
Wanted(f) ==
  CASE call.kind = "heartbeat" -> IsHeartbeat(f, call.node)
    [] call.kind = "heartbeat port" -> IsHeartbeat(f, call.node)
    [] call.kind = "pdo" -> IsPdo(f)
    [] call.kind = "demux sdo" -> f.id = SdoTx(Target) /\ f.full
    [] call.kind = "sdo port" -> f.id = SdoTx(Target)

\* transport.receive returns a frame to the call in progress.
RouterReceive(x) ==
  /\ call # NoCall /\ routed < MaxRouted
  /\ routed' = routed + 1 /\ UNCHANGED <<user, portNode>>
  /\ LET f == [n |-> routed', id |-> x.id, full |-> x.full]
     IN \/ /\ Wanted(f)
           /\ handed' = Append(handed, f) /\ call' = NoCall
           /\ UNCHANGED <<hbBuf, pdoBuf, otherBuf, overflow, overflowDropped>>
        \/ /\ ~Wanted(f) /\ call.kind \in {"heartbeat", "pdo", "demux sdo"}
           /\ RouteFrame(f)
           /\ UNCHANGED <<overflow, overflowDropped, call, handed>>
        \/ /\ ~Wanted(f) /\ call.kind \in {"sdo port", "heartbeat port"}
           /\ overflow' = KeptIn(overflow, f, PortCap)
           /\ overflowDropped' = IF call.kind = "sdo port" /\ Len(overflow) >= PortCap
                                 THEN overflowDropped + 1 ELSE overflowDropped
           /\ UNCHANGED <<hbBuf, pdoBuf, otherBuf, call, handed>>

\* The deadline of recv_heartbeat_timed, a transport error, or the caller's own
\* timeout drops the call.
CallEnds ==
  /\ call # NoCall /\ call' = NoCall
  /\ UNCHANGED <<user, portNode, hbBuf, pdoBuf, otherBuf, overflow, overflowDropped, routed, handed>>

\* drain_overflow
DrainOverflow ==
  /\ call = NoCall /\ overflow # <<>>
  /\ handed' = handed \o overflow /\ overflow' = <<>>
  /\ UNCHANGED <<user, portNode, hbBuf, pdoBuf, otherBuf, overflowDropped, call, routed>>

RouterNext ==
  \/ \E node \in {0, Target} : RecvHeartbeat(node)
  \/ PortReceive("heartbeat port", portNode)
  \/ RecvPdo \/ CallEnds \/ DrainOverflow
  \/ \E buf \in {"hb", "pdo", "other"} : TryRecvBuffered(buf)
  \/ \E kind \in {"demux sdo", "sdo port"} : PortReceive(kind, Target)
  \/ \E x \in RouterFrames : RouterReceive(x)

RouterSpec == RouterInit /\ [][RouterNext]_routerVars

-----------------------------------------------------------------------------
SameSource(f, g) == (IsPdo(f) /\ IsPdo(g)) \/ (IsHeartbeat(f, 0) /\ f.id = g.id)

\* The heartbeats of a node, and the PDOs, are handed on once and in the order
\* they arrived, whether a wait found them on the bus or a buffer kept them from
\* an earlier wait (take_buffered_heartbeat, recv_pdo, route_frame); and what
\* an SdoPort received was handed on, is in its overflow, or is counted.
RoutedInOrder ==
  /\ \A i, j \in DOMAIN handed :
       i < j /\ SameSource(handed[i], handed[j]) => handed[i].n < handed[j].n
  /\ user = "sdo port" => routed = Len(handed) + Len(overflow) + overflowDropped
=============================================================================
