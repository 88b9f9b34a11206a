----------------------------- MODULE NodeProofs -----------------------------
(***************************************************************************)
(* Proofs about Node, for any number of channels, PDOs and monitored       *)
(* nodes, any timeouts and any frames.  The inductive invariant has four   *)
(* layers, each inductive relative to the ones before it: the life cycle,  *)
(* the SDO channels, the PDO work, and what has just been transmitted.     *)
(* Three more stand on their own: the samples taken at SYNC, the event     *)
(* queues and what they lose, and the TPDO engine with its triggers.       *)
(***************************************************************************)
EXTENDS Node, FiniteSetTheorems, TLAPS

LifeInv ==
    /\ nmt \in NmtStates
    /\ booted \in BOOLEAN
    /\ BootedIffStarted

(* A reset leaves the node unbooted and Initializing.                      *)
LEMMA ResetLife ==
    ASSUME Reset PROVE LifeInv'
BY Zenon DEF Reset, LifeInv, BootedIffStarted, NmtStates

(* A new node is unbooted and Initializing.                                *)
LEMMA LifeInit == Init => LifeInv
BY Zenon DEF Init, LifeInv, BootedIffStarted, NmtStates

(* Only boot-up, NMT commands and resets touch the life cycle, and each    *)
(* keeps booted in step with the NMT state.                                *)
LEMMA LifeNext == LifeInv /\ [Next]_vars => LifeInv'
<1> SUFFICES ASSUME LifeInv, [Next]_vars PROVE LifeInv'
    OBVIOUS
<1>1. CASE UNCHANGED lifeVars
    BY <1>1 DEF LifeInv, BootedIffStarted, lifeVars
<1>2. CASE Boot
    BY <1>2 DEF Boot, BootPending, BootState, LifeInv, BootedIffStarted, NmtStates
<1>3. ASSUME NEW cmd, RxNmt(cmd) PROVE LifeInv'
  <2>1. CASE UNCHANGED lifeVars
      BY <1>1, <2>1
  <2>2. CASE Reset
      BY <2>2, ResetLife
  <2>3. CASE /\ nmt # "Initializing"
             /\ nmt' \in {"Operational", "PreOperational", "Stopped"}
             /\ UNCHANGED booted
      BY <2>3 DEF LifeInv, BootedIffStarted, NmtStates
  <2> QED
      BY <1>3, <2>1, <2>2, <2>3 DEF RxNmt, NmtTarget, Untouched
<1>4. CASE RequestReset
    BY <1>4, ResetLife DEF RequestReset
<1>5. ASSUME Process, ~ Boot, \A cmd : ~ RxNmt(cmd) PROVE UNCHANGED lifeVars
    BY Zenon, <1>5 DEF Process, BootRefused, Poll, BeginPoll, RxSync, RxLss, RxOther, RxRpdo,
       RxHeartbeat, RxSdo, RxSdoDropped, RxDone, SdoTrySend, SdoSegment, SdoDone, SyncSilent,
       SyncProduced, SyncRefused, Retry, Control, Transmit, Untouched, lifeVars
<1>6. ASSUME Environment, ~ RequestReset PROVE UNCHANGED lifeVars \/ TakeResetEvent
    BY <1>6 DEF Environment, NotifyChanged, SetError, OdMut, OdMutConfig, NextEvent, Arrive,
       Tick, Untouched, lifeVars
<1>7. CASE TakeResetEvent
    BY <1>7 DEF TakeResetEvent, LifeInv, BootedIffStarted
<1>8. CASE UNCHANGED vars
    BY <1>1, <1>8 DEF vars
<1> QED
    BY <1>1, <1>2, <1>3, <1>4, <1>5, <1>6, <1>7, <1>8 DEF Next

-----------------------------------------------------------------------------
(* The SDO channels.  A channel is well formed when a response and the     *)
(* transfer it belongs to have the same age, and once begin_poll is past   *)
(* no response is stale.                                                   *)

ChannelOK(s, x) ==
    /\ s \in Pending
    /\ x \in Transfer
    /\ s.has /\ Open(x) => s.age = x.age
    /\ ~ Open(x) => x.segs = 0

SdoInv ==
    /\ ch \in Channels
    /\ slot \in [Channels -> Pending]
    /\ xfer \in [Channels -> Transfer]
    /\ \A c \in Channels : ChannelOK(slot[c], xfer[c])
    /\ pc # "idle" => \A c \in Channels : slot[c].has => slot[c].age < SdoTimeout
    /\ NoSdoWorkOutsideActive

(* Queueing the answer to a request keeps the channel well formed and      *)
(* gives the answer age 0.                                                 *)
LEMMA QueueOK ==
    ASSUME NEW s, NEW x, s \in Pending, x \in Transfer,
           Open(x) => x.age = 0, ~ Open(x) => x.segs = 0
    PROVE  /\ ChannelOK(QueueResponse(s), x)
           /\ QueueResponse(s).has
           /\ QueueResponse(s).age = 0
<1>0. QueueResponse(s) = [s EXCEPT !.has = TRUE, !.age = 0]
    BY DEF QueueResponse
<1>1. QueueResponse(s) = [has |-> TRUE, age |-> 0, refused |-> s.refused]
    BY Zenon, <1>0 DEF Pending
<1>2. 0 \in 0..SdoTimeout
    BY SdoTimeoutAssumption
<1>3. QueueResponse(s) \in Pending
    BY Zenon, <1>0, <1>2 DEF Pending
<1> QED
    BY <1>1, <1>3 DEF ChannelOK

(* begin_poll drops a stale answer with its transfer, aborts a timed-out   *)
(* transfer, and invents no work on an idle channel.                       *)
LEMMA BeginPollOK ==
    ASSUME NEW s, NEW x, ChannelOK(s, x)
    PROVE  /\ ChannelOK(BeginPollSlot(s, x), BeginPollTransfer(s, x))
           /\ BeginPollSlot(s, x).has => BeginPollSlot(s, x).age < SdoTimeout
           /\ ~ s.has /\ ~ Open(x) => ~ BeginPollSlot(s, x).has /\ ~ Open(BeginPollTransfer(s, x))
<1> DEFINE t == [s EXCEPT !.refused = FALSE]
<1>0. /\ s \in Pending /\ x \in Transfer
      /\ s.has /\ Open(x) => s.age = x.age
      /\ ~ Open(x) => x.segs = 0
    BY DEF ChannelOK
<1>t. t.has = s.has /\ t.age = s.age
    BY <1>0 DEF Pending
<1>p. t \in Pending
    BY Zenon, <1>0 DEF Pending
<1>a. s.age \in Nat /\ s.age <= SdoTimeout
    BY <1>0, SdoTimeoutAssumption DEF Pending
<1>1. /\ s \in Pending /\ x \in Transfer
      /\ t.has = s.has /\ t.age = s.age
      /\ t \in Pending
      /\ s.age \in Nat /\ s.age <= SdoTimeout
      /\ s.has /\ Open(x) => s.age = x.age
      /\ ~ Open(x) => x.segs = 0
    BY <1>0, <1>t, <1>p, <1>a
<1>2. NoTransfer \in Transfer /\ ~ Open(NoTransfer) /\ NoTransfer.segs = 0 /\ 0 < SdoTimeout
    BY SdoTimeoutAssumption, MaxSegmentsAssumption DEF NoTransfer, Transfer, TransferStates, Open
<1>3. CASE Stale(s)
  <2>1. /\ BeginPollSlot(s, x) = [t EXCEPT !.has = FALSE, !.age = 0]
        /\ BeginPollTransfer(s, x) = NoTransfer
      BY <1>3 DEF BeginPollSlot, BeginPollTransfer
  <2>2. BeginPollSlot(s, x).has = FALSE
      BY <1>1, <2>1 DEF Pending
  <2>3. BeginPollSlot(s, x) \in Pending
    <3>1. 0 \in 0..SdoTimeout
        BY SdoTimeoutAssumption
    <3> HIDE DEF t
    <3> QED
        BY Zenon, <1>p, <2>1, <3>1 DEF Pending
  <2> QED
      BY <1>2, <2>1, <2>2, <2>3 DEF ChannelOK
<1>4. CASE TransferTimesOut(s, x)
  <2>1. /\ BeginPollSlot(s, x) = QueueResponse(t)
        /\ BeginPollTransfer(s, x) = NoTransfer
        /\ Open(x)
      BY <1>4 DEF BeginPollSlot, BeginPollTransfer, TransferTimesOut
  <2> QED
      BY <1>1, <1>2, <2>1, QueueOK
<1>5. CASE ~ Stale(s) /\ ~ TransferTimesOut(s, x)
  <2>1. BeginPollSlot(s, x) = t /\ BeginPollTransfer(s, x) = x
      BY <1>5 DEF BeginPollSlot, BeginPollTransfer
  <2>2. s.has => s.age < SdoTimeout
      BY <1>1, <1>5, SdoTimeoutAssumption DEF Stale
  <2> QED
      BY <1>1, <2>1, <2>2 DEF ChannelOK
<1> QED
    BY <1>3, <1>4, <1>5

(* Time makes an answer and its transfer older alike.                      *)
LEMMA TickOK ==
    ASSUME NEW s, NEW x, ChannelOK(s, x)
    PROVE  /\ ChannelOK(SlotTick(s), TransferTick(x))
           /\ SlotTick(s).has = s.has
           /\ Open(TransferTick(x)) = Open(x)
BY SdoTimeoutAssumption, MaxSegmentsAssumption
   DEF ChannelOK, SlotTick, TransferTick, Older, Open, Pending, Transfer, TransferStates

(* Offering the answer to the transport sends it or keeps it unchanged.    *)
LEMMA TrySendOK ==
    ASSUME NEW s, NEW x, ChannelOK(s, x), NEW accepted \in BOOLEAN
    PROVE  /\ ChannelOK(TrySend(s, accepted), x)
           /\ TrySend(s, accepted).has => s.has /\ TrySend(s, accepted).age = s.age
<1>1. s \in Pending
    BY DEF ChannelOK
<1>2. CASE ~ s.has \/ s.refused
    BY <1>2 DEF TrySend
<1>3. CASE s.has /\ ~ s.refused /\ accepted
  <2>1. TrySend(s, accepted) = [s EXCEPT !.has = FALSE, !.age = 0]
      BY <1>3 DEF TrySend
  <2>2. TrySend(s, accepted) = [has |-> FALSE, age |-> 0, refused |-> s.refused]
      BY Zenon, <1>1, <2>1 DEF Pending
  <2>3. TrySend(s, accepted) \in Pending
      BY <1>1, <2>2, SdoTimeoutAssumption DEF Pending
  <2> QED
      BY <2>2, <2>3 DEF ChannelOK
<1>4. CASE s.has /\ ~ s.refused /\ ~ accepted
  <2>1. TrySend(s, accepted) = [s EXCEPT !.refused = TRUE]
      BY <1>4 DEF TrySend
  <2>2. TrySend(s, accepted) = [has |-> s.has, age |-> s.age, refused |-> TRUE]
      BY Zenon, <1>1, <2>1 DEF Pending
  <2>3. TrySend(s, accepted) \in Pending
      BY <1>1, <2>2 DEF Pending
  <2> QED
      BY <1>4, <2>2, <2>3 DEF ChannelOK
<1> QED
    BY <1>2, <1>3, <1>4

(* A block upload segment the transport accepts restarts the age of its    *)
(* transfer.                                                               *)
LEMMA SegmentOK ==
    ASSUME NEW x \in Transfer, Open(x), x.segs > 0
    PROVE  /\ SegmentOffered(x) \in Transfer
           /\ SegmentOffered(x).age = 0
           /\ Open(SegmentOffered(x))
<1>1. x.segs - 1 \in 0..MaxSegments /\ 0 \in 0..SdoTimeout
    BY SdoTimeoutAssumption, MaxSegmentsAssumption DEF Transfer
<1>2. SegmentOffered(x) = [x EXCEPT !.segs = x.segs - 1, !.age = 0]
    BY DEF SegmentOffered
<1>3. SegmentOffered(x) \in Transfer
    BY Zenon, <1>1, <1>2 DEF Transfer
<1>4. SegmentOffered(x).age = 0 /\ SegmentOffered(x).state = x.state
    BY <1>2 DEF Transfer
<1> QED
    BY <1>3, <1>4 DEF Open

(* Every answer that leaves a transfer open restarts its age.              *)
LEMMA OutcomeOK ==
    ASSUME NEW x \in Transfer, ~ Open(x) => x.segs = 0, NEW req \in Requests, NEW st,
           NEW o \in ProcessWithContext(x, req, st)
    PROVE  /\ o.x \in Transfer
           /\ o.resp \in BOOLEAN
           /\ o.resp /\ Open(o.x) => o.x.age = 0
           /\ ~ Open(o.x) => o.x.segs = 0
           /\ req = "abort" => ~ Open(o.x) /\ ~ o.resp
<1> USE SdoTimeoutAssumption, MaxSegmentsAssumption
<1> DEFINE Good(q) == /\ q.x \in Transfer /\ q.resp \in BOOLEAN
                      /\ q.resp /\ Open(q.x) => q.x.age = 0
                      /\ ~ Open(q.x) => q.x.segs = 0
<1>1. NoTransfer \in Transfer /\ ~ Open(NoTransfer) /\ NoTransfer.segs = 0
    BY DEF NoTransfer, Transfer, TransferStates, Open
<1>2. /\ Continued(x) \in Transfer /\ Continued(x).age = 0
      /\ ~ Open(Continued(x)) => Continued(x).segs = 0
    BY DEF Continued, Transfer, Open
<1>3. ASSUME NEW s \in TransferStates, NEW b \in BOOLEAN, NEW n \in 0..MaxSegments
      PROVE  /\ Started(s, b, n) \in Transfer /\ Started(s, b, n).age = 0
             /\ s # "none" => Open(Started(s, b, n))
    BY <1>3 DEF Started, Transfer, Open
<1>4. Good(Final)
    BY <1>1 DEF Final, Outcome
<1>5. ASSUME NEW y \in Transfer, ~ Open(y) => y.segs = 0 PROVE Good(Silent(y))
    BY <1>5 DEF Silent, Outcome
<1>6. ASSUME NEW y \in Transfer, y.age = 0, ~ Open(y) => y.segs = 0 PROVE Good(Answered(y))
    BY <1>6 DEF Answered, Outcome
<1>7. ASSUME NEW b, NEW q \in Committed(b) PROVE Good(q)
  <2>1. PICK k : q = Outcome(NoTransfer, TRUE, k)
      BY Zenon, <1>7 DEF Committed
  <2> QED
      BY <1>1, <2>1 DEF Outcome
<1>8. ASSUME NEW q \in SubBlocks PROVE Good(q)
  <2>1. PICK n \in 1..MaxSegments : q = Silent(Started("blk_up", FALSE, n))
      BY Zenon, <1>8 DEF SubBlocks
  <2>2. n \in 0..MaxSegments /\ "blk_up" \in TransferStates
      BY DEF TransferStates
  <2>3. Started("blk_up", FALSE, n) \in Transfer /\ Open(Started("blk_up", FALSE, n))
      BY Zenon, <1>3, <2>2
  <2> QED
      BY Zenon, <1>5, <2>1, <2>3
<1>9. x.pdo \in BOOLEAN
    BY DEF Transfer
<1>10. /\ Good(Answered(Started("seg_up", FALSE, 0)))
       /\ Good(Answered(Started("blk_up", FALSE, 0)))
       /\ \A b \in BOOLEAN : /\ Good(Answered(Started("seg_down", b, 0)))
                             /\ Good(Answered(Started("blk_down", b, 0)))
                             /\ Good(Answered(Started("blk_end", b, 0)))
  <2>1. 0 \in 0..MaxSegments /\ {"seg_up", "blk_up", "seg_down", "blk_down", "blk_end"} = TransferStates \ {"none"}
      BY DEF TransferStates
  <2>2. ASSUME NEW st2 \in TransferStates \ {"none"}, NEW b \in BOOLEAN PROVE Good(Answered(Started(st2, b, 0)))
      BY <1>3, <1>6, <2>1
  <2> QED
      BY Zenon, <2>1, <2>2
<1>11. /\ Good(Answered(Continued(x))) /\ Good(Silent(Continued(x)))
       /\ Good(Silent(x)) /\ Good(Silent(NoTransfer))
    BY <1>1, <1>2, <1>5, <1>6
<1> HIDE DEF Good
<1>12. Good(o)
  <2>1. CASE x.state = "blk_down" /\ req # "abort"
      BY <2>1, <1>4, <1>9, <1>10, <1>11 DEF ProcessWithContext, BlockDownloadSegment
  <2>2. CASE ~ (x.state = "blk_down" /\ req # "abort")
    <3>1. CASE req \in {"abort", "abort_bits"}
        BY Zenon, <2>2, <3>1, <1>11 DEF ProcessWithContext
    <3>2. CASE req \in {"upload", "upload_segment", "block_upload"}
        BY Zenon, <2>2, <3>2, <1>4, <1>10, <1>11
           DEF ProcessWithContext, InitiateUpload, UploadSegment, InitiateBlockUpload
    <3>3. CASE req \in {"start", "ack", "end_upload"}
        BY Zenon, <2>2, <3>3, <1>4, <1>8, <1>11
           DEF ProcessWithContext, StartBlockUpload, AckBlockUpload, EndBlockUpload
    <3>4. CASE req \in {"download", "download_pdo", "download_segment"}
        BY Zenon, <2>2, <3>4, <1>4, <1>7, <1>10, <1>11
           DEF ProcessWithContext, InitiateDownload, DownloadSegment
    <3>5. CASE req \in {"block_download", "block_download_pdo", "end_download"}
        BY Zenon, <2>2, <3>5, <1>4, <1>7, <1>10
           DEF ProcessWithContext, InitiateBlockDownload, EndBlockDownload
    <3> QED
        BY <3>1, <3>2, <3>3, <3>4, <3>5 DEF Requests
  <2> QED
      BY <2>1, <2>2
<1>13. ASSUME req = "abort" PROVE ~ Open(o.x) /\ ~ o.resp
    BY <1>1, <1>13 DEF ProcessWithContext, Silent, Outcome
<1> QED
    BY <1>12, <1>13 DEF Good

(* An idle channel is well formed.                                         *)
LEMMA EmptyOK == ChannelOK(NothingPending, NoTransfer) /\ ~ NothingPending.has /\ ~ Open(NoTransfer)
<1>1. NothingPending \in Pending
    BY SdoTimeoutAssumption DEF NothingPending, Pending
<1>2. NoTransfer \in Transfer /\ ~ Open(NoTransfer) /\ NoTransfer.segs = 0
    BY SdoTimeoutAssumption, MaxSegmentsAssumption DEF NoTransfer, Transfer, TransferStates, Open
<1>3. NothingPending.has = FALSE
    BY DEF NothingPending
<1> QED
    BY <1>1, <1>2, <1>3 DEF ChannelOK

(* abort_all_sdo_transfers leaves every channel idle.                      *)
LEMMA AbortAllSdo ==
    ASSUME AbortAllSdoTransfers, ch' \in Channels PROVE SdoInv'
<1>1. \A c \in Channels : slot'[c] = NothingPending /\ xfer'[c] = NoTransfer
    BY DEF AbortAllSdoTransfers
<1>2. slot' \in [Channels -> Pending] /\ xfer' \in [Channels -> Transfer]
    BY EmptyOK DEF AbortAllSdoTransfers, ChannelOK
<1> QED
    BY <1>1, <1>2, EmptyOK DEF SdoInv, NoSdoWorkOutsideActive

(* A new node has no SDO work.                                             *)
LEMMA SdoInit == Init => SdoInv
<1> SUFFICES ASSUME Init PROVE SdoInv
    OBVIOUS
<1>1. /\ \A c \in Channels : slot[c] = NothingPending /\ xfer[c] = NoTransfer
      /\ slot \in [Channels -> Pending] /\ xfer \in [Channels -> Transfer]
      /\ ch \in Channels
    BY EmptyOK, ChannelsAssumption DEF Init, ChannelOK
<1> QED
    BY <1>1, EmptyOK DEF SdoInv, NoSdoWorkOutsideActive

(* A step that replaces the work of one channel c.                         *)
LEMMA OneChannel ==
    ASSUME SdoInv, NEW c \in Channels, NEW s, NEW x,
           ChannelOK(s, x), s.has => s.age < SdoTimeout,
           slot' = [slot EXCEPT ![c] = s], xfer' = [xfer EXCEPT ![c] = x],
           ch' = ch, pc # "idle", nmt' \in Active
    PROVE  SdoInv'
<1>1. \A d \in Channels : /\ d = c => slot'[d] = s /\ xfer'[d] = x
                          /\ d # c => slot'[d] = slot[d] /\ xfer'[d] = xfer[d]
    BY DEF SdoInv
<1>2. slot' \in [Channels -> Pending] /\ xfer' \in [Channels -> Transfer]
    BY DEF SdoInv, ChannelOK
<1>3. \A d \in Channels : ChannelOK(slot'[d], xfer'[d])
    BY <1>1 DEF SdoInv
<1>4. \A d \in Channels : slot'[d].has => slot'[d].age < SdoTimeout
    BY <1>1 DEF SdoInv
<1> QED
    BY <1>2, <1>3, <1>4 DEF SdoInv, NoSdoWorkOutsideActive

(* Every step keeps the channels well formed, and past begin_poll no       *)
(* answer is stale.                                                        *)
LEMMA SdoNext == LifeInv /\ SdoInv /\ [Next]_vars => SdoInv'
<1> SUFFICES ASSUME LifeInv, SdoInv, [Next]_vars PROVE SdoInv'
    OBVIOUS
<1>1. ASSUME UNCHANGED <<slot, xfer>>, ch' \in Channels,
             pc' # "idle" => pc # "idle", nmt' \notin Active => nmt \notin Active
      PROVE  SdoInv'
    BY <1>1 DEF SdoInv, NoSdoWorkOutsideActive
<1>2. ASSUME BeginPoll, nmt' \in Active \/ (nmt' = nmt /\ nmt \notin Active) PROVE SdoInv'
  <2>1. \A c \in Channels : /\ slot'[c] = BeginPollSlot(slot[c], xfer[c])
                            /\ xfer'[c] = BeginPollTransfer(slot[c], xfer[c])
      BY <1>2 DEF BeginPoll
  <2>2. \A c \in Channels : ChannelOK(slot'[c], xfer'[c])
      BY <2>1, BeginPollOK DEF SdoInv
  <2>3. \A c \in Channels : slot'[c].has => slot'[c].age < SdoTimeout
      BY SMTT(30), <2>1, BeginPollOK DEF SdoInv
  <2>4. slot' \in [Channels -> Pending] /\ xfer' \in [Channels -> Transfer]
      BY <1>2, <2>1, <2>2 DEF BeginPoll, ChannelOK
  <2>5. ASSUME nmt' \notin Active PROVE \A c \in Channels : ~ slot'[c].has /\ ~ Open(xfer'[c])
      BY <1>2, <2>1, <2>5, BeginPollOK DEF SdoInv, NoSdoWorkOutsideActive
  <2> QED
      BY <1>2, <2>2, <2>3, <2>4, <2>5 DEF SdoInv, NoSdoWorkOutsideActive, BeginPoll
<1>3. CASE Boot
    BY <1>2, <1>3 DEF Boot, BootPending, BootState, Active
<1>4. CASE Poll
    BY <1>2, <1>4 DEF Poll
<1>5. ASSUME NEW cmd, RxNmt(cmd) PROVE SdoInv'
  <2>1. ch' \in Channels /\ pc' = pc
      BY <1>5 DEF RxNmt, TakeFrame, SdoInv
  <2>2. \/ AbortAllSdoTransfers
        \/ UNCHANGED <<slot, xfer>> /\ nmt' \in Active
        \/ UNCHANGED <<slot, xfer, nmt>>
      BY <1>5 DEF RxNmt, Reset, Untouched, sdoVars, lifeVars, Active
  <2> QED
      BY <2>1, <2>2, <1>1, AbortAllSdo
<1>6. ASSUME NEW c \in Channels, NEW req \in Requests, RxSdo(c, req) PROVE SdoInv'
  <2>1. PICK o \in ProcessWithContext(xfer[c], req, nmt), accepted \in BOOLEAN :
            /\ xfer' = [xfer EXCEPT ![c] = o.x]
            /\ slot' = [slot EXCEPT ![c] = IF o.resp THEN TrySend(SdoOwed(c, req, o.resp), accepted)
                                                     ELSE SdoOwed(c, req, o.resp)]
      BY Zenon, <1>6 DEF RxSdo
  <2>2. /\ slot[c] \in Pending /\ xfer[c] \in Transfer
        /\ ChannelOK(slot[c], xfer[c])
        /\ pc = "rx" /\ ch' = ch
        /\ nmt' \in Active
        /\ req # "abort" => ~ slot[c].has
      BY <1>6 DEF SdoInv, RxSdo, TakeFrame, SdoDropped, lifeVars
  <2>3. /\ o.x \in Transfer /\ o.resp \in BOOLEAN
        /\ o.resp /\ Open(o.x) => o.x.age = 0
        /\ ~ Open(o.x) => o.x.segs = 0
        /\ req = "abort" => ~ Open(o.x) /\ ~ o.resp
      BY <2>2, OutcomeOK DEF ChannelOK
  <2> DEFINE s == IF req = "abort" THEN [slot[c] EXCEPT !.has = FALSE, !.age = 0] ELSE slot[c]
  <2>4. s \in Pending
    <3>1. CASE req = "abort"
      <4>1. 0 \in 0..SdoTimeout
          BY SdoTimeoutAssumption
      <4> QED
          BY Zenon, <2>2, <3>1, <4>1 DEF Pending
    <3>2. CASE req # "abort"
        BY <2>2, <3>2
    <3> QED
        BY <3>1, <3>2
  <2>5. ~ s.has
    <3>1. CASE req = "abort"
        BY <2>2, <3>1 DEF Pending
    <3>2. CASE req # "abort"
        BY <2>2, <3>2
    <3> QED
        BY <3>1, <3>2
  <2>6. SdoOwed(c, req, o.resp) = IF o.resp THEN QueueResponse(s) ELSE s
      BY DEF SdoOwed
  <2> HIDE DEF s
  <2>7. CASE o.resp
    <3>1. /\ ChannelOK(QueueResponse(s), o.x)
          /\ QueueResponse(s).age = 0
        BY <2>3, <2>4, <2>7, QueueOK
    <3>2. /\ ChannelOK(TrySend(QueueResponse(s), accepted), o.x)
          /\ TrySend(QueueResponse(s), accepted).has
               => TrySend(QueueResponse(s), accepted).age = QueueResponse(s).age
        BY <3>1, TrySendOK
    <3>3. 0 < SdoTimeout
        BY SdoTimeoutAssumption
    <3>4. slot' = [slot EXCEPT ![c] = TrySend(QueueResponse(s), accepted)]
        BY <2>1, <2>6, <2>7
    <3> QED
        BY Zenon, <2>1, <2>2, <3>1, <3>2, <3>3, <3>4, OneChannel
  <2>8. CASE ~ o.resp
    <3>1. ChannelOK(s, o.x)
        BY <2>3, <2>4, <2>5 DEF ChannelOK
    <3>2. slot' = [slot EXCEPT ![c] = s]
        BY <2>1, <2>6, <2>8
    <3> QED
        BY Zenon, <2>1, <2>2, <2>5, <3>1, <3>2, OneChannel
  <2> QED
      BY <2>3, <2>7, <2>8
<1>7. CASE SdoTrySend
  <2>1. PICK accepted \in BOOLEAN : slot' = [slot EXCEPT ![ch] = TrySend(slot[ch], accepted)]
      BY Zenon, <1>7 DEF SdoTrySend, SdoInv
  <2>2. /\ ch \in Channels /\ ch' = ch /\ pc = "sdo" /\ nmt' = nmt
        /\ slot[ch].has
        /\ slot[ch].age < SdoTimeout
        /\ ChannelOK(slot[ch], xfer[ch])
        /\ xfer' = [xfer EXCEPT ![ch] = xfer[ch]]
      BY <1>7 DEF SdoTrySend, Sends, SdoInv, lifeVars
  <2>3. nmt \in Active
      BY <2>2 DEF SdoInv, NoSdoWorkOutsideActive
  <2>4. /\ ChannelOK(TrySend(slot[ch], accepted), xfer[ch])
        /\ TrySend(slot[ch], accepted).has => TrySend(slot[ch], accepted).age = slot[ch].age
      BY <2>2, TrySendOK
  <2> QED
      BY Zenon, <2>1, <2>2, <2>3, <2>4, OneChannel
<1>8. CASE SdoSegment
  <2>1. PICK accepted \in BOOLEAN :
            slot' = [slot EXCEPT ![ch] = TrySend(QueueResponse(slot[ch]), accepted)]
      BY Zenon, <1>8 DEF SdoSegment
  <2>2. /\ ch \in Channels /\ ch' = ch /\ pc = "sdo" /\ nmt' = nmt
        /\ slot[ch] \in Pending /\ xfer[ch] \in Transfer
        /\ xfer[ch].segs > 0
        /\ xfer' = [xfer EXCEPT ![ch] = SegmentOffered(xfer[ch])]
      BY <1>8 DEF SdoSegment, SdoInv, lifeVars
  <2>3. Open(xfer[ch])
      BY <2>2 DEF SdoInv, ChannelOK
  <2>4. nmt \in Active
      BY <2>2, <2>3 DEF SdoInv, NoSdoWorkOutsideActive
  <2>5. /\ SegmentOffered(xfer[ch]) \in Transfer
        /\ SegmentOffered(xfer[ch]).age = 0
        /\ Open(SegmentOffered(xfer[ch]))
      BY <2>2, <2>3, SegmentOK
  <2>6. /\ ChannelOK(QueueResponse(slot[ch]), SegmentOffered(xfer[ch]))
        /\ QueueResponse(slot[ch]).age = 0
      BY <2>2, <2>5, QueueOK
  <2>7. /\ ChannelOK(TrySend(QueueResponse(slot[ch]), accepted), SegmentOffered(xfer[ch]))
        /\ TrySend(QueueResponse(slot[ch]), accepted).has
             => TrySend(QueueResponse(slot[ch]), accepted).age = 0
      BY <2>6, TrySendOK
  <2>8. 0 < SdoTimeout
      BY SdoTimeoutAssumption
  <2> QED
      BY Zenon, <2>1, <2>2, <2>4, <2>7, <2>8, OneChannel
<1>9. CASE Tick
  <2>1. \A c \in Channels : slot'[c] = SlotTick(slot[c]) /\ xfer'[c] = TransferTick(xfer[c])
      BY <1>9 DEF Tick
  <2>2. \A c \in Channels : ChannelOK(slot'[c], xfer'[c])
      BY <2>1, TickOK DEF SdoInv
  <2>3. slot' \in [Channels -> Pending] /\ xfer' \in [Channels -> Transfer]
      BY <1>9, <2>1, <2>2 DEF Tick, ChannelOK
  <2>4. UNCHANGED <<pc, ch, nmt>> /\ pc = "idle"
      BY <1>9 DEF Tick, lifeVars
  <2>5. NoSdoWorkOutsideActive'
      BY <2>1, <2>4, TickOK DEF SdoInv, NoSdoWorkOutsideActive
  <2> QED
      BY <2>2, <2>3, <2>4, <2>5 DEF SdoInv
<1>10. CASE RequestReset
    BY <1>10, AbortAllSdo DEF RequestReset, AtIdle, Reset, SdoInv
<1>11. ASSUME SdoDone \/ RxDone PROVE SdoInv'
  <2>1. ch' \in Channels
      BY <1>11, ChannelsAssumption DEF SdoDone, RxDone
  <2> QED
      BY <1>1, <1>11, <2>1 DEF SdoDone, RxDone, Untouched, sdoVars, lifeVars
<1>12. ASSUME Process, ~ Boot, ~ Poll, \A cmd : ~ RxNmt(cmd),
              \A c \in Channels, req \in Requests : ~ RxSdo(c, req),
              ~ RxDone, ~ SdoTrySend, ~ SdoSegment, ~ SdoDone
       PROVE  /\ UNCHANGED <<slot, xfer, ch, nmt>>
              /\ pc' # "idle" => pc # "idle"
    BY Zenon, <1>12 DEF Process, BootRefused, RxSync, RxLss, RxOther, RxRpdo, RxHeartbeat,
       RxSdoDropped, SyncSilent, SyncProduced, SyncRefused, Retry, Control, Transmit,
       TakeFrame, Untouched, lifeVars, sdoVars
<1>13. ASSUME Environment, ~ RequestReset, ~ Tick
       PROVE  UNCHANGED <<slot, xfer, ch, nmt, pc>>
    BY <1>13 DEF Environment, NotifyChanged, SetError, OdMut, OdMutConfig, TakeResetEvent,
       NextEvent, Arrive, AtIdle, Untouched, lifeVars, sdoVars
<1>14. ASSUME UNCHANGED <<slot, xfer, ch, nmt>>, pc' # "idle" => pc # "idle" PROVE SdoInv'
    BY <1>1, <1>14 DEF SdoInv
<1>15. CASE UNCHANGED vars
    BY <1>14, <1>15 DEF vars, lifeVars, sdoVars
<1> QED
    BY <1>3, <1>4, <1>5, <1>6, <1>7, <1>8, <1>9, <1>10, <1>11, <1>12, <1>13, <1>14, <1>15
       DEF Next, Process

-----------------------------------------------------------------------------
(* PDO work.                                                               *)

RpdoEngine == [pending : [Rpdos -> Values \cup {NoData}],
               armed : [Rpdos -> BOOLEAN],
               expired : [Rpdos -> BOOLEAN],
               age : [Rpdos -> Nat]]

NoPdoWork == /\ RpdoPending(rpdo) = {}
             /\ pend = NoPend
             /\ win.active = FALSE

PdoInv ==
    /\ rpdo \in RpdoEngine
    /\ nmt # "Operational" => NoPdoWork

(* discard_pending forgets the RPDOs waiting for SYNC; restarting the      *)
(* deadlines does not touch them.                                          *)
LEMMA DiscardOK ==
    ASSUME NEW e \in RpdoEngine
    PROVE  /\ DiscardPending(e) \in RpdoEngine
           /\ RpdoPending(DiscardPending(e)) = {}
           /\ ResetDeadlineMonitoring(e) \in RpdoEngine
           /\ RpdoPending(ResetDeadlineMonitoring(e)) = RpdoPending(e)
<1>1. DiscardPending(e) \in RpdoEngine
    BY DEF DiscardPending, RpdoEngine
<1>2. RpdoPending(DiscardPending(e)) = {}
    BY DEF DiscardPending, RpdoPending, RpdoEngine
<1>3. ResetDeadlineMonitoring(e) \in RpdoEngine
    BY Zenon DEF ResetDeadlineMonitoring, RpdoEngine
<1>4. ResetDeadlineMonitoring(e).pending = e.pending
    BY DEF ResetDeadlineMonitoring, RpdoEngine
<1>5. RpdoPending(ResetDeadlineMonitoring(e)) = RpdoPending(e)
    BY <1>4 DEF RpdoPending
<1> QED
    BY <1>1, <1>2, <1>3, <1>5

(* Leaving Operational leaves no PDO work behind.                          *)
LEMMA LeavePdo ==
    ASSUME rpdo \in RpdoEngine, LeaveOperational PROVE PdoInv'
<1>1. rpdo' \in RpdoEngine /\ RpdoPending(rpdo') = {}
    BY DiscardOK DEF LeaveOperational
<1>2. pend' = NoPend /\ win'.active = FALSE
    BY DEF LeaveOperational, WindowReset, WindowNew
<1> QED
    BY <1>1, <1>2 DEF PdoInv, NoPdoWork, RpdoPending, NoPend

(* Neither does a reset.                                                   *)
LEMMA ResetPdo ==
    ASSUME rpdo \in RpdoEngine, Reset PROVE PdoInv'
<1>1. rpdo' \in RpdoEngine /\ RpdoPending(rpdo') = {}
    BY DiscardOK DEF Reset, ResetSyncState
<1>2. pend' = NoPend /\ win'.active = FALSE
    BY DEF Reset, ResetSyncState, WindowReset, WindowNew
<1> QED
    BY <1>1, <1>2 DEF PdoInv, NoPdoWork, RpdoPending, NoPend

(* A new node has no PDO work.                                             *)
LEMMA PdoInit == Init => PdoInv
<1> SUFFICES ASSUME Init PROVE PdoInv
    OBVIOUS
<1>1. RpdoNew \in RpdoEngine /\ RpdoPending(RpdoNew) = {}
    BY DEF RpdoNew, RpdoEngine, RpdoPending
<1>2. rpdo = RpdoNew /\ pend = NoPend /\ win = WindowNew
    BY DEF Init
<1> QED
    BY <1>1, <1>2 DEF PdoInv, NoPdoWork, WindowNew

(* Every step that queues PDO work happens in Operational.                 *)
LEMMA PdoNext == LifeInv /\ PdoInv /\ [Next]_vars => PdoInv'
<1> SUFFICES ASSUME LifeInv, PdoInv, [Next]_vars PROVE PdoInv'
    OBVIOUS
<1>0. rpdo \in RpdoEngine
    BY DEF PdoInv
<1>1. ASSUME UNCHANGED <<rpdo, pend, win>>, nmt' # "Operational" => nmt # "Operational"
      PROVE  PdoInv'
    BY <1>1 DEF PdoInv, NoPdoWork, RpdoPending, NoPend
<1>2. ASSUME rpdo' \in RpdoEngine, nmt' = "Operational" PROVE PdoInv'
    BY <1>2 DEF PdoInv
<1>3. ASSUME NEW cmd, RxNmt(cmd) PROVE PdoInv'
  <2>1. \/ Reset
        \/ LeaveOperational
        \/ UNCHANGED <<rpdo, pend, win>> /\ nmt' = "Operational"
        \/ UNCHANGED <<rpdo, pend, win, nmt>>
      BY <1>3 DEF RxNmt, Untouched, pdoVars, syncVars, lifeVars
  <2> QED
      BY <1>0, <1>1, <2>1, LeavePdo, ResetPdo
<1>4. ASSUME NEW frames, HandleSync(frames), UNCHANGED lifeVars PROVE PdoInv'
  <2>1. CASE NoPulse(frames)
      BY <1>1, <1>4, <2>1 DEF NoPulse, pdoVars, syncVars, lifeVars
  <2>2. ASSUME NEW refused, nmt = "Operational", Pulse(refused, frames) PROVE PdoInv'
      BY <1>0, <1>2, <1>4, <2>2, DiscardOK DEF Pulse, lifeVars
  <2> QED
      BY <1>4, <2>1, <2>2 DEF HandleSync
<1>5. ASSUME RxSync \/ SyncProduced PROVE PdoInv'
    BY <1>4, <1>5 DEF RxSync, SyncProduced
<1>6. ASSUME NEW r \in Rpdos, NEW v \in Values, RxRpdo(r, v) PROVE PdoInv'
  <2>1. RpdoReceive(rpdo, rcfg, r, v) \in RpdoEngine
      BY Zenon, <1>0 DEF RpdoReceive, RpdoEngine
  <2>2. CASE nmt = "Operational" /\ rcfg[r].enabled
      BY <1>2, <1>6, <2>1, <2>2 DEF RxRpdo, lifeVars
  <2>3. CASE ~ (nmt = "Operational" /\ rcfg[r].enabled)
      BY <1>1, <1>6, <2>3 DEF RxRpdo, lifeVars, syncVars
  <2> QED
      BY <2>2, <2>3
<1>7. CASE Retry
    BY <1>7 DEF Retry, PdoInv, NoPdoWork, RpdoPending, NoPend, lifeVars
<1>8. CASE Control
  <2>1. CASE nmt = "Operational" /\ rpdo' = CheckDeadlines(rpdo, rcfg)
    <3>1. CheckDeadlines(rpdo, rcfg) \in RpdoEngine
        BY Zenon, <1>0 DEF CheckDeadlines, RpdoEngine
    <3> QED
        BY <1>2, <1>8, <2>1, <3>1 DEF Control, lifeVars
  <2>2. CASE LeaveOperational
      BY <1>0, <2>2, LeavePdo
  <2> QED
      BY <1>8, <2>1, <2>2 DEF Control, Deadlines
<1>9. CASE Tick
  <2>1. /\ RpdoTick(rpdo) \in RpdoEngine
        /\ RpdoTick(rpdo).pending = rpdo.pending
    BY <1>0, DeadlineAssumption DEF RpdoTick, RpdoEngine, Older
  <2>2. win'.active = FALSE \/ nmt = "Operational"
      BY <1>9 DEF Tick, PdoInv, NoPdoWork
  <2> QED
      BY <1>9, <2>1, <2>2 DEF Tick, PdoInv, NoPdoWork, RpdoPending, NoPend, lifeVars
<1>10. CASE RequestReset
    BY <1>0, <1>10, ResetPdo DEF RequestReset
<1>11. CASE Boot
    BY <1>1, <1>11 DEF Boot, BootPending, BootState, BeginPoll, LifeInv, BootedIffStarted, syncVars
<1>12. ASSUME Process, ~ Boot, \A cmd : ~ RxNmt(cmd), ~ RxSync, ~ SyncProduced,
              \A r \in Rpdos, v \in Values : ~ RxRpdo(r, v), ~ Retry, ~ Control
       PROVE  UNCHANGED <<rpdo, pend, win, nmt>>
    BY Zenon, <1>12 DEF Process, BootRefused, Poll, BeginPoll, RxLss, RxOther, RxHeartbeat, RxSdo,
       RxSdoDropped, RxDone, SdoTrySend, SdoSegment, SdoDone, SyncSilent, SyncRefused, Transmit,
       Untouched, lifeVars, pdoVars, syncVars
<1>13. ASSUME Environment, ~ RequestReset, ~ Tick
       PROVE  UNCHANGED <<rpdo, pend, win, nmt>>
    BY Zenon, <1>13 DEF Environment, NotifyChanged, SetError, OdMut, OdMutConfig, TakeResetEvent,
       NextEvent, Arrive, Untouched, lifeVars, pdoVars, syncVars
<1>14. CASE UNCHANGED vars
    BY <1>1, <1>14 DEF vars, lifeVars, pdoVars, syncVars
<1> QED
    BY <1>1, <1>3, <1>5, <1>6, <1>7, <1>8, <1>9, <1>10, <1>11, <1>12, <1>13, <1>14
       DEF Next

-----------------------------------------------------------------------------
(* What was transmitted in the last step.                                  *)

OutInv ==
    /\ scfg \in SyncConfigs
    /\ ServicesPermitted

(* A new node has transmitted nothing.                                     *)
LEMMA OutInit == Init => OutInv
BY DEF Init, OutInv, ServicesPermitted

(* Every step transmits only what the NMT state, the SDO timeout and the   *)
(* synchronous window permit.                                              *)
LEMMA OutNext == LifeInv /\ SdoInv /\ OutInv /\ [Next]_vars => OutInv'
<1> SUFFICES ASSUME LifeInv, SdoInv, OutInv, [Next]_vars PROVE OutInv'
    OBVIOUS
<1>0. 0 < SdoTimeout /\ scfg.window \in Nat
    BY SdoTimeoutAssumption, SyncConfigsAssumption DEF OutInv
<1>1. ASSUME scfg' \in SyncConfigs, out' = {} PROVE OutInv'
    BY <1>1 DEF OutInv, ServicesPermitted
<1>2. ASSUME scfg' \in SyncConfigs, NEW svc, NEW of, NEW age,
             out' \in {{Sent(svc, of, age)}, {}},
             \/ svc = "boot" /\ nmt = "Initializing"
             \/ svc = "heartbeat" /\ nmt # "Initializing"
             \/ svc = "sdo" /\ nmt \in Active /\ age < SdoTimeout
             \/ svc = "lss"
      PROVE  OutInv'
    BY <1>2 DEF OutInv, ServicesPermitted, Permitted, Sent
<1>3. ASSUME NEW frames, HandleSync(frames), UNCHANGED scfg,
             \A f \in frames : f.svc = "sync" /\ f.nmt \in Active
      PROVE  OutInv'
  <2>1. CASE NoPulse(frames)
      BY <1>3, <2>1 DEF NoPulse, OutInv, ServicesPermitted, Permitted
  <2>2. ASSUME NEW refused, nmt = "Operational", Pulse(refused, frames) PROVE OutInv'
    <3>1. ASSUME NEW f \in out' PROVE Permitted(f)'
      <4>1. CASE f \in frames
          BY <1>3, <4>1 DEF Permitted
      <4>2. CASE f \notin frames
        <5>1. PICK t : f = Sent("spdo", t, 0)
            BY SMTT(30), <2>2, <3>1, <4>2 DEF Pulse
        <5> QED
            BY <1>0, <1>3, <2>2, <5>1 DEF Permitted, Sent
      <4> QED
          BY <4>1, <4>2
    <3> QED
        BY <1>3, <3>1 DEF OutInv, ServicesPermitted
  <2> QED
      BY <1>3, <2>1, <2>2 DEF HandleSync
<1>4. CASE BootRefused \/ Poll
    BY SMTT(30), <1>1, <1>4 DEF BootRefused, Poll, BeginPoll, cfgVars, OutInv
<1>5. CASE Boot
    BY SMTT(30), <1>2, <1>5 DEF Boot, BootPending, BootState, BeginPoll, cfgVars, OutInv, LifeInv, BootedIffStarted
<1>6. ASSUME NEW cmd, RxNmt(cmd) PROVE OutInv'
    BY <1>1, <1>6 DEF RxNmt, Reset, Untouched, cfgVars, OutInv
<1>7. CASE RxSync
    BY <1>3, <1>7 DEF RxSync, cfgVars
<1>8. CASE RxLss
    BY <1>2, <1>8 DEF RxLss, Untouched, cfgVars, OutInv
<1>9. ASSUME \/ RxOther \/ RxDone \/ SdoDone \/ SyncSilent \/ SyncRefused
             \/ \E r \in Rpdos, v \in Values : RxRpdo(r, v)
             \/ \E n \in Monitored, st \in NmtStates : RxHeartbeat(n, st)
             \/ \E c \in Channels, req \in Requests : RxSdoDropped(c, req)
      PROVE  OutInv'
    BY Zenon, <1>1, <1>9 DEF RxOther, RxDone, SdoDone, SyncSilent, SyncRefused, RxRpdo, RxHeartbeat,
       RxSdoDropped, Untouched, cfgVars, OutInv
<1>10. ASSUME NEW c \in Channels, NEW req \in Requests, RxSdo(c, req) PROVE OutInv'
  <2>1. scfg' \in SyncConfigs /\ nmt \in Active
    <3>1. PICK commit : Resync(commit)
        BY Zenon, <1>10 DEF RxSdo
    <3>2. scfg' \in SyncConfigs
        BY <3>1 DEF Resync, ResyncSync, OutInv
    <3>3. nmt \in Active
        BY Zenon, <1>10 DEF RxSdo, SdoDropped
    <3> QED
        BY <3>2, <3>3
  <2>2. out' \in {{Sent("sdo", c, 0)}, {}}
      BY <1>10 DEF RxSdo
  <2> QED
      BY SMTT(30), <1>0, <1>2, <2>1, <2>2
<1>11. CASE SdoTrySend
  <2>1. /\ slot[ch].has /\ slot[ch].age < SdoTimeout /\ nmt \in Active
        /\ scfg' \in SyncConfigs
        /\ out' \in {{Sent("sdo", ch, slot[ch].age)}, {}}
      BY <1>11 DEF SdoTrySend, Sends, SdoInv, NoSdoWorkOutsideActive, cfgVars, OutInv
  <2> QED
      BY <1>2, <2>1
<1>12. CASE SdoSegment
  <2>1. /\ nmt \in Active
        /\ scfg' \in SyncConfigs
        /\ out' \in {{Sent("sdo", ch, 0)}, {}}
      BY <1>12 DEF SdoSegment, SdoInv, ChannelOK, NoSdoWorkOutsideActive, cfgVars, OutInv
  <2> QED
      BY <1>0, <1>2, <2>1
<1>13. CASE SyncProduced
  <2>1. nmt \in Active
      BY <1>13 DEF SyncProduced, SyncDue, LifeInv, BootedIffStarted, NmtStates, Active
  <2>2. \A f \in {Sent("sync", PulseCounter(prod, scfg), 0)} : f.svc = "sync" /\ f.nmt \in Active
      BY <2>1 DEF Sent
  <2> QED
      BY <1>3, <1>13, <2>2 DEF SyncProduced, cfgVars
<1>14. CASE Retry
  <2>1. scfg' = scfg
      BY <1>14 DEF Retry, cfgVars
  <2>2. CASE out' = {}
      BY <1>1, <2>1, <2>2 DEF OutInv
  <2>3. ASSUME nmt = "Operational", AllowsTransmit(win, scfg),
               \A f \in out' : \E t \in Tpdos : f = Sent("spdo", t, win.age)
        PROVE  OutInv'
    <3>1. ASSUME NEW f \in out' PROVE Permitted(f)'
        BY <2>1, <2>3, <3>1 DEF AllowsTransmit, Permitted, Sent
    <3> QED
        BY <2>1, <3>1 DEF OutInv, ServicesPermitted
  <2> QED
      BY <1>14, <2>2, <2>3 DEF Retry, Unsent
<1>15. CASE Control
    BY <1>1, <1>2, <1>15 DEF Control, ProduceHeartbeat, HeartbeatSent, LifeInv, BootedIffStarted,
       cfgVars, OutInv
<1>16. CASE Transmit
  <2>1. scfg' = scfg
      BY <1>16 DEF Transmit, cfgVars
  <2>2. \A f \in out' : \/ f = Sent("emcy", 0, 0) /\ nmt \in Active
                        \/ \E t \in Tpdos : f = Sent("tpdo", t, 0) /\ nmt = "Operational"
      BY <1>16 DEF Transmit
  <2>3. ASSUME NEW f \in out' PROVE Permitted(f)'
      BY SMTT(30), <2>2, <2>3 DEF Permitted, Sent
  <2> QED
      BY <2>1, <2>3 DEF OutInv, ServicesPermitted
<1>17. CASE Environment
    BY <1>1, <1>17 DEF Environment, NotifyChanged, SetError, OdMut, OdMutConfig, RequestReset, Reset,
       TakeResetEvent, NextEvent, Arrive, Tick, AtIdle, Untouched, cfgVars, OutInv
<1>18. CASE UNCHANGED vars
    BY <1>18 DEF vars, cfgVars, OutInv, ServicesPermitted, Permitted
<1> QED
    BY SMTT(30), <1>4, <1>5, <1>6, <1>7, <1>8, <1>9, <1>10, <1>11, <1>12, <1>13, <1>14, <1>15, <1>16,
       <1>17, <1>18 DEF Next, Process

-----------------------------------------------------------------------------
(* Pending synchronous TPDOs.                                              *)

(* A step that keeps frames for a retry keeps them as they are, and only a *)
(* pulse replaces them, by what it sampled itself.                         *)
LEMMA SamplesNext == SamplesOfLastPulse /\ [Next]_vars => SamplesOfLastPulse'
<1> SUFFICES ASSUME SamplesOfLastPulse, [Next]_vars PROVE SamplesOfLastPulse'
    OBVIOUS
<1>1. ASSUME UNCHANGED <<pend, lastPulse>> PROVE SamplesOfLastPulse'
    BY <1>1 DEF SamplesOfLastPulse, Unsent
<1>2. ASSUME pend' = NoPend PROVE SamplesOfLastPulse'
    BY <1>2 DEF SamplesOfLastPulse, Unsent, NoPend
<1>3. ASSUME NEW frames, HandleSync(frames) PROVE SamplesOfLastPulse'
  <2>1. CASE NoPulse(frames)
      BY <1>1, <2>1 DEF NoPulse, pdoVars, syncVars
  <2>2. ASSUME NEW refused, Pulse(refused, frames) PROVE SamplesOfLastPulse'
      BY Zenon, <2>2 DEF Pulse, Sampled, SamplesOfLastPulse, Unsent
  <2> QED
      BY <1>3, <2>1, <2>2 DEF HandleSync
<1>4. ASSUME NEW cmd, RxNmt(cmd) PROVE SamplesOfLastPulse'
    BY Zenon, <1>1, <1>2, <1>4 DEF RxNmt, Reset, ResetSyncState, LeaveOperational, Untouched, pdoVars, syncVars
<1>5. CASE Retry
  <2>1. CASE UNCHANGED <<pend, tried>> \/ pend' = NoPend
      BY <1>1, <1>2, <1>5, <2>1 DEF Retry
  <2>2. ASSUME NEW refused, pend' = [t \in Tpdos |-> IF t \in refused THEN pend[t] ELSE {}],
               UNCHANGED lastPulse
        PROVE  SamplesOfLastPulse'
      BY <2>2 DEF SamplesOfLastPulse, Unsent
  <2> QED
      BY <1>5, <2>1, <2>2 DEF Retry
<1>6. CASE Control
    BY <1>1, <1>2, <1>6 DEF Control, Deadlines, LeaveOperational
<1>7. CASE RequestReset
    BY <1>2, <1>7 DEF RequestReset, Reset, ResetSyncState
<1>8. ASSUME Process, ~ RxSync, ~ SyncProduced, \A cmd : ~ RxNmt(cmd), ~ Retry, ~ Control
      PROVE  UNCHANGED <<pend, lastPulse>>
    BY Zenon, <1>8 DEF Process, BootRefused, Boot, Poll, BeginPoll, RxLss, RxOther, RxRpdo, RxHeartbeat, RxSdo,
       RxSdoDropped, RxDone, SdoTrySend, SdoSegment, SdoDone, SyncSilent, SyncRefused, Transmit,
       Untouched, pdoVars, syncVars
<1>9. ASSUME Environment, ~ RequestReset PROVE UNCHANGED <<pend, lastPulse>>
    BY <1>9 DEF Environment, NotifyChanged, SetError, OdMut, OdMutConfig, TakeResetEvent,
       NextEvent, Arrive, Tick, Untouched, pdoVars, syncVars
<1>10. CASE UNCHANGED vars
    BY <1>1, <1>10 DEF vars, pdoVars, syncVars
<1> QED
    BY <1>1, <1>3, <1>4, <1>5, <1>6, <1>7, <1>8, <1>9, <1>10 DEF Next, RxSync, SyncProduced

-----------------------------------------------------------------------------
(* What the event queues depend on: the RPDO mapping in force and the      *)
(* monitors.                                                               *)

Monitors == [level : {"Waiting", "Alive", "Timeout", "Off"}, nmt : NmtStates \cup {"none"}, age : Nat]

ConfigInv ==
    /\ rcfg \in RpdoConfigs /\ odcfg \in OdConfigs
    /\ mon \in [Monitored -> Monitors]

(* Each operation on a monitor yields a monitor.                           *)
LEMMA MonitorOK ==
    ASSUME NEW m \in Monitors, NEW st \in NmtStates
    PROVE  /\ MonitorNew \in Monitors /\ MonitorOff \in Monitors /\ MonitorHeard(st) \in Monitors
           /\ MonitorRestart(m) \in Monitors /\ MonitorTick(m) \in Monitors
           /\ MonitorExpired(m) \in Monitors
<1>1. MonitorNew \in Monitors /\ MonitorOff \in Monitors /\ MonitorHeard(st) \in Monitors
    BY DEF Monitors, MonitorNew, MonitorOff, MonitorHeard
<1>2. MonitorRestart(m) \in Monitors
    BY <1>1 DEF MonitorRestart
<1>3. MonitorTick(m) \in Monitors
  <2>1. [m EXCEPT !.age = @ + 1] \in Monitors
      BY DEF Monitors
  <2> QED
      BY <2>1 DEF MonitorTick
<1>4. MonitorExpired(m) \in Monitors
    BY DEF Monitors, MonitorExpired
<1> QED
    BY <1>1, <1>2, <1>3, <1>4

(* A heartbeat produces finitely many events.                              *)
LEMMA MonitorEventsOK ==
    ASSUME NEW m \in Monitors, NEW st \in NmtStates
    PROVE  Len(MonitorEvents(m, st)) \in Nat
<1> DEFINE E == {"Started", "StateChanged", "Recovered", "RemoteReset"}
           reset == IF st = "Initializing" /\ m.nmt # "Initializing"
                      THEN <<"RemoteReset">> ELSE <<>>
           res == MonitorEvents(m, st)
<1>1. /\ <<>> \in Seq(E)
      /\ \A x \in E : <<x>> \in Seq(E)
    OBVIOUS
<1>2. \A s \in Seq(E), t \in Seq(E) : s \o t \in Seq(E)
    OBVIOUS
<1>3. \A s \in Seq(E) : Len(s) \in Nat
    OBVIOUS
<1>4. "Started" \in E /\ "StateChanged" \in E /\ "Recovered" \in E /\ "RemoteReset" \in E
    OBVIOUS
<1>5. m.level \in {"Waiting", "Alive", "Timeout", "Off"}
    BY DEF Monitors
<1> HIDE DEF E
<1>6. reset \in Seq(E)
    BY <1>1, <1>4
<1> DEFINE changed == IF st # m.nmt THEN <<"StateChanged">> \o reset ELSE <<>>
           recovered == <<"Recovered">> \o reset
<1>7. changed \in Seq(E) /\ recovered \in Seq(E)
  <2> HIDE DEF reset
  <2> QED
      BY <1>1, <1>2, <1>4, <1>6
<1>8. res = CASE m.level = "Waiting" -> <<"Started">> [] m.level = "Alive" -> changed
              [] m.level = "Timeout" -> recovered [] m.level = "Off" -> <<>>
    BY DEF MonitorEvents
<1> HIDE DEF changed, recovered, reset, res
<1>9. res \in Seq(E)
    BY <1>1, <1>4, <1>5, <1>7, <1>8
<1> QED
    BY <1>3, <1>9 DEF res

(* A new node has the configuration its OD holds.                          *)
LEMMA ConfigInit == Init => ConfigInv
<1> SUFFICES ASSUME Init PROVE ConfigInv
    OBVIOUS
<1>1. odcfg \in OdConfigs /\ rcfg \in RpdoConfigs
    BY DEF Init, OdConfigs
<1>2. mon \in [Monitored -> Monitors]
  <2>1. MonitorNew \in Monitors
      BY DEF MonitorNew, Monitors
  <2> QED
      BY <2>1 DEF Init
<1> QED
    BY <1>1, <1>2 DEF ConfigInv

(* Downloads, od_mut and resets keep the mappings among the ones the OD    *)
(* accepts, and the monitors well formed.                                  *)
LEMMA ConfigNext == ConfigInv /\ [Next]_vars => ConfigInv'
<1> SUFFICES ASSUME ConfigInv, [Next]_vars PROVE ConfigInv'
    OBVIOUS
<1> USE DEF ConfigInv
<1>0. "Initializing" \in NmtStates
    BY DEF NmtStates
<1>1. ASSUME UNCHANGED <<rcfg, odcfg, mon>> PROVE ConfigInv'
    BY <1>1
<1>2. CASE Reset
  <2>1. rcfg' = odcfg.r /\ odcfg' = odcfg /\ mon' = [n \in Monitored |-> MonitorRestart(mon[n])]
      BY <1>2 DEF Reset
  <2>2. \A n \in Monitored : MonitorRestart(mon[n]) \in Monitors
      BY <1>0, MonitorOK
  <2>3. odcfg.r \in RpdoConfigs
      BY DEF OdConfigs
  <2> QED
      BY <2>1, <2>2, <2>3
<1>3. ASSUME NEW n \in Monitored, NEW st \in NmtStates, RxHeartbeat(n, st) PROVE ConfigInv'
  <2>1. UNCHANGED <<rcfg, odcfg>> /\ (mon' = mon \/ mon' = [mon EXCEPT ![n] = MonitorHeard(st)])
      BY <1>3 DEF RxHeartbeat, cfgVars
  <2>2. MonitorHeard(st) \in Monitors
      BY DEF MonitorHeard, Monitors
  <2> QED
      BY <2>1, <2>2
<1>4. ASSUME NEW commit, Resync(commit) PROVE ConfigInv'
  <2>1. CASE commit = "pdo"
    <3>1. ResyncPdo /\ UNCHANGED mon
        BY <1>4, <2>1 DEF Resync
    <3>2. PICK t \in TpdoConfigs, r \in RpdoConfigs : odcfg' = [odcfg EXCEPT !.t = t, !.r = r]
        BY <3>1 DEF ResyncPdo
    <3>3. rcfg' = odcfg'.r
        BY <3>1 DEF ResyncPdo
    <3> QED
        BY <3>1, <3>2, <3>3 DEF OdConfigs
  <2>2. CASE commit = "hb"
    <3>1. ResyncHeartbeat /\ UNCHANGED rcfg
        BY <1>4, <2>2 DEF Resync
    <3>2. CASE UNCHANGED mon /\ \E i \in HbIntervals : odcfg' = [odcfg EXCEPT !.hb = i]
        BY <3>1, <3>2 DEF OdConfigs
    <3>3. CASE /\ UNCHANGED odcfg
               /\ \E n \in Monitored, m \in {MonitorNew, MonitorOff} : mon' = [mon EXCEPT ![n] = m]
      <4>1. PICK n \in Monitored, m \in {MonitorNew, MonitorOff} : mon' = [mon EXCEPT ![n] = m]
          BY <3>3
      <4>2. m \in Monitors
          BY DEF MonitorNew, MonitorOff, Monitors
      <4> QED
          BY <3>1, <3>3, <4>1, <4>2
    <3> QED
        BY <3>1, <3>2, <3>3 DEF ResyncHeartbeat
  <2>3. CASE commit \notin {"pdo", "hb"}
      BY <1>1, <1>4, <2>3 DEF Resync
  <2> QED
      BY <2>1, <2>2, <2>3
<1>5. CASE Control
  <2>1. UNCHANGED <<rcfg, odcfg>>
        /\ mon' = [n \in Monitored |-> IF n \in Silenced THEN MonitorExpired(mon[n]) ELSE mon[n]]
      BY <1>5 DEF Control, CheckMonitors, cfgVars
  <2>2. \A n \in Monitored : MonitorExpired(mon[n]) \in Monitors
      BY <1>0, MonitorOK
  <2> QED
      BY <2>1, <2>2
<1>6. CASE Tick
  <2>1. UNCHANGED <<rcfg, odcfg>> /\ mon' = [n \in Monitored |-> MonitorTick(mon[n])]
      BY <1>6 DEF Tick, cfgVars
  <2>2. \A n \in Monitored : MonitorTick(mon[n]) \in Monitors
      BY <1>0, MonitorOK
  <2> QED
      BY <2>1, <2>2
<1>7. CASE OdMutConfig
    BY <1>7 DEF OdMutConfig, errVars
<1>8. ASSUME Process, \A n \in Monitored, st \in NmtStates : ~ RxHeartbeat(n, st), ~ Control,
             \A commit : ~ Resync(commit), ~ Reset
      PROVE  UNCHANGED <<rcfg, odcfg, mon>>
    BY Zenon, <1>8 DEF Process, BootRefused, Boot, Poll, BeginPoll, RxNmt, RxSync, RxLss, RxOther, RxRpdo,
       RxSdo, RxSdoDropped, RxDone, SdoTrySend, SdoSegment, SdoDone, SyncSilent, SyncProduced, SyncRefused,
       Retry, Transmit, Untouched, cfgVars, errVars
<1>9. ASSUME Environment, ~ Tick, ~ OdMutConfig, ~ Reset PROVE UNCHANGED <<rcfg, odcfg, mon>>
    BY Zenon, <1>9 DEF Environment, NotifyChanged, SetError, OdMut, RequestReset, TakeResetEvent, NextEvent,
       Arrive, Untouched, cfgVars, errVars
<1>10. CASE UNCHANGED vars
    BY <1>1, <1>10 DEF vars, cfgVars, errVars
<1> QED
    BY <1>1, <1>2, <1>3, <1>4, <1>5, <1>6, <1>7, <1>8, <1>9, <1>10 DEF Next

-----------------------------------------------------------------------------
(* The event queues.                                                       *)

(* Every set of numbers has a least one.                                   *)
LEMMA Least == ASSUME NEW T, T \subseteq Nat, T # {} PROVE \E m \in T : \A n \in T : m <= n
<1> DEFINE R == OpToRel(<, Nat)
<1>1. IsWellFoundedOn(R, Nat)
    BY NatLessThanWellFounded
<1>2. \A y, x \in Nat : y < x => <<y, x>> \in R
    BY DEF OpToRel
<1> HIDE DEF R
<1>3. \E x \in T : \A y \in T : ~ (<<y, x>> \in R)
    BY <1>1, WFMin
<1>4. PICK m \in T : \A y \in T : ~ (<<y, m>> \in R)
    BY <1>3
<1>5. \A n \in T : ~ (n < m)
    BY <1>2, <1>4
<1>6. \A n \in T : m <= n
    BY <1>5
<1> QED
    BY <1>4, <1>6

(* The queue after i pushes: full as soon as they no longer fit.           *)
After(len, i, cap) == [len |-> IF len + i > cap THEN cap ELSE len + i,
                       dropped |-> IF len + i > cap THEN (len + i) - cap ELSE 0]

PushStep(len, cap, f, i) == IF i = 0 THEN [len |-> len, dropped |-> 0] ELSE PushOne(f[i - 1], cap)

(* One more push takes After(i - 1) to After(i).                           *)
LEMMA PushOneOK ==
    ASSUME NEW cap \in Nat, NEW len \in 0..cap, NEW i \in Nat \ {0}
    PROVE  PushOne(After(len, i - 1, cap), cap) = After(len, i, cap)
<1> DEFINE q == After(len, i - 1, cap)
<1>1. CASE len + (i - 1) >= cap
  <2>1. q = [len |-> cap, dropped |-> (len + (i - 1)) - cap]
      BY <1>1 DEF After
  <2>2. PushOne(q, cap) = [len |-> cap, dropped |-> ((len + (i - 1)) - cap) + 1]
      BY <2>1 DEF PushOne
  <2>3. After(len, i, cap) = [len |-> cap, dropped |-> (len + i) - cap]
      BY <1>1 DEF After
  <2>4. ((len + (i - 1)) - cap) + 1 = (len + i) - cap
      OBVIOUS
  <2> QED
      BY <2>2, <2>3, <2>4
<1>2. CASE len + (i - 1) < cap
  <2>1. q = [len |-> len + (i - 1), dropped |-> 0]
      BY <1>2 DEF After
  <2>2. PushOne(q, cap) = [len |-> (len + (i - 1)) + 1, dropped |-> 0]
      BY <1>2, <2>1 DEF PushOne
  <2>3. After(len, i, cap) = [len |-> len + i, dropped |-> 0]
      BY <1>2 DEF After
  <2>4. (len + (i - 1)) + 1 = len + i
      OBVIOUS
  <2> QED
      BY <2>2, <2>3, <2>4
<1> QED
    BY <1>1, <1>2

(* The loop of k pushes keeps the queue within its capacity, and what it   *)
(* reports as dropped is exactly what no longer fits.                      *)
LEMMA PushedOK ==
    ASSUME NEW cap \in Nat, NEW len \in 0..cap, NEW k \in Nat
    PROVE  Pushed(len, k, cap) = After(len, k, cap)
<1> DEFINE G == CHOOSE f : f = [i \in 0..k |-> PushStep(len, cap, f, i)]
           F == [i \in 0..k |-> After(len, i, cap)]
           T == {i \in 0..k : G[i] # After(len, i, cap)}
<1>1. Pushed(len, k, cap) = G[k]
    BY DEF Pushed, PushStep
<1>2. After(len, 0, cap) = [len |-> len, dropped |-> 0]
    BY DEF After
<1>3. F = [i \in 0..k |-> PushStep(len, cap, F, i)]
  <2>1. ASSUME NEW i \in 0..k PROVE PushStep(len, cap, F, i) = After(len, i, cap)
    <3>1. CASE i = 0
        BY <1>2, <3>1 DEF PushStep
    <3>2. CASE i # 0
      <4>1. i - 1 \in 0..k /\ i \in Nat \ {0}
          BY <3>2
      <4>2. F[i - 1] = After(len, i - 1, cap)
          BY <4>1
      <4> HIDE DEF F
      <4> QED
          BY <3>2, <4>1, <4>2, PushOneOK DEF PushStep
    <3> QED
        BY <3>1, <3>2
  <2> DEFINE P(i) == PushStep(len, cap, F, i)
  <2>2. \A i \in 0..k : P(i) = After(len, i, cap)
      BY <2>1
  <2> HIDE DEF P
  <2>3. [i \in 0..k |-> After(len, i, cap)] = [i \in 0..k |-> P(i)]
      BY <2>2
  <2> QED
      BY <2>3 DEF P
<1>4. G = [i \in 0..k |-> PushStep(len, cap, G, i)]
  <2> HIDE DEF F
  <2> QED
      BY <1>3
<1> HIDE DEF F, G
<1>5. \A i \in 0..k : G[i] = PushStep(len, cap, G, i)
    BY <1>4
<1>6. T = {}
  <2>1. SUFFICES ASSUME T # {} PROVE FALSE
      OBVIOUS
  <2>2. PICK m \in T : \A n \in T : m <= n
    <3>1. T \subseteq Nat
        OBVIOUS
    <3> HIDE DEF T
    <3> QED
        BY <2>1, <3>1, Least
  <2>3. m # 0
      BY <1>2, <1>5, <2>2 DEF PushStep
  <2>4. m \in Nat \ {0} /\ m - 1 \in 0..k /\ m - 1 \notin T
      BY <2>2, <2>3
  <2>5. G[m - 1] = After(len, m - 1, cap)
      BY <2>4
  <2>6. G[m] = PushOne(G[m - 1], cap)
      BY <1>5, <2>2, <2>3 DEF PushStep
  <2>7. G[m] = After(len, m, cap)
      BY <2>4, <2>5, <2>6, PushOneOK
  <2> QED
      BY <2>2, <2>7
<1> QED
    BY <1>1, <1>6

EventInv ==
    /\ evq \in 0..EvtCap /\ hbq \in 0..HbCap
    /\ overflow \in Nat /\ overflow = missed

(* Any number of OD and heartbeat events: both counts grow by what the two *)
(* queues together cannot keep.                                            *)
LEMMA PushOK ==
    ASSUME EventInv, NEW k \in Nat, NEW h \in Nat, PushEvents(k, h) PROVE EventInv'
<1> DEFINE e == After(evq, k, EvtCap)
           m == After(hbq, h, HbCap)
<1>1. /\ evq' = e.len /\ hbq' = m.len
      /\ overflow' = Counted(overflow, e.dropped + m.dropped)
      /\ missed' = Counted(missed, (evq + hbq + (k + h)) - (evq' + hbq'))
    BY PushedOK, CapsAssumption DEF EventInv, PushEvents, Produce
<1>2. /\ e.len \in 0..EvtCap /\ e.dropped \in Nat /\ e.len + e.dropped = evq + k
      /\ m.len \in 0..HbCap /\ m.dropped \in Nat /\ m.len + m.dropped = hbq + h
    BY CapsAssumption DEF EventInv, After
<1> HIDE DEF e, m
<1>3. (evq + hbq + (k + h)) - (e.len + m.len) = e.dropped + m.dropped
    BY <1>2, CapsAssumption DEF EventInv
<1>4. overflow' = missed'
    BY <1>1, <1>3 DEF EventInv
<1>5. overflow' \in Nat
    BY <1>1, <1>2, CountAssumption DEF EventInv, Counted
<1> QED
    BY <1>1, <1>2, <1>4, <1>5 DEF EventInv

(* handle_sdo_request counts exactly when push_event evicts, although it   *)
(* only compares the fullness before with what the request did.            *)
LEMMA PushDownloadOK ==
    ASSUME EventInv, NEW b \in BOOLEAN, PushDownloadEvent(b) PROVE EventInv'
<1> DEFINE k == IF b THEN 1 ELSE 0
           e == After(evq, k, EvtCap)
           d == IF evq = EvtCap /\ b THEN 1 ELSE 0
<1>0. k \in Nat
    OBVIOUS
<1>1. /\ evq' = e.len /\ hbq' = hbq
      /\ overflow' = Counted(overflow, d)
      /\ missed' = Counted(missed, (evq + hbq + k) - (evq' + hbq'))
    BY <1>0, PushedOK, CapsAssumption DEF EventInv, PushDownloadEvent, Produce
<1>2. e.len \in 0..EvtCap /\ d \in Nat /\ e.len + d = evq + k
    BY CapsAssumption DEF EventInv, After
<1> HIDE DEF e, d, k
<1>3. (evq + hbq + k) - (e.len + hbq) = d
    BY <1>0, <1>2, CapsAssumption DEF EventInv
<1>4. overflow' = missed'
    BY <1>1, <1>3 DEF EventInv
<1>5. overflow' \in Nat
    BY <1>1, <1>2, CountAssumption DEF EventInv, Counted
<1> QED
    BY <1>1, <1>2, <1>4, <1>5 DEF EventInv

(* Finitely many deadlines and monitors can expire at once.                *)
LEMMA RpdoCount ==
    /\ \A S \in SUBSET Rpdos : IsFiniteSet(S) /\ Cardinality(S) \in Nat
    /\ \A S \in SUBSET Monitored : Cardinality(S) \in Nat
BY FiniteAssumption, FS_Subset, FS_CardinalityType

(* RPDOs write finitely many mapped entries.                               *)
LEMMA MappedCount ==
    ASSUME NEW cfg \in RpdoConfigs, NEW S \in SUBSET Rpdos
    PROVE  Cardinality(MappedEvents(cfg, S)) \in Nat
<1> DEFINE Of(r) == {r} \X (1..cfg[r].entries)
           f == [r \in S |-> Of(r)]
           T == {Of(r) : r \in S}
<1>1. ASSUME NEW r \in S PROVE IsFiniteSet(Of(r))
  <2>1. cfg[r].entries \in Nat
      BY ConfigsAssumption DEF RpdoConfig
  <2>2. IsFiniteSet(1..cfg[r].entries)
      BY <2>1, FS_Interval
  <2>3. IsFiniteSet({r})
      BY FS_Singleton
  <2> QED
      BY <2>2, <2>3, FS_Product
<1>2. IsFiniteSet(T)
  <2>1. f \in Surjection(S, T)
    <3> HIDE DEF Of
    <3> QED
        BY DEF Surjection
  <2>2. IsFiniteSet(S)
      BY RpdoCount
  <2> HIDE DEF f, T
  <2> QED
      BY <2>1, <2>2, FS_Surjection
<1>3. \A t \in T : IsFiniteSet(t)
    BY <1>1
<1>4. MappedEvents(cfg, S) = UNION T
    BY DEF MappedEvents
<1> HIDE DEF T
<1>5. IsFiniteSet(UNION T)
    BY <1>2, <1>3, FS_UNION
<1> QED
    BY <1>4, <1>5, FS_CardinalityType

(* Every step that produces events accounts for the ones that are lost.    *)
LEMMA EventNext == ConfigInv /\ EventInv /\ [Next]_vars => EventInv'
<1> SUFFICES ASSUME ConfigInv, EventInv, [Next]_vars PROVE EventInv'
    OBVIOUS
<1>1. ASSUME UNCHANGED evtVars PROVE EventInv'
    BY <1>1 DEF EventInv, evtVars
<1>2. ASSUME NEW frames, HandleSync(frames) PROVE EventInv'
  <2>1. CASE NoPulse(frames)
      BY <1>1, <2>1 DEF NoPulse
  <2>2. ASSUME NEW refused, Pulse(refused, frames) PROVE EventInv'
    <3>1. Cardinality(MappedEvents(rcfg, RpdoPending(rpdo))) \in Nat
        BY MappedCount DEF ConfigInv, RpdoPending
    <3>2. PushEvents(Cardinality(MappedEvents(rcfg, RpdoPending(rpdo))), 0)
        BY <2>2 DEF Pulse
    <3> QED
        BY <3>1, <3>2, PushOK
  <2> QED
      BY <1>2, <2>1, <2>2 DEF HandleSync
<1>3. ASSUME NEW r \in Rpdos, NEW v \in Values, RxRpdo(r, v) PROVE EventInv'
  <2>1. Cardinality(MappedEvents(rcfg, {r})) \in Nat
      BY MappedCount DEF ConfigInv
  <2>2. UNCHANGED evtVars \/ PushEvents(Cardinality(MappedEvents(rcfg, {r})), 0)
      BY <1>3 DEF RxRpdo
  <2> QED
      BY <1>1, <2>1, <2>2, PushOK
<1>4. ASSUME NEW n \in Monitored, NEW st \in NmtStates, RxHeartbeat(n, st) PROVE EventInv'
  <2>1. Len(MonitorEvents(mon[n], st)) \in Nat
      BY MonitorEventsOK DEF ConfigInv
  <2>2. PushEvents(0, Len(MonitorEvents(mon[n], st)))
      BY <1>4 DEF RxHeartbeat
  <2> QED
      BY <2>1, <2>2, PushOK
<1>5. ASSUME NEW c \in Channels, NEW req \in Requests, RxSdo(c, req) PROVE EventInv'
    BY Zenon, <1>5, PushDownloadOK DEF RxSdo
<1>6. CASE Control
  <2>1. Cardinality(MissedDeadlines) \in Nat
    <3>1. MissedDeadlines \in SUBSET Rpdos
        BY DEF MissedDeadlines, NewlyExpired
    <3> QED
        BY <3>1, RpdoCount
  <2>2. Cardinality(Silenced) \in Nat
    <3>1. Silenced \in SUBSET Monitored
        BY DEF Silenced
    <3> QED
        BY <3>1, RpdoCount
  <2>3. PushEvents(Cardinality(MissedDeadlines), Cardinality(Silenced))
      BY <1>6 DEF Control
  <2> QED
      BY <2>1, <2>2, <2>3, PushOK
<1>7. CASE NextEvent
  <2>1. /\ UNCHANGED <<overflow, missed>>
        /\ \/ evq > 0 /\ evq' = evq - 1 /\ UNCHANGED hbq
           \/ hbq > 0 /\ hbq' = hbq - 1 /\ UNCHANGED evq
      BY <1>7 DEF NextEvent
  <2> QED
      BY <2>1, CapsAssumption DEF EventInv
<1>8. ASSUME Process, ~ RxSync, ~ SyncProduced, \A r \in Rpdos, v \in Values : ~ RxRpdo(r, v),
             \A n \in Monitored, st \in NmtStates : ~ RxHeartbeat(n, st),
             \A c \in Channels, req \in Requests : ~ RxSdo(c, req), ~ Control
      PROVE  UNCHANGED evtVars
    BY Zenon, <1>8 DEF Process, BootRefused, Boot, Poll, BeginPoll, RxNmt, Reset, RxLss, RxOther,
       RxSdoDropped, RxDone, SdoTrySend, SdoSegment, SdoDone, SyncSilent, SyncRefused, Retry, Transmit,
       Untouched
<1>9. ASSUME Environment, ~ NextEvent PROVE UNCHANGED evtVars
    BY Zenon, <1>9 DEF Environment, NotifyChanged, SetError, OdMut, OdMutConfig, RequestReset, Reset,
       TakeResetEvent, Arrive, Tick, Untouched
<1>10. CASE UNCHANGED vars
    BY <1>1, <1>10 DEF vars
<1> QED
    BY <1>1, <1>2, <1>3, <1>4, <1>5, <1>6, <1>7, <1>8, <1>9, <1>10 DEF Next, RxSync, SyncProduced

-----------------------------------------------------------------------------
(* The TPDO engine.                                                        *)

TpdoEngine == [counter : [Tpdos -> Nat], syncEvent : [Tpdos -> BOOLEAN],
               asyncEvent : [Tpdos -> BOOLEAN], age : [Tpdos -> Nat]]

(* n has the counters of e and every event of e.                           *)
Raises(e, n) ==
    /\ n.counter = e.counter
    /\ \A t \in Tpdos : /\ e.syncEvent[t] => n.syncEvent[t]
                        /\ e.asyncEvent[t] => n.asyncEvent[t]

(* Latching and the passing of time give up no event and count no pulse.   *)
LEMMA LatchOK ==
    ASSUME NEW e \in TpdoEngine, NEW cfg, NEW S
    PROVE  /\ LatchSlotEvents(e, cfg, S) \in TpdoEngine /\ Raises(e, LatchSlotEvents(e, cfg, S))
           /\ LatchSyncEvents(e, cfg, S) \in TpdoEngine /\ Raises(e, LatchSyncEvents(e, cfg, S))
           /\ LatchAsyncEvents(e, cfg, S) \in TpdoEngine /\ Raises(e, LatchAsyncEvents(e, cfg, S))
           /\ TpdoTick(e) \in TpdoEngine /\ Raises(e, TpdoTick(e))
<1>1. LatchSlotEvents(e, cfg, S) \in TpdoEngine /\ Raises(e, LatchSlotEvents(e, cfg, S))
    BY Zenon DEF LatchSlotEvents, Acyclic, EventDriven, TpdoEngine, Raises
<1>2. LatchSyncEvents(e, cfg, S) \in TpdoEngine /\ Raises(e, LatchSyncEvents(e, cfg, S))
    BY Zenon DEF LatchSyncEvents, Acyclic, TpdoEngine, Raises
<1>3. LatchAsyncEvents(e, cfg, S) \in TpdoEngine /\ Raises(e, LatchAsyncEvents(e, cfg, S))
    BY Zenon DEF LatchAsyncEvents, EventDriven, TpdoEngine, Raises
<1>4. TpdoTick(e) \in TpdoEngine /\ Raises(e, TpdoTick(e))
    BY DEF TpdoTick, Older, TpdoEngine, Raises
<1> QED
    BY <1>1, <1>2, <1>3, <1>4

(* Discarding the events leaves the counters alone.                        *)
LEMMA DiscardEventsOK ==
    ASSUME NEW e \in TpdoEngine
    PROVE  /\ DiscardEvents(e) \in TpdoEngine /\ DiscardEvents(e).counter = e.counter
           /\ ResetCommunicationState(e) \in TpdoEngine
BY Zenon DEF DiscardEvents, ResetCommunicationState, TpdoEngine

(* A pulse uses up the event of every acyclic slot.                        *)
LEMMA OnSyncOK ==
    ASSUME NEW e \in TpdoEngine, NEW cfg
    PROVE  /\ TpdoOnSync(e, cfg) \in TpdoEngine
           /\ TpdoOnSync(e, cfg).asyncEvent = e.asyncEvent
           /\ \A t \in Tpdos : e.syncEvent[t] /\ ~ TpdoOnSync(e, cfg).syncEvent[t] => Acyclic(cfg[t])
<1> DEFINE s == [t \in Tpdos |-> e.syncEvent[t] /\ ~ Acyclic(cfg[t])]
           c == [t \in Tpdos |-> IF ~ Cyclic(cfg[t]) THEN e.counter[t]
                                 ELSE IF Divided(e, cfg, t) THEN 0 ELSE e.counter[t] + 1]
<1>1. s \in [Tpdos -> BOOLEAN] /\ \A t \in Tpdos : e.syncEvent[t] /\ ~ s[t] => Acyclic(cfg[t])
    BY DEF Acyclic, TpdoEngine
<1>2. c \in [Tpdos -> Nat]
    BY DEF TpdoEngine
<1>3. TpdoOnSync(e, cfg) = [e EXCEPT !.syncEvent = s, !.counter = c]
    BY DEF TpdoOnSync
<1> HIDE DEF s, c
<1> QED
    BY Zenon, <1>1, <1>2, <1>3 DEF TpdoEngine

(* An accepted frame uses up the event of its slot.                        *)
LEMMA SentOK ==
    ASSUME NEW e \in TpdoEngine, NEW S
    PROVE  /\ TpdoSent(e, S) \in TpdoEngine
           /\ TpdoSent(e, S).counter = e.counter
           /\ TpdoSent(e, S).syncEvent = e.syncEvent
           /\ \A t \in Tpdos : e.asyncEvent[t] /\ ~ TpdoSent(e, S).asyncEvent[t] => t \in S
BY Zenon DEF TpdoSent, TpdoEngine

(* What a step may do to the engine.                                       *)
PulseSeen == nmt' = nmt /\ SawPulse /\ \E refused, frames : Pulse(refused, frames)

TpdoStep ==
    \/ Raises(tpdo, tpdo')
    \/ tpdo'.counter = tpdo.counter /\ nmt' # "Operational"
    \/ nmt' = "Initializing"
    \/ PulseSeen
    \/ Transmit /\ nmt = "Operational"

(* Every step of the node, the bus and the application is one of these.    *)
LEMMA TpdoNext ==
    tpdo \in TpdoEngine /\ [Next]_vars => tpdo' \in TpdoEngine /\ TpdoStep
<1> SUFFICES ASSUME tpdo \in TpdoEngine, [Next]_vars PROVE tpdo' \in TpdoEngine /\ TpdoStep
    OBVIOUS
<1>1. ASSUME UNCHANGED tpdo PROVE tpdo' \in TpdoEngine /\ TpdoStep
    BY <1>1 DEF TpdoStep, Raises
<1>2. ASSUME NEW S, \/ tpdo' = LatchSlotEvents(tpdo, tcfg, S)
                    \/ tpdo' = LatchSyncEvents(tpdo, tcfg, S)
                    \/ tpdo' = TpdoTick(tpdo)
      PROVE  tpdo' \in TpdoEngine /\ TpdoStep
    BY <1>2, LatchOK DEF TpdoStep
<1>3. ASSUME Reset PROVE tpdo' \in TpdoEngine /\ TpdoStep
    BY <1>3, DiscardEventsOK DEF Reset, ResetSyncState, TpdoStep
<1>4. ASSUME LeaveOperational, nmt' # "Operational" PROVE tpdo' \in TpdoEngine /\ TpdoStep
    BY <1>4, DiscardEventsOK DEF LeaveOperational, TpdoStep
<1>5. ASSUME NEW refused, NEW frames, Pulse(refused, frames), SawPulse, nmt' = nmt
      PROVE  tpdo' \in TpdoEngine /\ TpdoStep
  <2>1. tpdo' \in TpdoEngine
      BY Zenon, <1>5, OnSyncOK DEF Pulse
  <2>2. PulseSeen
      BY <1>5 DEF PulseSeen
  <2> QED
      BY <2>1, <2>2 DEF TpdoStep
<1>6. CASE Boot \/ Poll
    BY Zenon, <1>2, <1>6 DEF Boot, Poll, BeginPoll
<1>7. ASSUME NEW cmd, RxNmt(cmd) PROVE tpdo' \in TpdoEngine /\ TpdoStep
  <2>1. Reset \/ UNCHANGED tpdo \/ (LeaveOperational /\ nmt' # "Operational")
      BY <1>7 DEF RxNmt, Untouched, pdoVars
  <2> QED
      BY <2>1, <1>1, <1>3, <1>4
<1>8. CASE RxSync
  <2>1. SawPulse /\ nmt' = nmt
      BY <1>8 DEF RxSync, TakeFrame, SawPulse, lifeVars
  <2>2. CASE NoPulse({})
      BY <2>2, <1>1 DEF NoPulse, pdoVars
  <2>3. ASSUME NEW refused, Pulse(refused, {}) PROVE tpdo' \in TpdoEngine /\ TpdoStep
      BY <1>5, <2>1, <2>3
  <2> QED
      BY <1>8, <2>2, <2>3 DEF RxSync, HandleSync
<1>9. CASE SyncProduced
  <2> DEFINE f == Sent("sync", PulseCounter(prod, scfg), 0)
  <2>1. f.svc = "sync"
      BY DEF Sent
  <2> HIDE DEF f
  <2>2. nmt' = nmt /\ HandleSync({f})
      BY <1>9 DEF SyncProduced, lifeVars, f
  <2>3. CASE NoPulse({f})
      BY <2>3, <1>1 DEF NoPulse, pdoVars
  <2>4. ASSUME NEW refused, Pulse(refused, {f}) PROVE tpdo' \in TpdoEngine /\ TpdoStep
    <3>1. f \in out'
        BY <2>4 DEF Pulse
    <3>2. SawPulse
        BY <2>1, <3>1 DEF SawPulse
    <3> QED
        BY <1>5, <2>2, <2>4, <3>2
  <2> QED
      BY <2>2, <2>3, <2>4 DEF HandleSync
<1>10. CASE Control
    BY <1>1, <1>4, <1>10 DEF Control, Deadlines, lifeVars
<1>11. CASE Transmit
  <2>1. CASE nmt = "Operational"
    <3>1. PICK S : tpdo' = TpdoSent(LatchAsyncEvents(tpdo, tcfg, dirty), S)
        BY <1>11, <2>1 DEF Transmit
    <3> QED
        BY <1>11, <2>1, <3>1, LatchOK, SentOK DEF TpdoStep
  <2>2. CASE nmt # "Operational"
      BY <1>1, <1>11, <2>2 DEF Transmit
  <2> QED
      BY SMTT(30), <2>1, <2>2
<1>12. ASSUME NEW S, NotifyChanged(S) \/ SetError(S) PROVE tpdo' \in TpdoEngine /\ TpdoStep
    BY <1>2, <1>12 DEF NotifyChanged, SetError
<1>13. ASSUME NEW S, NEW r, NEW v, OdMut(S, r, v) PROVE tpdo' \in TpdoEngine /\ TpdoStep
    BY <1>2, <1>13 DEF OdMut
<1>14. CASE RequestReset
    BY <1>3, <1>14 DEF RequestReset
<1>15. CASE Tick
    BY <1>2, <1>15 DEF Tick
<1>16. ASSUME Process, ~ Boot, ~ Poll, \A cmd : ~ RxNmt(cmd), ~ RxSync, ~ SyncProduced, ~ Control, ~ Transmit
       PROVE  UNCHANGED tpdo
    BY Zenon, <1>16 DEF Process, BootRefused, RxLss, RxOther, RxRpdo, RxHeartbeat, RxSdo, RxSdoDropped, RxDone,
       SdoTrySend, SdoSegment, SdoDone, SyncSilent, SyncRefused, Retry, Untouched, pdoVars
<1>17. ASSUME Environment, \A S : ~ NotifyChanged(S) /\ ~ SetError(S), \A S, r, v : ~ OdMut(S, r, v),
              ~ RequestReset, ~ Tick
       PROVE  UNCHANGED tpdo
    BY <1>17 DEF Environment, OdMutConfig, TakeResetEvent, NextEvent, Arrive, Untouched, pdoVars
<1>18. CASE UNCHANGED vars
    BY <1>1, <1>18 DEF vars, pdoVars
<1> QED
    BY <1>1, <1>6, <1>7, <1>8, <1>9, <1>10, <1>11, <1>12, <1>13, <1>14, <1>15, <1>16, <1>17, <1>18 DEF Next

(* A pulse hands the frame of a used-up event over, keeps it for a retry,  *)
(* or cannot build it.                                                     *)
LEMMA PulseKeeps ==
    ASSUME tpdo \in TpdoEngine, NEW refused, NEW frames, Pulse(refused, frames), NEW t \in Tpdos
    PROVE  /\ tpdo.asyncEvent[t] => tpdo'.asyncEvent[t]
           /\ tpdo.syncEvent[t] /\ ~ tpdo'.syncEvent[t]
                => \/ \E f \in out' : f.svc = "spdo" /\ f.of = t
                   \/ t \in Unsent(pend')
                   \/ ~ tcfg[t].ok
<1>1. /\ tpdo' = TpdoOnSync(tpdo, tcfg)
      /\ pend' = [u \in Tpdos |-> IF u \in refused THEN {Sampled(rpdo, od)} ELSE {}]
      /\ out' = frames \cup {Sent("spdo", u, 0) : u \in TpdoFires(tpdo, tcfg) \ refused}
    BY DEF Pulse
<1>2. tpdo.asyncEvent[t] => tpdo'.asyncEvent[t]
    BY Zenon, <1>1, OnSyncOK
<1>3. ASSUME tpdo.syncEvent[t], ~ tpdo'.syncEvent[t], tcfg[t].ok
      PROVE  (\E f \in out' : f.svc = "spdo" /\ f.of = t) \/ t \in Unsent(pend')
  <2>1. Acyclic(tcfg[t])
      BY Zenon, <1>1, <1>3, OnSyncOK
  <2>2. t \in TpdoFires(tpdo, tcfg)
      BY Zenon, <1>3, <2>1 DEF TpdoFires
  <2>3. CASE t \in refused
      BY <1>1, <2>3 DEF Unsent
  <2>4. CASE t \notin refused
    <3>1. Sent("spdo", t, 0) \in out'
        BY <1>1, <2>2, <2>4
    <3>2. Sent("spdo", t, 0).svc = "spdo" /\ Sent("spdo", t, 0).of = t
        BY SMTT(30) DEF Sent
    <3> QED
        BY <3>1, <3>2
  <2> QED
      BY <2>3, <2>4
<1> QED
    BY Zenon, <1>2, <1>3

(* poll_with gives up the event of a slot only with its frame.             *)
LEMMA TransmitKeeps ==
    ASSUME tpdo \in TpdoEngine, Transmit, nmt = "Operational", NEW t \in Tpdos
    PROVE  /\ tpdo'.counter = tpdo.counter
           /\ tpdo.syncEvent[t] => tpdo'.syncEvent[t]
           /\ tpdo.asyncEvent[t] /\ ~ tpdo'.asyncEvent[t] => \E f \in out' : f.svc = "tpdo" /\ f.of = t
<1> DEFINE e == LatchAsyncEvents(tpdo, tcfg, dirty)
<1>1. PICK n \in 0..emcy, S \in SUBSET Tpdos :
          /\ tpdo' = TpdoSent(e, S)
          /\ out' = {Sent("emcy", 0, 0) : i \in 1..n} \cup {Sent("tpdo", u, 0) : u \in S}
    BY DEF Transmit
<1>2. e \in TpdoEngine /\ Raises(tpdo, e)
    BY LatchOK
<1> HIDE DEF e
<1>3. /\ tpdo'.counter = e.counter /\ tpdo'.syncEvent = e.syncEvent
      /\ e.asyncEvent[t] /\ ~ tpdo'.asyncEvent[t] => t \in S
    BY Zenon, <1>1, <1>2, SentOK
<1>4. ASSUME t \in S PROVE \E f \in out' : f.svc = "tpdo" /\ f.of = t
  <2>1. Sent("tpdo", t, 0) \in out'
      BY <1>1, <1>4
  <2>2. Sent("tpdo", t, 0).svc = "tpdo" /\ Sent("tpdo", t, 0).of = t
      BY DEF Sent
  <2> QED
      BY <2>1, <2>2
<1> QED
    BY <1>2, <1>3, <1>4 DEF Raises

-----------------------------------------------------------------------------
(* Theorems.                                                               *)

IInv == LifeInv /\ SdoInv /\ PdoInv /\ OutInv

(* The four layers together are an invariant of the node: its process()    *)
(* loop, the frames it is sent and the calls of its application keep them. *)
THEOREM NodeInvariant == Spec => []IInv
<1>1. Init => IInv
    BY LifeInit, SdoInit, PdoInit, OutInit DEF IInv
<1>2. IInv /\ [Next]_vars => IInv'
    BY LifeNext, SdoNext, PdoNext, OutNext DEF IInv
<1> QED
    BY <1>1, <1>2, PTL DEF Spec

(* Every frame a node hands to the transport is of a service available in  *)
(* its NMT state; SDO responses leave before their timeout, synchronous    *)
(* TPDOs inside the window: what process() promises on the bus.            *)
THEOREM NodeServices == Spec => []ServicesPermitted
<1>1. IInv => ServicesPermitted
    BY DEF IInv, OutInv
<1> QED
    BY <1>1, NodeInvariant, PTL

(* Leaving Operational leaves no PDO work behind, leaving Pre-Operational  *)
(* and Operational no SDO work, on however many channels and PDOs, and     *)
(* booted always agrees with the NMT state.                                *)
THEOREM NodeLeavesNothingBehind ==
    Spec => [](NoPdoWorkOutsideOperational /\ NoSdoWorkOutsideActive /\ BootedIffStarted)
<1>1. IInv => NoPdoWorkOutsideOperational /\ NoSdoWorkOutsideActive /\ BootedIffStarted
    BY DEF IInv, LifeInv, SdoInv, PdoInv, NoPdoWork, NoPdoWorkOutsideOperational
<1> QED
    BY <1>1, NodeInvariant, PTL

(* begin_poll never overwrites an owed response with a timeout abort.      *)
THEOREM NodeKeepsResponses == Spec => []TimeoutAbortReplacesNothing
<1>1. IInv => TimeoutAbortReplacesNothing
  <2> SUFFICES ASSUME IInv, NEW c \in Channels, TransferTimesOut(slot[c], xfer[c]), slot[c].has
               PROVE  FALSE
      BY DEF TimeoutAbortReplacesNothing
  <2>1. Open(xfer[c]) /\ xfer[c].age >= SdoTimeout /\ ~ (slot[c].age >= SdoTimeout)
      BY DEF TransferTimesOut, Stale
  <2>2. slot[c].age = xfer[c].age
      BY <2>1 DEF IInv, SdoInv, ChannelOK
  <2> QED
      BY <2>1, <2>2
<1> QED
    BY <1>1, NodeInvariant, PTL

(* A synchronous TPDO that a refusing transport made wait is the sample of *)
(* the last pulse: retry_pending_sync_tpdo never sends an older one.       *)
THEOREM NodeSamplesLastPulse == Spec => []SamplesOfLastPulse
<1>1. Init => SamplesOfLastPulse
    BY DEF Init, SamplesOfLastPulse, Unsent, NoPend
<1> QED
    BY <1>1, SamplesNext, PTL DEF Spec

(* event_overflow_count is the number of OD and heartbeat events that the  *)
(* application will never get, for any capacities, any mappings, any       *)
(* number of RPDOs in one pulse and any width of the counter: what the     *)
(* loops of push, pop and count, and the download's look at the queue      *)
(* before the request, add up to.                                          *)
THEOREM NodeCountsEvictions == Spec => []EvictionsCounted
<1>1. Init => EventInv
    BY CapsAssumption DEF Init, EventInv
<1>2. EventInv => EvictionsCounted
    BY DEF EventInv, EvictionsCounted
<1> QED
    BY <1>1, <1>2, ConfigInit, ConfigNext, EventNext, PTL DEF Spec

(* A new TPDO engine is well formed.                                       *)
LEMMA TpdoInit == Init => tpdo \in TpdoEngine
BY DEF Init, TpdoNew, TpdoEngine

(* on_sync is the only step that moves a TPDO cycle counter, and it runs   *)
(* for pulses the bus has seen; a reset starts the counters over.          *)
THEOREM NodeCountersFollowBus == Spec => CountersFollowBus
<1>1. ASSUME tpdo \in TpdoEngine, TpdoStep
      PROVE  tpdo'.counter # tpdo.counter => SawPulse \/ nmt' = "Initializing"
  <2>1. CASE Transmit /\ nmt = "Operational"
    <3> DEFINE e == LatchAsyncEvents(tpdo, tcfg, dirty)
    <3>1. PICK S : tpdo' = TpdoSent(e, S)
        BY <2>1 DEF Transmit
    <3>2. e \in TpdoEngine /\ Raises(tpdo, e)
        BY Zenon, <1>1, LatchOK
    <3> HIDE DEF e
    <3>3. e.counter = tpdo.counter
        BY <3>2 DEF Raises
    <3> QED
        BY <3>1, <3>2, <3>3, SentOK
  <2> QED
      BY SMTT(30), <1>1, <2>1 DEF TpdoStep, Raises, PulseSeen
<1>2. tpdo \in TpdoEngine /\ [Next]_vars
        => [tpdo'.counter # tpdo.counter => SawPulse \/ nmt' = "Initializing"]_vars
    BY <1>1, TpdoNext
<1>3. tpdo \in TpdoEngine /\ [Next]_vars => (tpdo \in TpdoEngine)'
    BY TpdoNext
<1> QED
    BY <1>2, <1>3, TpdoInit, PTL DEF Spec, CountersFollowBus

(* A trigger in a node that stays Operational is given up only with its    *)
(* frame: poll_with and on_sync lose none to a transport that refuses.     *)
THEOREM NodeKeepsTriggers == Spec => TriggersKept
<1> DEFINE Kept == nmt' = "Operational" =>
        \A t \in Tpdos :
            /\ tpdo.asyncEvent[t] /\ ~ tpdo'.asyncEvent[t]
                 => \E f \in out' : f.svc = "tpdo" /\ f.of = t
            /\ tpdo.syncEvent[t] /\ ~ tpdo'.syncEvent[t]
                 => \/ \E f \in out' : f.svc = "spdo" /\ f.of = t
                    \/ t \in Unsent(pend')
                    \/ ~ tcfg[t].ok
<1>1. ASSUME tpdo \in TpdoEngine, TpdoStep PROVE Kept
  <2> SUFFICES ASSUME nmt' = "Operational", NEW t \in Tpdos
               PROVE  /\ tpdo.asyncEvent[t] /\ ~ tpdo'.asyncEvent[t]
                           => \E f \in out' : f.svc = "tpdo" /\ f.of = t
                      /\ tpdo.syncEvent[t] /\ ~ tpdo'.syncEvent[t]
                           => \/ \E f \in out' : f.svc = "spdo" /\ f.of = t
                              \/ t \in Unsent(pend')
                              \/ ~ tcfg[t].ok
      BY ZenonT(40)
  <2>1. CASE Raises(tpdo, tpdo')
      BY Zenon, <2>1 DEF Raises
  <2>2. ASSUME NEW refused, NEW frames, Pulse(refused, frames)
        PROVE  /\ tpdo.asyncEvent[t] => tpdo'.asyncEvent[t]
               /\ tpdo.syncEvent[t] /\ ~ tpdo'.syncEvent[t]
                    => \/ \E f \in out' : f.svc = "spdo" /\ f.of = t
                       \/ t \in Unsent(pend')
                       \/ ~ tcfg[t].ok
      BY Zenon, <1>1, <2>2, PulseKeeps
  <2>3. CASE Transmit /\ nmt = "Operational"
      BY Zenon, <1>1, <2>3, TransmitKeeps
  <2> QED
      BY Zenon, <1>1, <2>1, <2>2, <2>3 DEF TpdoStep, PulseSeen
<1>2. tpdo \in TpdoEngine /\ [Next]_vars => [Kept]_vars
    BY Zenon, <1>1, TpdoNext
<1>3. tpdo \in TpdoEngine /\ [Next]_vars => (tpdo \in TpdoEngine)'
    BY TpdoNext
<1> QED
    BY <1>2, <1>3, TpdoInit, PTL DEF Spec, TriggersKept
=============================================================================
