------------------------------ MODULE MCNode --------------------------------
(***************************************************************************)
(* Values for the constants of Node.  Each configuration turns one group   *)
(* of services on, with the frames and application calls that drive it.    *)
(***************************************************************************)
EXTENDS Node

TCfg(tt) == [enabled |-> TRUE, tt |-> tt, ok |-> TRUE]
Unbuildable == [enabled |-> TRUE, tt |-> 254, ok |-> FALSE]
RCfg(tt) == [enabled |-> TRUE, tt |-> tt, entries |-> 2]
NoTpdo == [enabled |-> FALSE, tt |-> 254, ok |-> TRUE]
NoRpdo == [enabled |-> FALSE, tt |-> 254, entries |-> 2]

NoTimes == [t \in Tpdos |-> 0]
NoDeadlines == [r \in Rpdos |-> 0]
NoConfigs == {<<>>}
NoSync == {[period |-> 0, window |-> 0, overflow |-> 0]}

Nmt(cmds) == {<<"nmt", cmd>> : cmd \in cmds}
Sdo(c, reqs) == {<<"sdo", c, req>> : req \in reqs}

(* What fills the queues of a node: two SDO channels, one of them with     *)
(* block transfers, or everything that produces an event.                  *)
SdoFrames ==
    Nmt({"Start", "Stop", "PreOp", "ResetComm", "ResetNode"})
      \cup Sdo(1, Requests \ {"download_pdo", "block_download_pdo"})
      \cup Sdo(2, {"abort", "upload", "upload_segment"})
ProducingFrames ==
    Nmt({"Start", "PreOp"}) \cup {<<"sync">>} \cup {<<"rpdo", r, v>> : r \in Rpdos, v \in Values}
      \cup {<<"hb", n, st>> : n \in Monitored, st \in {"Initializing", "Operational"}}
      \cup {<<"lss">>, <<"other">>}
QueueFrames == SdoFrames \cup ProducingFrames
QueueRpdos == {[r \in Rpdos |-> RCfg(tt)] : tt \in {1, 255}}

(* SYNC, consumed and produced: an acyclic or a cyclic TPDO, a synchronous *)
(* RPDO, a window, and a client that switches production on and off.       *)
SyncedTpdos == {[t \in Tpdos |-> c] : c \in {TCfg(0), TCfg(2)}}
SyncedRpdos == {[r \in Rpdos |-> RCfg(1)]}
SyncedWays == {[period |-> 0, window |-> 1, overflow |-> 0],
               [period |-> 1, window |-> 1, overflow |-> 2]}
SyncFrames ==
    Nmt({"Start", "Stop", "ResetComm"})
      \cup {<<"sync">>} \cup {<<"rpdo", r, "b">> : r \in Rpdos}
      \cup Sdo(1, {"download"})

(* Events: event-driven TPDOs with inhibit time and event timer, an        *)
(* asynchronous RPDO with a deadline, and clients that reconfigure them.   *)
Inhibit1 == [t \in Tpdos |-> 1]
Timer2 == [t \in Tpdos |-> IF t = 1 THEN 2 ELSE 0]
Deadline1 == [r \in Rpdos |-> 1]
EventTpdos == {[t \in Tpdos |-> TCfg(254)],
               [t \in Tpdos |-> IF t = 1 THEN Unbuildable ELSE NoTpdo]}
EventRpdos == {[r \in Rpdos |-> RCfg(255)], [r \in Rpdos |-> NoRpdo]}
EventFrames ==
    Nmt({"Start", "PreOp", "ResetNode"})
      \cup {<<"rpdo", r, v>> : r \in Rpdos, v \in Values}
      \cup Sdo(1, {"download_pdo", "download"})

(* Boots and resets, error control with a producer interval that clients   *)
(* and the application change, EMCY, one SDO channel, frames of other      *)
(* services, and an application that takes events and resets.              *)
LifeFrames ==
    Nmt({"Stop", "ResetComm"}) \cup Sdo(1, {"block_upload", "start", "download"})
      \cup {<<"lss">>, <<"other">>}

(* A client that changes a PDO parameter in more than one frame.           *)
LockTpdos == {[t \in Tpdos |-> TCfg(254)], [t \in Tpdos |-> TCfg(255)]}
LockFrames == Nmt({"Start"}) \cup Sdo(1, {"download_pdo", "download_segment"})
=============================================================================
