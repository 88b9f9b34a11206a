---------------------------- MODULE HeartbeatOps ----------------------------
(***************************************************************************)
(* Heartbeat production and consumption (canopen-core/src/heartbeat.rs) as *)
(* operators on records.  Times are ages.                                  *)
(***************************************************************************)
EXTENDS Integers, Sequences

CONSTANTS HbIntervals,  \* producer intervals OD 0x1017 may hold, 0 to disable
          HbTimeout     \* consumer time of every monitored node

ASSUME HbIntervalsAssumption == HbIntervals \subseteq Nat
ASSUME HbTimeoutAssumption == HbTimeout \in Nat \ {0}

NmtStates == {"Initializing", "PreOperational", "Operational", "Stopped"}

(* HeartbeatProducer::pending, on the age since last_sent_us.              *)
HeartbeatDue(interval, age) == interval > 0 /\ age >= interval

(* The largest age it distinguishes.                                       *)
HbAgeCap == CHOOSE m \in HbIntervals : \A i \in HbIntervals : i <= m

(* HeartbeatMonitor: the level state, the remote NMT state it last heard   *)
(* (none while Waiting) and the age since last_seen_us.  Off stands for an *)
(* entry of OD 0x1016 that configures no monitor.                          *)
MonitorNew == [level |-> "Waiting", nmt |-> "none", age |-> 0]
MonitorOff == [level |-> "Off", nmt |-> "none", age |-> 0]

(* sync_heartbeat_from_od(false): configured monitors start over.          *)
MonitorRestart(m) == IF m.level = "Off" THEN m ELSE MonitorNew

MonitorTick(m) ==
    IF m.level = "Alive" /\ m.age <= HbTimeout THEN [m EXCEPT !.age = @ + 1] ELSE m

(* process: the events a heartbeat with a known state byte produces.  An   *)
(* unknown state byte changes nothing.                                     *)
MonitorEvents(m, st) ==
    LET reset == IF st = "Initializing" /\ m.nmt # "Initializing"
                   THEN <<"RemoteReset">> ELSE <<>>
    IN  CASE m.level = "Waiting" -> <<"Started">>
          [] m.level = "Alive"   -> IF st # m.nmt THEN <<"StateChanged">> \o reset ELSE <<>>
          [] m.level = "Timeout" -> <<"Recovered">> \o reset
          [] m.level = "Off"     -> <<>>

MonitorHeard(st) == [level |-> "Alive", nmt |-> st, age |-> 0]

(* check_timeout.                                                          *)
MonitorExpires(m) == m.level = "Alive" /\ m.age > HbTimeout
MonitorExpired(m) == [m EXCEPT !.level = "Timeout", !.age = 0]
=============================================================================
