------------------------------- MODULE SyncOps ------------------------------
(***************************************************************************)
(* SYNC production and the synchronous window (canopen-core/src/sync.rs)   *)
(* as operators on records, one operator per method.  Times are ages.      *)
(*                                                                         *)
(* A SYNC configuration is what OD 0x1005, 0x1006, 0x1007 and 0x1019 say:  *)
(* period is 0 when the node produces no SYNC, overflow is 0 when the      *)
(* pulse carries no counter, window is 0 when there is no limit.           *)
(***************************************************************************)
EXTENDS Integers

CONSTANT SyncConfigs    \* the SYNC configurations a client may write

ASSUME SyncConfigsAssumption ==
    \A c \in SyncConfigs : /\ c.period \in Nat
                           /\ c.window \in Nat
                           /\ c.overflow \in {0} \cup 2..240

MaxOf(S) == CHOOSE m \in S : \A n \in S : n <= m
PeriodCap == MaxOf({c.period : c \in SyncConfigs})
WindowCap == MaxOf({c.window : c \in SyncConfigs}) + 1

(* SyncProducer.                                                           *)
ProducerNew == [armed |-> FALSE, age |-> 0, counter |-> 0]
ProducerReset == ProducerNew

(* configure: nothing happens when the values did not change.              *)
ProducerConfigure(p, old, new) ==
    IF old.period = new.period /\ old.overflow = new.overflow
      THEN p
      ELSE [p EXCEPT !.armed = FALSE, !.counter = 0]

(* poll: the first call arms the producer, a pulse is due a period after   *)
(* the last one.                                                           *)
ProducerArms(p, c) == c.period > 0 /\ ~ p.armed
ProducerArm(p) == [p EXCEPT !.armed = TRUE, !.age = 0]
PulseDue(p, c) == c.period > 0 /\ p.armed /\ p.age >= c.period

PeekCounter(p, c) == IF p.counter >= c.overflow THEN 1 ELSE p.counter + 1
PulseCounter(p, c) == IF c.overflow >= 2 THEN PeekCounter(p, c) ELSE 0

(* confirm_sent.                                                           *)
ProducerConfirm(p, c) ==
    [p EXCEPT !.age = 0,
              !.counter = IF c.overflow >= 2 THEN PeekCounter(p, c) ELSE @]

(* SyncWindow.                                                             *)
WindowNew == [active |-> FALSE, age |-> 0]
WindowReset == WindowNew
WindowOpen == [active |-> TRUE, age |-> 0]
AllowsTransmit(w, c) == w.active /\ (c.window = 0 \/ w.age <= c.window)
=============================================================================
