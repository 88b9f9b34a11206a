------------------------------- MODULE PdoOps -------------------------------
(***************************************************************************)
(* The TPDO and RPDO engines (canopen-core/src/pdo/engine.rs) as operators *)
(* on records, one operator per method.  A node composes them.             *)
(*                                                                         *)
(* A TPDO configuration says whether the slot is enabled, its transmission *)
(* type (0 acyclic, 1..240 cyclic, 254/255 event driven) and whether its   *)
(* mapping can be built into a frame; an RPDO configuration, how many OD   *)
(* entries it maps and writes.  Times are in ticks of the caller's clock   *)
(* and kept as ages, elapsed ticks that stop at a cap, because the code    *)
(* only ever looks at now - stamp.                                         *)
(***************************************************************************)
EXTENDS Integers, FiniteSets

CONSTANTS Tpdos,       \* TPDO slots
          Rpdos,       \* RPDO slots
          Inhibit,     \* [Tpdos -> Nat]: inhibit time
          EventTimer,  \* [Tpdos -> Nat]: event timer, 0 for none
          Deadline     \* [Rpdos -> Nat]: reception deadline, 0 for none

ASSUME InhibitAssumption == Inhibit \in [Tpdos -> Nat]
ASSUME EventTimerAssumption == EventTimer \in [Tpdos -> Nat]
ASSUME DeadlineAssumption == Deadline \in [Rpdos -> Nat]

NoData == "none"    \* an empty Option<CanFrame>

TpdoConfig == [enabled : BOOLEAN, tt : 0..255, ok : BOOLEAN]
RpdoConfig == [enabled : BOOLEAN, tt : 0..255, entries : Nat]

(* An age that stops counting at cap.                                      *)
Older(age, cap) == IF age < cap THEN age + 1 ELSE age

EventDriven(c) == c.enabled /\ c.tt \in {254, 255}
Acyclic(c) == c.enabled /\ c.tt = 0
Cyclic(c) == c.enabled /\ c.tt \in 1..240

-----------------------------------------------------------------------------
(* TpdoEngine: sync_counter, sync_event_pending, async_event_pending and   *)
(* the ages since last_send_us.                                            *)

TpdoNew == [counter |-> [t \in Tpdos |-> 0],
            syncEvent |-> [t \in Tpdos |-> FALSE],
            asyncEvent |-> [t \in Tpdos |-> FALSE],
            age |-> [t \in Tpdos |-> 0]]

(* The largest age poll_with distinguishes.                                *)
TpdoAgeCap(t) == IF Inhibit[t] > EventTimer[t] THEN Inhibit[t] ELSE EventTimer[t]

TpdoTick(e) == [e EXCEPT !.age = [t \in Tpdos |-> Older(e.age[t], TpdoAgeCap(t))]]

(* latch_slot_event for every slot of S; notify_changed when S is the set  *)
(* of slots that map the changed entry.                                    *)
LatchSlotEvents(e, cfg, S) ==
    [e EXCEPT !.syncEvent = [t \in Tpdos |-> @[t] \/ (t \in S /\ Acyclic(cfg[t]))],
              !.asyncEvent = [t \in Tpdos |-> @[t] \/ (t \in S /\ EventDriven(cfg[t]))]]

(* latch_sync_events: dirty is the set of slots that map a dirty entry.    *)
LatchSyncEvents(e, cfg, dirty) ==
    [e EXCEPT !.syncEvent = [t \in Tpdos |-> @[t] \/ (t \in dirty /\ Acyclic(cfg[t]))]]

(* discard_sync_events and discard_async_events.                           *)
DiscardEvents(e) ==
    [e EXCEPT !.syncEvent = [t \in Tpdos |-> FALSE],
              !.asyncEvent = [t \in Tpdos |-> FALSE]]

ResetCommunicationState(e) ==
    [DiscardEvents(e) EXCEPT !.counter = [t \in Tpdos |-> 0]]

(* on_sync: the slots that fire on this pulse, and the engine after it.  A *)
(* slot whose frame cannot be built fires nothing but is used up as well.  *)
Divided(e, cfg, t) == Cyclic(cfg[t]) /\ e.counter[t] + 1 >= cfg[t].tt

TpdoFires(e, cfg) ==
    {t \in Tpdos : /\ cfg[t].ok
                   /\ (Acyclic(cfg[t]) /\ e.syncEvent[t]) \/ Divided(e, cfg, t)}

TpdoOnSync(e, cfg) ==
    [e EXCEPT !.syncEvent = [t \in Tpdos |-> @[t] /\ ~ Acyclic(cfg[t])],
              !.counter = [t \in Tpdos |->
                  IF ~ Cyclic(cfg[t]) THEN @[t]
                  ELSE IF Divided(e, cfg, t) THEN 0 ELSE @[t] + 1]]

(* poll_with.  Events of the dirty set are latched first; a slot is due    *)
(* when an event or the event timer asks for it and inhibit time allows.   *)
LatchAsyncEvents(e, cfg, dirty) ==
    [e EXCEPT !.asyncEvent = [t \in Tpdos |-> @[t] \/ (t \in dirty /\ EventDriven(cfg[t]))]]

TpdoDue(e, cfg) ==
    {t \in Tpdos : /\ EventDriven(cfg[t]) /\ cfg[t].ok
                   /\ e.asyncEvent[t] \/ (EventTimer[t] > 0 /\ e.age[t] >= EventTimer[t])
                   /\ e.age[t] >= Inhibit[t]}

(* Mutated form of TpdoSent: a refused frame uses up its event.            *)
TpdoSentForgetsRefused(e, S) ==
    [e EXCEPT !.age = [t \in Tpdos |-> IF t \in S THEN 0 ELSE @[t]],
              !.asyncEvent = [t \in Tpdos |-> FALSE]]

(* The transport accepted the frames of the slots in S.                    *)
TpdoSent(e, S) ==
    [e EXCEPT !.age = [t \in Tpdos |-> IF t \in S THEN 0 ELSE @[t]],
              !.asyncEvent = [t \in Tpdos |-> @[t] /\ t \notin S]]

-----------------------------------------------------------------------------
(* RpdoEngine: pending frames of synchronous slots and, for deadline       *)
(* monitoring, armed, expired and the age since last_rx_us.                *)

RpdoNew == [pending |-> [r \in Rpdos |-> NoData],
            armed |-> [r \in Rpdos |-> FALSE],
            expired |-> [r \in Rpdos |-> FALSE],
            age |-> [r \in Rpdos |-> 0]]

RpdoTick(e) ==
    [e EXCEPT !.age = [r \in Rpdos |->
        IF e.armed[r] /\ Deadline[r] > 0 THEN Older(@[r], Deadline[r] + 1) ELSE 0]]

(* process_with_drop_count for a frame with data v long enough for the     *)
(* mapping of the enabled slot r.  A synchronous slot keeps the latest     *)
(* frame until SYNC; for the others Applies says the data goes to the OD.  *)
Synchronous(c) == c.tt <= 240

RpdoReceive(e, cfg, r, v) ==
    [e EXCEPT !.age[r] = 0,
              !.armed[r] = TRUE,
              !.expired[r] = FALSE,
              !.pending[r] = IF Synchronous(cfg[r]) THEN v ELSE @]

(* on_sync: every pending frame is taken and written to the OD.            *)
RpdoPending(e) == {r \in Rpdos : e.pending[r] # NoData}
RpdoCommit(e, od) == [r \in Rpdos |-> IF r \in RpdoPending(e) THEN e.pending[r] ELSE od[r]]
DiscardPending(e) == [e EXCEPT !.pending = [r \in Rpdos |-> NoData]]

(* apply_mapped for the slots of S: one OD event for each entry written.   *)
MappedEvents(cfg, S) == UNION {{r} \X (1..cfg[r].entries) : r \in S}

(* check_deadlines: the slots that expire now, and the engine after it.    *)
NewlyExpired(e, cfg) ==
    {r \in Rpdos : /\ cfg[r].enabled /\ Deadline[r] > 0
                   /\ e.armed[r] /\ ~ e.expired[r]
                   /\ e.age[r] > Deadline[r]}

CheckDeadlines(e, cfg) ==
    [e EXCEPT !.expired = [r \in Rpdos |-> @[r] \/ r \in NewlyExpired(e, cfg)]]

ResetDeadlineMonitoring(e) ==
    [e EXCEPT !.armed = [r \in Rpdos |-> FALSE],
              !.expired = [r \in Rpdos |-> FALSE],
              !.age = [r \in Rpdos |-> 0]]
=============================================================================
