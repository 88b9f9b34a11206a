-------------------------------- MODULE Node --------------------------------
(***************************************************************************)
(* A CANopen node (canopen-core/src/node.rs): the process() loop and the   *)
(* calls an application makes between two of them.                         *)
(*                                                                         *)
(* process() holds the node exclusively, so an application call never      *)
(* falls inside it; it is split into one action per stage (pc) because the *)
(* transport may accept or refuse every single frame and because frames    *)
(* keep arriving while the stages run.  pc = "idle" is the time between    *)
(* two calls.  The clock is read once per call, so ages only grow at       *)
(* "idle".                                                                 *)
(*                                                                         *)
(* out holds, for each frame the transport accepted in the last step, the  *)
(* facts the properties are about; missed and lastPulse are history        *)
(* variables.                                                              *)
(***************************************************************************)
EXTENDS PdoOps, SyncOps, HeartbeatOps, SdoChannelOps

CONSTANTS Channels,      \* SDO servers: 1 is the default one
          Monitored,     \* remote nodes in OD 0x1016
          Values,        \* process data
          TpdoConfigs,   \* [Tpdos -> TpdoConfig] values a client may write
          RpdoConfigs,   \* [Rpdos -> RpdoConfig] values a client may write
          AutoStart,     \* NodeConfig::auto_start
          EvtCap,        \* capacity of event_queue
          HbCap,         \* capacity of hb_event_queue
          EmcyCap,       \* capacity of the EMCY queue
          CountMax,      \* where event_overflow_count saturates, u32::MAX
          Frames,        \* the frames the bus may deliver
          RxCap,         \* bound on the transport's receive queue
          ArriveAt,      \* stages in which frames may arrive
          AppCalls       \* the application calls in use

ASSUME ChannelsAssumption == Channels = 1..Cardinality(Channels) /\ 1 \in Channels
ASSUME CapsAssumption == EvtCap \in Nat \ {0} /\ HbCap \in Nat \ {0} /\ EmcyCap \in Nat
ASSUME CountAssumption == CountMax \in Nat
ASSUME ConfigsAssumption ==
    /\ TpdoConfigs \subseteq [Tpdos -> TpdoConfig]
    /\ RpdoConfigs \subseteq [Rpdos -> RpdoConfig]
ASSUME FiniteAssumption == IsFiniteSet(Rpdos) /\ IsFiniteSet(Monitored)
ASSUME ValuesAssumption == NoData \notin Values
ASSUME AutoStartAssumption == AutoStart \in BOOLEAN

VARIABLES
    pc,         \* stage of process()
    ch,         \* the SDO channel served in stage "sdo"
    rxq,        \* frames received by the transport, not yet dispatched
    nmt,        \* NmtHandler::state
    booted,
    resetEvent, \* reset_event is Some
    slot,       \* [Channels -> Pending]
    xfer,       \* [Channels -> Transfer]
    tcfg, rcfg, \* PDO configuration in the engines
    odcfg,      \* the OD: PDO parameters t and r, and hb, the value of 0x1017
    tpdo, rpdo, \* the PDO engines
    dirty,      \* slots that map an entry of dirty_set
    od,         \* [Rpdos -> value]: the OD entries the RPDOs write
    scfg,       \* SYNC configuration in force
    prod,       \* SyncProducer
    win,        \* SyncWindow
    pend,       \* pending_sync_tpdo: per slot the OD its frame sampled, or {}
    tried,      \* sync_tpdo_last_attempt_us = Some(now)
    hbInterval, \* interval_us of the heartbeat producer
    hbAge,      \* age since its last_sent_us
    mon,        \* [Monitored -> monitor]
    emcy,       \* EMCY frames queued
    evq, hbq,   \* lengths of event_queue and hb_event_queue
    overflow,   \* event_overflow_count
    missed,     \* history: events produced that the application will not get
    lastPulse,  \* history: the OD as the last pulse left it
    out         \* frames the transport accepted in the last step

sdoVars == <<slot, xfer>>
cfgVars == <<tcfg, rcfg, odcfg, scfg, hbInterval>>
syncVars == <<win, pend, tried, lastPulse>>
pdoVars == <<tpdo, rpdo, dirty, od, syncVars>>
evtVars == <<evq, hbq, overflow, missed>>
lifeVars == <<nmt, booted, resetEvent>>
errVars == <<hbAge, mon, emcy>>
vars == <<pc, ch, rxq, lifeVars, sdoVars, cfgVars, pdoVars, prod, errVars, evtVars, out>>

Stages == {"idle", "rx", "sdo", "sync", "retry", "control", "tx"}

Active == {"PreOperational", "Operational"}

NoPend == [t \in Tpdos |-> {}]
OdConfigs == [t : TpdoConfigs, r : RpdoConfigs, hb : HbIntervals]
Unsent(p) == {t \in Tpdos : p[t] # {}}
Sent(svc, of, age) == [svc |-> svc, of |-> of, nmt |-> nmt, age |-> age]

Init ==
    /\ pc = "idle" /\ ch = 1 /\ rxq = <<>>
    /\ nmt = "Initializing" /\ booted = FALSE /\ resetEvent = FALSE
    /\ slot = [c \in Channels |-> NothingPending]
    /\ xfer = [c \in Channels |-> NoTransfer]
    /\ tcfg \in TpdoConfigs /\ rcfg \in RpdoConfigs
    /\ hbInterval \in HbIntervals
    /\ odcfg = [t |-> tcfg, r |-> rcfg, hb |-> hbInterval]
    /\ scfg \in SyncConfigs
    /\ tpdo = TpdoNew /\ rpdo = RpdoNew /\ dirty = {}
    /\ od \in [Rpdos -> Values]
    /\ lastPulse = od
    /\ prod = ProducerNew /\ win = WindowNew
    /\ pend = NoPend /\ tried = FALSE
    /\ hbAge = 0 /\ mon = [n \in Monitored |-> MonitorNew]
    /\ emcy = 0 /\ evq = 0 /\ hbq = 0 /\ overflow = 0 /\ missed = 0 /\ out = {}

-----------------------------------------------------------------------------
(* Event queues of bounded length that evict their oldest entry.           *)

(* A loop that pushes k events into a queue with len entries, pops the     *)
(* oldest one whenever the queue is full and counts that as dropped.       *)
PushOne(q, cap) ==
    IF q.len = cap THEN [q EXCEPT !.dropped = @ + 1] ELSE [q EXCEPT !.len = @ + 1]

Pushed(len, k, cap) ==
    LET after[i \in 0..k] ==
            IF i = 0 THEN [len |-> len, dropped |-> 0] ELSE PushOne(after[i - 1], cap)
    IN  after[k]

(* saturating_add on the counter.                                          *)
Counted(count, n) == IF count + n > CountMax THEN CountMax ELSE count + n

(* History: what was produced, less what the step leaves in the queues.    *)
Produce(k) == missed' = Counted(missed, (evq + hbq + k) - (evq' + hbq'))

(* k OD events of RPDO data or deadlines and h heartbeat events: each of   *)
(* those loops reports what it dropped to event_overflow_count.            *)
PushEvents(k, h) ==
    LET e == Pushed(evq, k, EvtCap)
        m == Pushed(hbq, h, HbCap)
    IN  /\ evq' = e.len /\ hbq' = m.len
        /\ overflow' = Counted(overflow, e.dropped + m.dropped)
        /\ Produce(k + h)

(* Mutated form of PushDownloadEvent: was_full is read after the request   *)
(* was served.                                                             *)
PushDownloadEventLate(committed) ==
    LET k == IF committed THEN 1 ELSE 0
    IN  /\ evq' = Pushed(evq, k, EvtCap).len /\ UNCHANGED hbq
        /\ overflow' = Counted(overflow, IF evq' = EvtCap /\ committed THEN 1 ELSE 0)
        /\ Produce(k)

(* The OD event of a download: push_event evicts without counting, and     *)
(* handle_sdo_request counts one if the queue was full before the request  *)
(* and the request committed.                                              *)
PushDownloadEvent(committed) ==
    LET k == IF committed THEN 1 ELSE 0
        wasFull == evq = EvtCap
    IN  /\ evq' = Pushed(evq, k, EvtCap).len /\ UNCHANGED hbq
        /\ overflow' = Counted(overflow, IF wasFull /\ committed THEN 1 ELSE 0)
        /\ Produce(k)

-----------------------------------------------------------------------------
(* Mutated form of LeaveOperational: buffered RPDOs survive.               *)
LeaveKeepsRpdo ==
    /\ rpdo' = ResetDeadlineMonitoring(rpdo)
    /\ tpdo' = DiscardEvents(tpdo)
    /\ dirty' = {}
    /\ win' = WindowReset
    /\ pend' = NoPend
    /\ tried' = FALSE

(* leave_operational: PDO work does not outlive Operational.               *)
LeaveOperational ==
    /\ rpdo' = DiscardPending(ResetDeadlineMonitoring(rpdo))
    /\ tpdo' = DiscardEvents(tpdo)
    /\ dirty' = {}
    /\ win' = WindowReset
    /\ pend' = NoPend
    /\ tried' = FALSE

AbortAllSdoTransfers ==
    /\ slot' = [c \in Channels |-> NothingPending]
    /\ xfer' = [c \in Channels |-> NoTransfer]

(* reset_sync_state; the SYNC objects of the OD are in force already.      *)
ResetSyncState ==
    /\ prod' = ProducerReset
    /\ win' = WindowReset
    /\ pend' = NoPend
    /\ tried' = FALSE
    /\ rpdo' = ResetDeadlineMonitoring(DiscardPending(rpdo))
    /\ dirty' = {}
    /\ tpdo' = ResetCommunicationState(tpdo)

(* What an NMT reset and request_reset have in common.                     *)
Reset ==
    /\ nmt' = "Initializing" /\ booted' = FALSE /\ resetEvent' = TRUE
    /\ AbortAllSdoTransfers
    /\ tcfg' = odcfg.t /\ rcfg' = odcfg.r /\ hbInterval' = odcfg.hb
    /\ mon' = [n \in Monitored |-> MonitorRestart(mon[n])]
    /\ ResetSyncState
    /\ UNCHANGED <<odcfg, scfg, od, lastPulse, hbAge, emcy, evtVars>>

-----------------------------------------------------------------------------
(* The start of process().  A transport that would block postpones the     *)
(* whole boot; any other error loses the boot-up frame and goes on.        *)

(* Mutated form of BootPending: waits for the application first.           *)
BootPendingOnce == ~ booted /\ ~ resetEvent
BootPending == ~ booted

BootRefused ==
    /\ pc = "idle" /\ BootPending
    /\ hbAge' = 0
    /\ out' = {}
    /\ UNCHANGED <<pc, ch, rxq, lifeVars, sdoVars, cfgVars, pdoVars, prod, mon, emcy, evtVars>>

(* Latch acyclic events, then expire SDO work of every channel.            *)
BeginPoll ==
    /\ tpdo' = LatchSyncEvents(tpdo, tcfg, dirty)
    /\ slot' = [c \in Channels |-> BeginPollSlot(slot[c], xfer[c])]
    /\ xfer' = [c \in Channels |-> BeginPollTransfer(slot[c], xfer[c])]
    /\ pc' = "rx"
    /\ UNCHANGED <<ch, rxq, resetEvent, cfgVars, rpdo, dirty, od, syncVars, prod,
                   mon, emcy, evtVars>>

(* boot_complete, and auto_start's own NMT command.                        *)
BootState == IF AutoStart THEN "Operational" ELSE "PreOperational"

Boot ==
    /\ pc = "idle" /\ BootPending
    /\ booted' = TRUE
    /\ nmt' = BootState
    /\ hbAge' = 0
    /\ out' \in {{Sent("boot", 0, 0)}, {}}
    /\ BeginPoll

Poll ==
    /\ pc = "idle" /\ booted
    /\ out' = {}
    /\ BeginPoll
    /\ UNCHANGED <<nmt, booted, hbAge>>

-----------------------------------------------------------------------------
(* Stage "rx": dispatch_frame on one frame after the other.                *)

TakeFrame(f) ==
    /\ pc = "rx" /\ rxq # <<>> /\ Head(rxq) = f
    /\ rxq' = Tail(rxq)
    /\ UNCHANGED <<pc, ch>>

NmtTarget(cmd) ==
    CASE cmd = "Start" -> "Operational"
      [] cmd = "Stop" -> "Stopped"
      [] cmd = "PreOp" -> "PreOperational"
      [] OTHER -> "Initializing"

Untouched == UNCHANGED <<lifeVars, sdoVars, cfgVars, pdoVars, prod, errVars, evtVars>>

RxNmt(cmd) ==
    LET new == NmtTarget(cmd)
    IN  /\ TakeFrame(<<"nmt", cmd>>)
        /\ out' = {}
        /\ \/ /\ nmt = "Initializing" /\ cmd = "ResetNode"
              /\ Reset
           \/ /\ nmt = "Initializing" /\ cmd # "ResetNode"
              /\ Untouched
           \/ /\ nmt # "Initializing" /\ new = nmt
              /\ Untouched
           \/ /\ nmt # "Initializing" /\ new = "Initializing"
              /\ Reset
           \/ /\ nmt # "Initializing" /\ new = "Operational" /\ nmt # new
              /\ nmt' = new
              /\ UNCHANGED <<booted, resetEvent, sdoVars, cfgVars, pdoVars, prod, errVars, evtVars>>
           \/ /\ nmt # "Initializing" /\ new \in {"PreOperational", "Stopped"} /\ nmt # new
              /\ nmt' = new
              /\ LeaveOperational
              /\ IF new = "Stopped" THEN AbortAllSdoTransfers ELSE UNCHANGED sdoVars
              /\ UNCHANGED <<booted, resetEvent, cfgVars, od, lastPulse, prod, errVars, evtVars>>

(* Mutated form of Sampled: TPDOs sample before the RPDOs are committed.   *)
SampledBeforeCommit(e, o) == o

(* The OD the TPDOs of a pulse sample: RPDOs are committed before.         *)
Sampled(e, o) == RpdoCommit(e, o)

(* handle_sync in Operational: a new pulse supersedes what the last one    *)
(* left; pending RPDOs reach the OD before the TPDOs sample it; refused    *)
(* is the set of frames the transport did not take.                        *)
Pulse(refused, frames) ==
    /\ refused \subseteq TpdoFires(tpdo, tcfg)
    /\ win' = WindowOpen
    /\ rpdo' = DiscardPending(rpdo)
    /\ od' = RpdoCommit(rpdo, od) /\ lastPulse' = RpdoCommit(rpdo, od)
    /\ PushEvents(Cardinality(MappedEvents(rcfg, RpdoPending(rpdo))), 0)
    /\ tpdo' = TpdoOnSync(tpdo, tcfg)
    /\ pend' = [t \in Tpdos |-> IF t \in refused THEN {Sampled(rpdo, od)} ELSE {}]
    /\ tried' = (refused # {})
    /\ out' = frames \cup {Sent("spdo", t, 0) : t \in TpdoFires(tpdo, tcfg) \ refused}
    /\ UNCHANGED dirty

NoPulse(frames) ==
    /\ nmt # "Operational"
    /\ out' = frames
    /\ UNCHANGED <<pdoVars, evtVars>>

HandleSync(frames) ==
    \/ nmt = "Operational" /\ \E refused \in SUBSET Tpdos : Pulse(refused, frames)
    \/ NoPulse(frames)

RxSync ==
    /\ TakeFrame(<<"sync">>)
    /\ HandleSync({})
    /\ UNCHANGED <<lifeVars, sdoVars, cfgVars, prod, errVars>>

(* process_rpdo_frame.                                                     *)
RxRpdo(r, v) ==
    /\ TakeFrame(<<"rpdo", r, v>>)
    /\ out' = {}
    /\ IF nmt = "Operational" /\ rcfg[r].enabled
         THEN /\ rpdo' = RpdoReceive(rpdo, rcfg, r, v)
              /\ IF Synchronous(rcfg[r])
                   THEN UNCHANGED <<od, evtVars>>
                   ELSE /\ od' = [od EXCEPT ![r] = v]
                        /\ PushEvents(Cardinality(MappedEvents(rcfg, {r})), 0)
         ELSE UNCHANGED <<rpdo, od, evtVars>>
    /\ UNCHANGED <<lifeVars, sdoVars, cfgVars, tpdo, dirty, syncVars, prod, errVars>>

(* The dispatch of a heartbeat to its monitor, in every NMT state.         *)
RxHeartbeat(n, st) ==
    /\ TakeFrame(<<"hb", n, st>>)
    /\ out' = {}
    /\ mon' = IF mon[n].level = "Off" THEN mon ELSE [mon EXCEPT ![n] = MonitorHeard(st)]
    /\ PushEvents(0, Len(MonitorEvents(mon[n], st)))
    /\ UNCHANGED <<lifeVars, sdoVars, cfgVars, pdoVars, prod, hbAge, emcy>>

(* A frame for the LSS slave, whose answer is offered once and in every    *)
(* NMT state, or one that no service of this node uses.                    *)
RxLss ==
    /\ TakeFrame(<<"lss">>)
    /\ out' \in {{Sent("lss", 0, 0)}, {}}
    /\ Untouched

RxOther ==
    /\ TakeFrame(<<"other">>)
    /\ out' = {}
    /\ Untouched

(* What a committed download writes and what the node re-reads for it: the *)
(* PDO parameters; 0x1016 or 0x1017; an application entry; the SYNC        *)
(* objects.                                                                *)
ResyncPdo ==
    /\ \E t \in TpdoConfigs, r \in RpdoConfigs : odcfg' = [odcfg EXCEPT !.t = t, !.r = r]
    /\ tcfg' = odcfg'.t /\ rcfg' = odcfg'.r

ResyncHeartbeat ==
    /\ \/ \E i \in HbIntervals : odcfg' = [odcfg EXCEPT !.hb = i] /\ UNCHANGED mon
       \/ \E n \in Monitored, m \in {MonitorNew, MonitorOff} :
              mon' = [mon EXCEPT ![n] = m] /\ UNCHANGED odcfg
    /\ hbInterval' = odcfg'.hb

ResyncApp == od' \in {od} \cup {[od EXCEPT ![r] = v] : r \in Rpdos, v \in Values}

ResyncSync == scfg' \in SyncConfigs /\ prod' = ProducerConfigure(prod, scfg, scfg')

Resync(commit) ==
    /\ IF commit = "pdo" THEN ResyncPdo ELSE UNCHANGED <<tcfg, rcfg>>
    /\ IF commit = "hb" THEN ResyncHeartbeat ELSE UNCHANGED <<mon, hbInterval>>
    /\ commit \in {"pdo", "hb"} \/ UNCHANGED odcfg
    /\ IF commit = "app" THEN ResyncApp ELSE UNCHANGED od
    /\ IF commit = "sync" THEN ResyncSync ELSE UNCHANGED <<scfg, prod>>

(* handle_sdo_request.  A request is lost while a response is owed, except *)
(* for an abort, which also takes that response back.                      *)
SdoDropped(c, req) == nmt \notin Active \/ (req # "abort" /\ slot[c].has)

SdoOwed(c, req, resp) ==
    LET s == IF req = "abort" THEN [slot[c] EXCEPT !.has = FALSE, !.age = 0] ELSE slot[c]
    IN  IF resp THEN QueueResponse(s) ELSE s

RxSdo(c, req) ==
    /\ TakeFrame(<<"sdo", c, req>>)
    /\ ~ SdoDropped(c, req)
    /\ \E o \in ProcessWithContext(xfer[c], req, nmt), accepted \in BOOLEAN :
           LET owed == SdoOwed(c, req, o.resp)
               s == IF o.resp THEN TrySend(owed, accepted) ELSE owed
           IN  /\ xfer' = [xfer EXCEPT ![c] = o.x]
               /\ slot' = [slot EXCEPT ![c] = s]
               /\ out' = IF owed.has /\ ~ s.has THEN {Sent("sdo", c, 0)} ELSE {}
               /\ PushDownloadEvent(o.commit # "nothing")
               /\ Resync(o.commit)
    /\ UNCHANGED <<lifeVars, tpdo, rpdo, dirty, syncVars, hbAge, emcy>>

RxSdoDropped(c, req) ==
    /\ TakeFrame(<<"sdo", c, req>>)
    /\ SdoDropped(c, req)
    /\ out' = {}
    /\ Untouched

(* receive() would block or failed; what is queued stays in the transport. *)
RxDone ==
    /\ pc = "rx"
    /\ pc' = "sdo" /\ ch' = 1
    /\ out' = {}
    /\ UNCHANGED rxq /\ Untouched

-----------------------------------------------------------------------------
(* Stage "sdo": PendingSdoTx::service for one channel after the other.     *)

SdoTrySend ==
    /\ pc = "sdo" /\ Sends(slot[ch])
    /\ \E accepted \in BOOLEAN :
           /\ slot' = [slot EXCEPT ![ch] = TrySend(@, accepted)]
           /\ out' = IF accepted THEN {Sent("sdo", ch, slot[ch].age)} ELSE {}
    /\ UNCHANGED <<pc, ch, rxq, lifeVars, xfer, cfgVars, pdoVars, prod, errVars, evtVars>>

(* One segment of a block upload, queued and offered.                      *)
SdoSegment ==
    /\ pc = "sdo" /\ ~ slot[ch].has /\ xfer[ch].segs > 0
    /\ xfer' = [xfer EXCEPT ![ch] = SegmentOffered(@)]
    /\ \E accepted \in BOOLEAN :
           LET s == TrySend(QueueResponse(slot[ch]), accepted)
           IN  /\ slot' = [slot EXCEPT ![ch] = s]
               /\ out' = IF s.has THEN {} ELSE {Sent("sdo", ch, 0)}
    /\ UNCHANGED <<pc, ch, rxq, lifeVars, cfgVars, pdoVars, prod, errVars, evtVars>>

SdoDone ==
    /\ pc = "sdo" /\ ~ Sends(slot[ch])
    /\ slot[ch].has \/ xfer[ch].segs = 0
    /\ IF ch + 1 \in Channels
         THEN ch' = ch + 1 /\ UNCHANGED pc
         ELSE ch' = 1 /\ pc' = "sync"
    /\ out' = {}
    /\ UNCHANGED rxq /\ Untouched

-----------------------------------------------------------------------------
(* Stage "sync": SYNC production.                                          *)

(* A pulse is due and the node may produce it.                             *)
SyncDue == booted /\ nmt # "Stopped" /\ PulseDue(prod, scfg)

SyncSilent ==
    /\ pc = "sync" /\ pc' = "retry"
    /\ ~ SyncDue
    /\ prod' = IF booted /\ nmt # "Stopped" /\ ProducerArms(prod, scfg)
                 THEN ProducerArm(prod) ELSE prod
    /\ out' = {}
    /\ UNCHANGED <<ch, rxq, lifeVars, sdoVars, cfgVars, pdoVars, errVars, evtVars>>

(* The node takes part in its own pulse once the transport has the frame.  *)
SyncProduced ==
    /\ pc = "sync" /\ pc' = "retry"
    /\ SyncDue
    /\ prod' = ProducerConfirm(prod, scfg)
    /\ HandleSync({Sent("sync", PulseCounter(prod, scfg), 0)})
    /\ UNCHANGED <<ch, rxq, lifeVars, sdoVars, cfgVars, errVars>>

(* Mutated form of SyncRefused: takes part in a pulse nobody saw.          *)
SyncRefusedApplied ==
    /\ pc = "sync" /\ pc' = "retry"
    /\ SyncDue
    /\ HandleSync({})
    /\ UNCHANGED <<ch, rxq, lifeVars, sdoVars, cfgVars, prod, errVars>>

SyncRefused ==
    /\ pc = "sync" /\ pc' = "retry"
    /\ SyncDue
    /\ out' = {}
    /\ UNCHANGED <<ch, rxq>> /\ Untouched

(* Stage "retry": retry_pending_sync_tpdo.                                 *)
Retry ==
    /\ pc = "retry" /\ pc' = "control"
    /\ \/ /\ pend = NoPend \/ (AllowsTransmit(win, scfg) /\ nmt = "Operational" /\ tried)
          /\ out' = {}
          /\ UNCHANGED <<pend, tried>>
       \/ /\ pend # NoPend /\ (nmt # "Operational" \/ ~ AllowsTransmit(win, scfg))
          /\ pend' = NoPend /\ tried' = FALSE
          /\ out' = {}
       \/ /\ pend # NoPend /\ nmt = "Operational" /\ AllowsTransmit(win, scfg) /\ ~ tried
          /\ \E refused \in SUBSET Unsent(pend) :
                 /\ pend' = [t \in Tpdos |-> IF t \in refused THEN pend[t] ELSE {}]
                 /\ tried' = (refused # {})
                 /\ out' = {Sent("spdo", t, win.age) : t \in Unsent(pend) \ refused}
    /\ UNCHANGED <<ch, rxq, lifeVars, sdoVars, cfgVars, tpdo, rpdo, dirty, od, win, lastPulse, prod,
                   errVars, evtVars>>

-----------------------------------------------------------------------------
(* Stage "control": RPDO deadlines, heartbeat producer and consumers.      *)

Deadlines ==
    \/ /\ nmt = "Operational"
       /\ rpdo' = CheckDeadlines(rpdo, rcfg)
       /\ UNCHANGED <<tpdo, dirty, win, pend, tried>>
    \/ /\ nmt # "Operational"
       /\ LeaveOperational

MissedDeadlines == IF nmt = "Operational" THEN NewlyExpired(rpdo, rcfg) ELSE {}

(* Mutated forms of HeartbeatSent: before the boot-up; not in Stopped.     *)
HeartbeatSentUnbooted == HeartbeatDue(hbInterval, hbAge)
HeartbeatSentActive == booted /\ nmt # "Stopped" /\ HeartbeatDue(hbInterval, hbAge)
HeartbeatSent == booted /\ HeartbeatDue(hbInterval, hbAge)

(* The first disjunct also stands for a refused heartbeat.                 *)
ProduceHeartbeat ==
    \/ hbAge' = hbAge /\ out' = {}
    \/ HeartbeatSent /\ hbAge' = 0 /\ out' = {Sent("heartbeat", 0, 0)}

Silenced == {n \in Monitored : MonitorExpires(mon[n])}

CheckMonitors ==
    mon' = [n \in Monitored |-> IF n \in Silenced THEN MonitorExpired(mon[n]) ELSE mon[n]]

Control ==
    /\ pc = "control" /\ pc' = "tx"
    /\ Deadlines
    /\ ProduceHeartbeat
    /\ CheckMonitors
    /\ PushEvents(Cardinality(MissedDeadlines), Cardinality(Silenced))
    /\ UNCHANGED <<ch, rxq, lifeVars, sdoVars, cfgVars, od, lastPulse, prod, emcy>>

(* Stage "tx": EMCY, then event-driven TPDOs; the dirty set is used up.    *)
Transmit ==
    /\ pc = "tx" /\ pc' = "idle"
    /\ \E n \in 0..emcy, sent \in SUBSET Tpdos :
           LET e == LatchAsyncEvents(tpdo, tcfg, dirty)
           IN  /\ n > 0 => booted /\ nmt \in Active
               /\ emcy' = emcy - n
               /\ IF nmt = "Operational"
                    THEN sent \subseteq TpdoDue(e, tcfg) /\ tpdo' = TpdoSent(e, sent)
                    ELSE sent = {} /\ UNCHANGED tpdo
               /\ out' = {Sent("emcy", 0, 0) : i \in 1..n} \cup {Sent("tpdo", t, 0) : t \in sent}
    /\ dirty' = {}
    /\ UNCHANGED <<ch, rxq, lifeVars, sdoVars, cfgVars, rpdo, od, syncVars, prod,
                   hbAge, mon, evtVars>>

-----------------------------------------------------------------------------
(* Between two calls of process(): the application, the bus and the clock. *)

AtIdle(call) == pc = "idle" /\ call \in AppCalls /\ out' = {} /\ UNCHANGED <<pc, ch, rxq>>

(* notify_changed of an entry the slots of S map; a full dirty_set drops   *)
(* the entry.                                                              *)
NotifyChanged(S) ==
    /\ AtIdle("notify")
    /\ tpdo' = LatchSlotEvents(tpdo, tcfg, S)
    /\ dirty' \in {dirty \cup S, dirty}
    /\ UNCHANGED <<lifeVars, sdoVars, cfgVars, rpdo, od, syncVars, prod, errVars, evtVars>>

(* od_mut: the guard latches the slots of S when it is dropped.            *)
OdMut(S, r, v) ==
    /\ AtIdle("od_mut")
    /\ od' = [od EXCEPT ![r] = v]
    /\ tpdo' = LatchSlotEvents(tpdo, tcfg, S)
    /\ UNCHANGED <<lifeVars, sdoVars, cfgVars, rpdo, dirty, syncVars, prod, errVars, evtVars>>

(* od_mut on PDO parameters or 0x1017: they take effect when they are next *)
(* re-read.                                                                *)
OdMutConfig ==
    /\ AtIdle("od_config")
    /\ odcfg' \in OdConfigs
    /\ UNCHANGED <<lifeVars, sdoVars, tcfg, rcfg, scfg, hbInterval, pdoVars, prod, errVars, evtVars>>

(* set_error, clear_error or clear_all_errors that queues an EMCY; S maps  *)
(* OD 0x1001.                                                              *)
SetError(S) ==
    /\ AtIdle("set_error")
    /\ emcy' = Pushed(emcy, 1, EmcyCap).len
    /\ tpdo' = LatchSlotEvents(tpdo, tcfg, S)
    /\ dirty' \in {dirty \cup S, dirty}
    /\ UNCHANGED <<lifeVars, sdoVars, cfgVars, rpdo, od, syncVars, prod, hbAge, mon, evtVars>>

RequestReset == AtIdle("request_reset") /\ Reset

TakeResetEvent ==
    /\ AtIdle("take_reset_event") /\ resetEvent
    /\ resetEvent' = FALSE
    /\ UNCHANGED <<nmt, booted, sdoVars, cfgVars, pdoVars, prod, errVars, evtVars>>

NextEvent ==
    /\ AtIdle("next_event")
    /\ \/ evq > 0 /\ evq' = evq - 1 /\ UNCHANGED hbq
       \/ hbq > 0 /\ hbq' = hbq - 1 /\ UNCHANGED evq
    /\ UNCHANGED <<lifeVars, sdoVars, cfgVars, pdoVars, prod, errVars, overflow, missed>>

Arrive(f) ==
    /\ pc \in ArriveAt /\ Len(rxq) < RxCap
    /\ rxq' = Append(rxq, f)
    /\ out' = {}
    /\ UNCHANGED <<pc, ch>> /\ Untouched

(* The clock advances by one tick before the next call.                    *)
SlotTick(s) == IF s.has THEN [s EXCEPT !.age = Older(@, SdoTimeout)] ELSE s
TransferTick(x) == IF Open(x) THEN [x EXCEPT !.age = Older(@, SdoTimeout)] ELSE x

Tick ==
    /\ pc = "idle"
    /\ slot' = [c \in Channels |-> SlotTick(slot[c])]
    /\ xfer' = [c \in Channels |-> TransferTick(xfer[c])]
    /\ tpdo' = TpdoTick(tpdo)
    /\ rpdo' = RpdoTick(rpdo)
    /\ prod' = IF prod.armed THEN [prod EXCEPT !.age = Older(@, PeriodCap)] ELSE prod
    /\ win' = IF win.active THEN [win EXCEPT !.age = Older(@, WindowCap)] ELSE win
    /\ tried' = FALSE
    /\ hbAge' = Older(hbAge, HbAgeCap)
    /\ mon' = [n \in Monitored |-> MonitorTick(mon[n])]
    /\ out' = {}
    /\ UNCHANGED <<pc, ch, rxq, lifeVars, cfgVars, dirty, od, pend, lastPulse, emcy, evtVars>>

Process ==
    \/ BootRefused \/ Boot \/ Poll
    \/ \E cmd \in {"Start", "Stop", "PreOp", "ResetNode", "ResetComm"} : RxNmt(cmd)
    \/ RxSync \/ RxLss \/ RxOther
    \/ \E r \in Rpdos, v \in Values : RxRpdo(r, v)
    \/ \E n \in Monitored, st \in NmtStates : RxHeartbeat(n, st)
    \/ \E c \in Channels, req \in Requests : RxSdo(c, req) \/ RxSdoDropped(c, req)
    \/ RxDone
    \/ SdoTrySend \/ SdoSegment \/ SdoDone
    \/ SyncSilent \/ SyncProduced \/ SyncRefused \/ Retry
    \/ Control \/ Transmit

Environment ==
    \/ \E S \in SUBSET Tpdos : NotifyChanged(S) \/ SetError(S)
    \/ \E S \in SUBSET Tpdos, r \in Rpdos, v \in Values : OdMut(S, r, v)
    \/ OdMutConfig \/ RequestReset \/ TakeResetEvent \/ NextEvent
    \/ \E f \in Frames : Arrive(f)
    \/ Tick

Next == Process \/ Environment

Spec == Init /\ [][Next]_vars

(* The application keeps calling process(), a call comes to its end, and   *)
(* receive() fails only when nothing is left; the clock advances; and a    *)
(* transport that is offered frames again and again accepts some.          *)
Works == Process /\ ~ (pc = "rx" /\ pc' = "sdo" /\ rxq # <<>>)

Fairness ==
    /\ WF_vars(Works)
    /\ SF_vars(Tick)
    /\ SF_vars(Boot /\ out' # {})
    /\ SF_vars(Control /\ out' # {})

FairSpec == Spec /\ Fairness

-----------------------------------------------------------------------------
(* Properties.                                                             *)

TypeOK ==
    /\ pc \in Stages /\ ch \in Channels
    /\ nmt \in NmtStates /\ booted \in BOOLEAN /\ resetEvent \in BOOLEAN
    /\ slot \in [Channels -> Pending] /\ xfer \in [Channels -> Transfer]
    /\ tcfg \in TpdoConfigs /\ rcfg \in RpdoConfigs /\ scfg \in SyncConfigs
    /\ odcfg \in OdConfigs /\ hbInterval \in HbIntervals
    /\ tpdo.counter \in [Tpdos -> 0..240]
    /\ tpdo.syncEvent \in [Tpdos -> BOOLEAN] /\ tpdo.asyncEvent \in [Tpdos -> BOOLEAN]
    /\ rpdo.pending \in [Rpdos -> Values \cup {NoData}]
    /\ dirty \subseteq Tpdos
    /\ od \in [Rpdos -> Values]
    /\ prod.counter \in 0..240
    /\ evq \in 0..EvtCap /\ hbq \in 0..HbCap /\ emcy \in 0..EmcyCap

(* Whatever order NMT commands, SYNC, PDOs and resets arrive in, and       *)
(* however often within one call of process(), PDO work never outlives     *)
(* Operational: outside it no RPDO waits for a SYNC, no refused            *)
(* synchronous TPDO waits for a retry and no synchronous window is open.   *)
NoPdoWorkOutsideOperational ==
    nmt # "Operational" => /\ RpdoPending(rpdo) = {}
                           /\ pend = NoPend
                           /\ ~ win.active

(* Stopped and Initializing leave no SDO work behind on any channel: no    *)
(* transfer that a later request could continue, no response that a later  *)
(* call could send.                                                        *)
NoSdoWorkOutsideActive ==
    nmt \notin Active => \A c \in Channels : ~ slot[c].has /\ ~ Open(xfer[c])

(* booted and the NMT state machine never disagree.                        *)
BootedIffStarted == booted <=> nmt # "Initializing"

(* Every frame leaves in an NMT state its service is available in, an SDO  *)
(* response before its timeout and a synchronous TPDO inside the window.   *)
Permitted(f) ==
    /\ f.svc = "boot" => f.nmt = "Initializing"
    /\ f.svc = "heartbeat" => f.nmt # "Initializing"
    /\ f.svc \in {"sync", "emcy", "sdo"} => f.nmt \in Active
    /\ f.svc \in {"tpdo", "spdo"} => f.nmt = "Operational"
    /\ f.svc = "sdo" => f.age < SdoTimeout
    /\ f.svc = "spdo" => scfg.window = 0 \/ f.age <= scfg.window

ServicesPermitted == \A f \in out : Permitted(f)

(* The abort of a transfer that timed out never replaces a response the    *)
(* client has not been given: a response and the transfer it belongs to    *)
(* age together, so the stale response is found first.                     *)
TimeoutAbortReplacesNothing ==
    \A c \in Channels : TransferTimesOut(slot[c], xfer[c]) => ~ slot[c].has

(* A synchronous TPDO reports the OD right after its pulse committed the   *)
(* buffered RPDOs, also when it is sent by a retry in a later call and the *)
(* OD has moved on; frames of two pulses are never pending together.       *)
SamplesOfLastPulse == \A t \in Unsent(pend) : pend[t] = {lastPulse}

(* The TPDO cycle counters count pulses the bus has seen: one that was     *)
(* received, or one of this node's own that the transport accepted.        *)
SawPulse ==
    \/ rxq # <<>> /\ Head(rxq) = <<"sync">> /\ rxq' = Tail(rxq)
    \/ \E f \in out' : f.svc = "sync"

CountersFollowBus ==
    [][tpdo'.counter # tpdo.counter => SawPulse \/ nmt' = "Initializing"]_vars

(* A trigger is only given up with the frame it asked for (accepted, or    *)
(* kept for a retry, or impossible to build) or by leaving Operational.    *)
TriggersKept ==
    [][nmt' = "Operational" =>
        \A t \in Tpdos :
            /\ tpdo.asyncEvent[t] /\ ~ tpdo'.asyncEvent[t]
                 => \E f \in out' : f.svc = "tpdo" /\ f.of = t
            /\ tpdo.syncEvent[t] /\ ~ tpdo'.syncEvent[t]
                 => \/ \E f \in out' : f.svc = "spdo" /\ f.of = t
                    \/ t \in Unsent(pend')
                    \/ ~ tcfg[t].ok]_vars

(* events_dropped tells how many events the application will never get:    *)
(* of all the OD and heartbeat events that RPDOs, SYNC pulses, deadlines,  *)
(* downloads and monitors produced, those that were neither handed out nor *)
(* are still queued.  Each place counts in its own way: apply_mapped by    *)
(* return value, per mapping; a download from the fullness before it; the  *)
(* heartbeat queue into the same counter, which saturates.                 *)
EvictionsCounted == overflow = missed

(* PDO parameters do not change while the node is Operational.             *)
PdoConfigLockedInOperational ==
    [][nmt = "Operational" /\ nmt' = "Operational" => UNCHANGED <<tcfg, rcfg>>]_vars

(* A node that was reset boots again once the transport takes its boot-up  *)
(* message.                                                                *)
BootsAgain == ~ booted ~> booted

(* A response the transport keeps refusing does not block its SDO channel  *)
(* for ever: it is sent or given up with its transfer.                     *)
ChannelFreed == \A c \in Channels : slot[c].has ~> ~ slot[c].has

(* A node that stays up with a producer interval other than 0 keeps        *)
(* sending heartbeats, in every NMT state, whatever is written to 0x1016   *)
(* and 0x1017, from whichever interval to the next.                        *)
HeartbeatsContinue ==
    <>[](booted /\ hbInterval # 0) => []<>(\E f \in out : f.svc = "heartbeat")
=============================================================================
