--------------------------- MODULE ServiceProofs ----------------------------
(***************************************************************************)
(* Three services of a node that share no state:                           *)
(*   Emcy     the EMCY producer, for every set of categories, every queue  *)
(*            capacity and every number of reports;                        *)
(*   Lss      the LSS slave, for every node ID: it is selected by its      *)
(*            whole identity only, and its application is never left with  *)
(*            an old node ID;                                              *)
(*   CobPlan  frames reach the services that own their identifiers, for    *)
(*            every number of PDOs, of additional SDO servers and of       *)
(*            monitored nodes, and for all the identifiers and node IDs    *)
(*            that are written.                                            *)
(***************************************************************************)
EXTENDS Emcy, Lss, CobPlan, TLAPS

-----------------------------------------------------------------------------
(* The EMCY producer.                                                      *)

(* The inductive invariant: the checked invariants together, and the       *)
(* report numbers in use never exceed the reports made.                    *)
NumbersBounded ==
    /\ \A i \in 1..Len(pending) : pending[i].no <= raised
    /\ announced.no <= raised

EmcyInv ==
    /\ TypeOK /\ BusNeverUnderreports /\ RegisterCoherent
    /\ EveryFrameAccounted /\ InReportOrder /\ NumbersBounded

-----------------------------------------------------------------------------
(* What EmcyProducer::queue does: the result is a queue of frames within   *)
(* capacity, its newest frame is f, and the older ones are a suffix.       *)
LEMMA QueueLemma ==
    ASSUME TypeOK, NEW f \in Frame, Queue(f)
    PROVE  /\ pending' \in Seq(Frame)
           /\ pending' # <<>>
           /\ Len(pending') \in 1..QueueCap
           /\ pending'[Len(pending')] = f
           /\ dropped' \in Nat
           /\ Len(pending') + dropped' = Len(pending) + dropped + 1
           /\ \E k \in {0, 1} :
                \A i \in 1..Len(pending') - 1 :
                    i + k \in 1..Len(pending) /\ pending'[i] = pending[i + k]
<1> USE QueueCapAssumption DEF TypeOK
<1>1. CASE Len(pending) >= QueueCap
  <2>1. pending' = Append(Tail(pending), f) /\ dropped' = dropped + 1
    BY <1>1 DEF Queue
  <2>2. pending # <<>> /\ Tail(pending) \in Seq(Frame)
        /\ Len(Tail(pending)) = Len(pending) - 1
        /\ \A i \in 1..Len(pending) - 1 : Tail(pending)[i] = pending[i + 1]
    BY <1>1
  <2>3. \A i \in 1..Len(pending') - 1 :
            i + 1 \in 1..Len(pending) /\ pending'[i] = pending[i + 1]
    BY <2>1, <2>2
  <2> QED BY <1>1, <2>1, <2>2, <2>3
<1>2. CASE ~ (Len(pending) >= QueueCap)
  <2>1. pending' = Append(pending, f) /\ dropped' = dropped
    BY <1>2 DEF Queue
  <2>2. \A i \in 1..Len(pending') - 1 :
            i + 0 \in 1..Len(pending) /\ pending'[i] = pending[i + 0]
    BY <2>1
  <2> QED BY <1>2, <2>1, <2>2
<1> QED BY <1>1, <1>2

(* Queueing a report keeps the whole invariant, whatever the caller does   *)
(* to the register, as long as the frame tells the register's new value.   *)
LEMMA AnnounceLemma ==
    ASSUME EmcyInv, NEW isReset \in BOOLEAN, NEW reg \in SUBSET Bits,
           Announce(isReset, reg),
           error_register' = reg, isReset <=> reg = {},
           reg # {} => GENERIC \in reg,
           MirrorErrorRegister, UNCHANGED <<sent, announced>>
    PROVE  EmcyInv'
<1> DEFINE f == [reset |-> isReset, reg |-> reg, no |-> raised + 1]
<1>1. f \in Frame /\ Queue(f) /\ raised' = raised + 1
  BY DEF Announce, EmcyInv, TypeOK, Frame
<1>2. /\ pending' \in Seq(Frame)
      /\ pending' # <<>>
      /\ Len(pending') \in 1..QueueCap
      /\ pending'[Len(pending')] = f
      /\ dropped' \in Nat
      /\ Len(pending') + dropped' = Len(pending) + dropped + 1
  BY <1>1, QueueLemma DEF EmcyInv
<1>3. PICK k \in {0, 1} :
        \A i \in 1..Len(pending') - 1 :
            i + k \in 1..Len(pending) /\ pending'[i] = pending[i + k]
  BY <1>1, QueueLemma DEF EmcyInv
<1>4. TypeOK'
  BY <1>1, <1>2, QueueCapAssumption DEF EmcyInv, TypeOK, MirrorErrorRegister
<1>5. BusNeverUnderreports'
  BY <1>2 DEF BusNeverUnderreports, Latest
<1>6. RegisterCoherent'
  BY DEF RegisterCoherent, MirrorErrorRegister
<1>7. EveryFrameAccounted'
  <2>1. /\ Len(pending) \in Nat /\ Len(pending') \in Nat
        /\ dropped \in Nat /\ sent \in Nat /\ sent' = sent
    BY <1>2 DEF EmcyInv, TypeOK
  <2>2. raised = sent + Len(pending) + dropped
    BY DEF EmcyInv, EveryFrameAccounted
  <2>3. raised' = sent' + Len(pending') + dropped'
    BY <1>1, <1>2, <2>1, <2>2
  <2> QED BY <2>3 DEF EveryFrameAccounted
<1>8. NumbersBounded' /\ InReportOrder'
  <2>0. /\ \A i \in 1..Len(pending') : pending'[i].no \in Nat
        /\ f.no = raised + 1 /\ raised \in Nat
    <3>1. \A i \in 1..Len(pending') : pending'[i] \in Frame
      BY <1>2
    <3> QED BY <3>1 DEF EmcyInv, TypeOK, Frame
  <2>a. ASSUME NEW i \in 1..Len(pending') PROVE pending'[i].no <= raised + 1
    <3>1. CASE i = Len(pending')
      BY <1>2, <2>0, <3>1
    <3>2. CASE i # Len(pending')
      <4>1. i \in 1..Len(pending') - 1
        BY <1>2, <3>2
      <4>2. i + k \in 1..Len(pending) /\ pending'[i].no = pending[i + k].no
        BY Zenon, <1>3, <4>1
      <4>3. pending[i + k].no <= raised
        BY <4>2 DEF EmcyInv, NumbersBounded
      <4> QED BY <2>0, <4>2, <4>3
    <3> QED BY <3>1, <3>2
  <2>1. \A i \in 1..Len(pending') : pending'[i].no \in Nat /\ pending'[i].no <= raised + 1
    BY <2>0, <2>a
  <2>2. \A i \in 1..Len(pending') - 1 :
            pending'[i].no <= raised /\ announced.no < pending'[i].no
    BY Zenon, <1>2, <1>3 DEF EmcyInv, TypeOK, NumbersBounded, InReportOrder, Frame
  <2>3. pending'[Len(pending')].no = raised + 1 /\ announced.no <= raised
    BY <1>2 DEF EmcyInv, NumbersBounded
  <2>4. announced.no \in Nat /\ raised \in Nat
    BY DEF EmcyInv, TypeOK, Frame
  <2>5. NumbersBounded'
    BY <1>1, <2>1, <2>3, <2>4 DEF NumbersBounded
  <2>6. \A i \in 1..Len(pending') : announced'.no < pending'[i].no
    BY <1>2, <2>2, <2>3, <2>4
  <2>7. ASSUME NEW i \in 1..Len(pending'), NEW j \in 1..Len(pending'), i < j
        PROVE  pending'[i].no < pending'[j].no
    <3>1. i \in 1..Len(pending') - 1
      BY <1>2, <2>7
    <3>2. CASE j = Len(pending')
      BY <3>1, <3>2, <2>1, <2>2, <2>3, <2>4
    <3>3. CASE j # Len(pending')
      <4>1. j \in 1..Len(pending') - 1
        BY <1>2, <3>3
      <4>2. /\ i + k \in 1..Len(pending) /\ j + k \in 1..Len(pending) /\ i + k < j + k
            /\ pending'[i] = pending[i + k] /\ pending'[j] = pending[j + k]
        BY <1>2, <1>3, <2>7, <3>1, <4>1
      <4> QED BY <4>2 DEF EmcyInv, InReportOrder
    <3> QED BY <3>2, <3>3
  <2> QED BY <2>5, <2>6, <2>7 DEF InReportOrder
<1> QED BY <1>4, <1>5, <1>6, <1>7, <1>8 DEF EmcyInv

(* The invariant holds of a new producer.                                  *)
LEMMA InitLemma == Init => EmcyInv
BY QueueCapAssumption
   DEF Init, EmcyInv, TypeOK, Frame, BusNeverUnderreports, Latest, RegisterCoherent,
       EveryFrameAccounted, InReportOrder, NumbersBounded

(* Every step of the producer keeps the invariant.                         *)
LEMMA NextLemma == EmcyInv /\ [Next]_vars => EmcyInv'
<1> SUFFICES ASSUME EmcyInv, [Next]_vars PROVE EmcyInv'
  OBVIOUS
<1>0. GENERIC \in Bits
  BY DEF Bits
<1>1. ASSUME NEW bits \in SUBSET Bits, SetError(bits) PROVE EmcyInv'
  <2> DEFINE reg == error_register \cup bits \cup {GENERIC}
  <2>1. reg \in SUBSET Bits /\ reg # {} /\ GENERIC \in reg
    BY <1>0 DEF EmcyInv, TypeOK
  <2>2. error_register' = reg /\ Announce(FALSE, reg) /\ MirrorErrorRegister
        /\ UNCHANGED <<sent, announced>>
    BY Zenon, <1>1 DEF SetError
  <2> HIDE DEF reg
  <2> QED BY Zenon, <2>1, <2>2, AnnounceLemma
<1>2. ASSUME NEW bits \in SUBSET Bits, ClearError(bits) PROVE EmcyInv'
  <2>1. Cleared(bits) \in SUBSET Bits /\ Cleared(bits) \subseteq error_register
        /\ (Cleared(bits) # {} => GENERIC \in Cleared(bits))
    BY <1>0 DEF Cleared, EmcyInv, TypeOK, RegisterCoherent, Bits
  <2>2. CASE error_register # {} /\ error_register' = {}
    <3>1. error_register' = {} /\ Announce(TRUE, {}) /\ MirrorErrorRegister
          /\ UNCHANGED <<sent, announced>>
      BY Zenon, <1>2, <2>2 DEF ClearError
    <3> QED BY Zenon, <3>1, AnnounceLemma
  <2>3. CASE ~ (error_register # {} /\ error_register' = {})
    <3>1. /\ UNCHANGED <<pending, dropped, raised, sent, announced>>
          /\ error_register' = Cleared(bits) /\ MirrorErrorRegister
      BY Zenon, <1>2, <2>3 DEF ClearError
    <3>2. error_register' = {} <=> error_register = {}
      BY <2>1, <2>3, <3>1
    <3>3. TypeOK' /\ RegisterCoherent'
      BY <2>1, <3>1 DEF EmcyInv, TypeOK, RegisterCoherent, MirrorErrorRegister
    <3>4. BusNeverUnderreports'
      BY <2>1, <3>1, <3>2 DEF EmcyInv, BusNeverUnderreports, Latest
    <3>5. EveryFrameAccounted' /\ InReportOrder' /\ NumbersBounded'
      BY <3>1 DEF EmcyInv, EveryFrameAccounted, InReportOrder, NumbersBounded
    <3> QED BY <3>3, <3>4, <3>5 DEF EmcyInv
  <2> QED BY <2>2, <2>3
<1>3. CASE ClearAll
  <2>1. error_register' = {} /\ Announce(TRUE, {}) /\ MirrorErrorRegister
        /\ UNCHANGED <<sent, announced>>
    BY Zenon, <1>3 DEF ClearAll
  <2> QED BY Zenon, <2>1, AnnounceLemma
<1>4. ASSUME NEW n \in 1..QueueCap, Transmit(n) PROVE EmcyInv'
  <2>1. /\ n \in 1..Len(pending) /\ pending \in Seq(Frame)
        /\ announced' = pending[n] /\ sent' = sent + n
        /\ pending' = SubSeq(pending, n + 1, Len(pending))
        /\ UNCHANGED <<error_register, dropped, od_1001, raised>>
    BY <1>4 DEF Transmit, EmcyInv, TypeOK
  <2>2. /\ pending' \in Seq(Frame) /\ Len(pending') = Len(pending) - n
        /\ \A i \in 1..Len(pending') : n + i \in 1..Len(pending) /\ pending'[i] = pending[n + i]
    BY <2>1
  <2>3. TypeOK'
    BY SMTT(30), <2>1, <2>2, QueueCapAssumption DEF EmcyInv, TypeOK
  <2>4. Latest' = Latest
    <3>1. CASE n = Len(pending)
      BY <2>1, <2>2, <3>1 DEF Latest
    <3>2. CASE n # Len(pending)
      <4>0. Len(pending) \in Nat /\ n \in Nat /\ n < Len(pending)
        BY <2>1, <3>2
      <4>1. /\ Len(pending') \in 1..Len(pending') /\ pending' # <<>> /\ pending # <<>>
            /\ n + Len(pending') = Len(pending)
        BY <2>2, <4>0
      <4>2. pending'[Len(pending')] = pending[Len(pending)]
        BY <2>2, <4>1
      <4> QED BY <4>1, <4>2 DEF Latest
    <3> QED BY <3>1, <3>2
  <2>5. BusNeverUnderreports' /\ RegisterCoherent'
    BY <2>1, <2>4 DEF EmcyInv, BusNeverUnderreports, RegisterCoherent
  <2>6. EveryFrameAccounted'
    <3>1. /\ raised = sent + Len(pending) + dropped /\ Len(pending') = Len(pending) - n
          /\ sent' = sent + n /\ raised' = raised /\ dropped' = dropped
      BY <2>1, <2>2 DEF EmcyInv, EveryFrameAccounted
    <3>2. raised \in Nat /\ sent \in Nat /\ dropped \in Nat /\ Len(pending) \in Nat
      BY DEF EmcyInv, TypeOK
    <3> QED BY <3>1, <3>2 DEF EveryFrameAccounted
  <2>7. NumbersBounded'
    BY <2>1, <2>2 DEF EmcyInv, NumbersBounded
  <2>8. InReportOrder'
    <3>1. \A i, j \in 1..Len(pending') : i < j => pending'[i].no < pending'[j].no
      BY <2>1, <2>2 DEF EmcyInv, InReportOrder
    <3>2. \A i \in 1..Len(pending') : announced'.no < pending'[i].no
      BY <2>1, <2>2 DEF EmcyInv, InReportOrder
    <3> QED BY <3>1, <3>2 DEF InReportOrder
  <2> QED BY <2>3, <2>5, <2>6, <2>7, <2>8 DEF EmcyInv
<1>5. CASE UNCHANGED vars
  BY <1>5 DEF vars, EmcyInv, TypeOK, BusNeverUnderreports, Latest, RegisterCoherent,
              EveryFrameAccounted, InReportOrder, NumbersBounded
<1> QED BY <1>1, <1>2, <1>3, <1>4, <1>5 DEF Next

(* Whatever the application reports and whenever the transport accepts,    *)
(* the newest EMCY frame tells every active error and a final reset.       *)
THEOREM EmcyReporting == Spec => []BusNeverUnderreports
<1>1. EmcyInv => BusNeverUnderreports
  BY DEF EmcyInv
<1> QED BY <1>1, InitLemma, NextLemma, PTL DEF Spec

(* No frame is lost without being counted, and frames keep report order.   *)
THEOREM EmcyAccounting == Spec => [](EveryFrameAccounted /\ InReportOrder)
<1>1. EmcyInv => EveryFrameAccounted /\ InReportOrder
  BY DEF EmcyInv
<1> QED BY <1>1, InitLemma, NextLemma, PTL DEF Spec

(* The state stays well typed, within capacity, and the register coherent. *)
THEOREM EmcyTypeCorrect == Spec => [](TypeOK /\ RegisterCoherent)
<1>1. EmcyInv => TypeOK /\ RegisterCoherent
  BY DEF EmcyInv
<1> QED BY <1>1, InitLemma, NextLemma, PTL DEF Spec

-----------------------------------------------------------------------------
(* The LSS slave.                                                          *)
(* The last selection requests heard are as much of the identity as        *)
(* selective_step says: this is what a half-finished selection stands for, *)
(* and why each request that does not continue it must restart it.         *)
Progressed ==
    \A i \in 1..4 : i <= selective_step => heard[4 - selective_step + i] = WholeIdentity[i]

LssInv == LssTypeOK /\ Progressed /\ SelectedByWholeIdentity

-----------------------------------------------------------------------------
(* A request that continues a selection makes the heard requests match one *)
(* word more of the identity.                                              *)
LEMMA SelectionContinues ==
    ASSUME LssTypeOK, Progressed, NEW r \in Selections, SwitchSelective(r)
    PROVE  LssTypeOK' /\ Progressed' /\ SelectedByWholeIdentity'
<1> DEFINE next == [i \in 1..4 |-> IF i < 4 THEN heard[i + 1]
                                   ELSE IF r.match THEN r ELSE NoSelection]
<1>1. r.place \in 0..3 /\ r.match \in BOOLEAN
  BY DEF Selections
<1>2. heard' = next /\ next \in [1..4 -> Selections \cup {NoSelection}]
  BY DEF SwitchSelective, LssTypeOK
<1>3. LssTypeOK'
  BY <1>1, <1>2 DEF SwitchSelective, LssTypeOK
<1>4. CASE Advances(r)
  <2>1. r.match /\ (r.place = 0 \/ selective_step = r.place)
    BY <1>4 DEF Advances, StepFor
  <2>2. r = [place |-> r.place, match |-> TRUE]
    BY <2>1 DEF Selections
  <2>3. \A i \in 1..4 : i <= r.place => heard[4 - r.place + i] = WholeIdentity[i]
    <3>1. CASE r.place = 0
      BY <3>1
    <3>2. CASE selective_step = r.place
      BY <3>2 DEF Progressed
    <3> QED BY <2>1, <3>1, <3>2
  <2>4. \A i \in 1..4 : i <= r.place + 1 => heard'[4 - (r.place + 1) + i] = WholeIdentity[i]
    <3> SUFFICES ASSUME NEW i \in 1..4, i <= r.place + 1
                 PROVE  heard'[4 - (r.place + 1) + i] = WholeIdentity[i]
      OBVIOUS
    <3>1. CASE i = r.place + 1
      <4>1. 4 - (r.place + 1) + i = 4 /\ i - 1 = r.place
        BY <3>1, <1>1
      <4>2. heard'[4] = r
        BY <1>2, <2>1
      <4>3. WholeIdentity[i] = [place |-> i - 1, match |-> TRUE]
        BY DEF WholeIdentity
      <4> QED BY Zenon, <4>1, <4>2, <4>3, <2>2
    <3>2. CASE i <= r.place
      <4>1. 4 - (r.place + 1) + i \in 1..3
        BY <3>2, <1>1
      <4>2. heard'[4 - (r.place + 1) + i] = heard[4 - r.place + i]
        BY <4>1, <1>1, <1>2
      <4> QED BY <4>2, <3>2, <2>3
    <3> QED BY <1>1, <3>1, <3>2
  <2>5. CASE r.place < 3
    <3>1. selective_step' = r.place + 1 /\ mode' = "waiting" /\ answer' = "none"
      BY <2>5, <1>1, <1>4 DEF SwitchSelective
    <3>2. Progressed'
      BY Zenon, <2>4, <3>1 DEF Progressed, WholeIdentity
    <3> QED BY <3>1, <3>2, <1>3 DEF SelectedByWholeIdentity
  <2>6. CASE r.place = 3
    <3>1. \A i \in 1..4 : heard'[i] = WholeIdentity[i]
      BY <2>4, <2>6
    <3>2. heard' = WholeIdentity
      BY <3>1, <1>2 DEF WholeIdentity
    <3>3. selective_step' = 0 /\ mode' = "configuration"
      BY <2>6, <1>4 DEF SwitchSelective
    <3>4. SelectedByWholeIdentity'
      BY <3>2, <3>3 DEF SelectedByWholeIdentity, WholeIdentity
    <3>5. Progressed'
      BY <3>3 DEF Progressed
    <3> QED BY <1>3, <3>4, <3>5
  <2> QED BY <1>1, <2>5, <2>6
<1>5. CASE ~ Advances(r)
  BY <1>5, <1>3 DEF SwitchSelective, Progressed, SelectedByWholeIdentity
<1> QED BY <1>3, <1>4, <1>5

(* Every request the slave hears, and every step of its application, keeps *)
(* LssInv.                                                                 *)
LEMMA LssStep ==
    ASSUME LssInv, [LssNext]_lssVars
    PROVE  LssInv'
<1> USE DEF LssInv
<1>1. ASSUME NEW configure \in BOOLEAN, SwitchModeGlobal(configure) PROVE LssInv'
  <2>1. Silence \in [1..4 -> Selections \cup {NoSelection}]
    BY DEF Silence
  <2> QED BY <1>1, <2>1 DEF SwitchModeGlobal, LssTypeOK, Progressed, SelectedByWholeIdentity
<1>2. ASSUME NEW r \in Selections, SwitchSelective(r) PROVE LssInv'
  BY <1>2, SelectionContinues
<1>3. ASSUME NEW id \in LssIds, ConfigureNodeId(id) PROVE LssInv'
  BY <1>3 DEF ConfigureNodeId, LssTypeOK, Progressed, SelectedByWholeIdentity
<1>4. ASSUME Store \/ Inquire \/ Ignore \/ TakeEvent PROVE LssInv'
  BY <1>4 DEF Store, Inquire, Ignore, TakeEvent, LssTypeOK, Progressed, SelectedByWholeIdentity
<1>5. ASSUME UNCHANGED lssVars PROVE LssInv'
  BY <1>5 DEF lssVars, LssTypeOK, Progressed, SelectedByWholeIdentity
<1> QED BY <1>1, <1>2, <1>3, <1>4, <1>5 DEF LssNext

(* A slave is selected only by the four words of its identity, in order    *)
(* and with nothing in between since it was sent to waiting mode           *)
(* (LssSlave::process).                                                    *)
THEOREM LssSelection == LssSpec => []SelectedByWholeIdentity
<1>1. LssInit => LssInv
  BY DEF LssInit, LssInv, LssTypeOK, Progressed, SelectedByWholeIdentity, Silence
<1>2. LssInv /\ [LssNext]_lssVars => LssInv'
  BY LssStep
<1>3. LssInv => SelectedByWholeIdentity
  BY DEF LssInv
<1> QED BY <1>1, <1>2, <1>3, PTL DEF LssSpec

(* The one slot for an event never hides a change of the node ID from an   *)
(* application that reads node_id() with every event it takes              *)
(* (LssSlave::take_event).                                                 *)
THEOREM LssInformed == LssSpec => []ApplicationInformed
<1>1. LssInit => ApplicationInformed
  BY DEF LssInit, ApplicationInformed, NoEvent
<1>2. ApplicationInformed /\ [LssNext]_lssVars => ApplicationInformed'
  <2> SUFFICES ASSUME ApplicationInformed, [LssNext]_lssVars PROVE ApplicationInformed'
    OBVIOUS
  <2> USE DEF ApplicationInformed
  <2>1. ASSUME NEW configure \in BOOLEAN, SwitchModeGlobal(configure) PROVE ApplicationInformed'
    BY <2>1 DEF SwitchModeGlobal
  <2>2. ASSUME NEW r \in Selections, SwitchSelective(r) PROVE ApplicationInformed'
    BY <2>2 DEF SwitchSelective
  <2>3. ASSUME NEW id \in LssIds, ConfigureNodeId(id) PROVE ApplicationInformed'
    BY <2>3 DEF ConfigureNodeId, NodeIdConfigured
  <2>4. ASSUME Store PROVE ApplicationInformed'
    BY <2>4 DEF Store, StoreConfiguration
  <2>5. ASSUME Inquire \/ Ignore PROVE ApplicationInformed'
    BY <2>5 DEF Inquire, Ignore
  <2>6. ASSUME TakeEvent PROVE ApplicationInformed'
    BY <2>6 DEF TakeEvent, NoEvent
  <2>7. ASSUME UNCHANGED lssVars PROVE ApplicationInformed'
    BY <2>7 DEF lssVars
  <2> QED BY <2>1, <2>2, <2>3, <2>4, <2>5, <2>6, <2>7 DEF LssNext
<1> QED BY <1>1, <1>2, PTL DEF LssSpec

-----------------------------------------------------------------------------
(* The identifier plan.                                                    *)
(* What the checks of Node::new establish about the fixed identifiers...   *)
ExtraInv ==
    /\ extra \in [rx : [Extra -> Nat], tx : [Extra -> Nat]]
    /\ \A i \in Extra : extra.rx[i] \notin {0, SdoRx(Own), LssRequest}
    /\ \A i \in Extra, j \in Extra : extra.rx[i] = extra.rx[j] => i = j

(* ...and what those of the SDO server keep true of the ones that move: no *)
(* PDO, monitor or SYNC on an SDO identifier, and no PDO or monitor on     *)
(* that of SYNC.  Two writes could break it together that are each fine    *)
(* alone, so every check has to look at all the other services.            *)
PdoInv(c) ==
    /\ c.cob \in Nat
    /\ c.cob \notin SdoCobs
    /\ c.cob # 0 => c.cob # sync
    /\ c.enabled => c.cob # 0
SyncInv == sync \in Nat \ {0, LssRequest} /\ sync \notin SdoCobs
MonitorInv ==
    \A s \in MonitoredSubs : \A n \in NodeIds :
        consumer[s] = [node |-> n, active |-> TRUE] => Heartbeat(n) \notin SdoCobs \cup {sync}

PlanInv ==
    /\ ExtraInv /\ SyncInv /\ MonitorInv
    /\ tpdo \in [Tpdos -> [cob : PlanIds, enabled : BOOLEAN]]
    /\ rpdo \in [Rpdos -> [cob : PlanIds, enabled : BOOLEAN]]
    /\ consumer \in [Subs -> [node : PlanNodes, active : BOOLEAN]]
    /\ \A t \in Tpdos : PdoInv(tpdo[t])
    /\ \A r \in Rpdos : PdoInv(rpdo[r])

-----------------------------------------------------------------------------
(* The fixed identifiers of the node, and those of heartbeats, are apart.  *)
LEMMA Places ==
    /\ SdoRx(Own) \in Nat \ {0, LssRequest} /\ SdoTx(Own) \in Nat \ {0}
    /\ \A n \in NodeIds : Heartbeat(n) \in Nat \ {0, SdoRx(Own), LssRequest}
    /\ \A n \in NodeIds : Heartbeat(n) - Heartbeat(0) = n
BY PlanConfig DEF SdoRx, SdoTx, Heartbeat, LssRequest, NodeIds

(* The identifiers of a configuration that Node::new accepts.              *)
LEMMA Constructed == ASSUME PlanInit PROVE PlanInv
<1> USE PlanConfig
<1>1. ExtraInv
  <2>1. extra \in [rx : [Extra -> Nat], tx : [Extra -> Nat]]
    BY DEF PlanInit
  <2>2. \A i \in Extra : extra.rx[i] \notin {0, SdoRx(Own), LssRequest}
    BY Zenon DEF PlanInit, SdoCobIdsAreUnique, FixedCobs
  <2>3. ASSUME NEW i \in Extra, NEW j \in Extra, extra.rx[i] = extra.rx[j], i # j PROVE FALSE
    <3>1. \A k \in Extra, l \in Extra : l > k => extra.rx[k] # extra.rx[l]
      BY Zenon DEF PlanInit, SdoCobIdsAreUnique
    <3>2. i > j \/ j > i
      BY SMTT(30), <2>3, PlanConfig
    <3> QED BY <2>3, <3>1, <3>2
  <2> QED BY <2>1, <2>2, <2>3 DEF ExtraInv
<1>2. SyncInv
  BY DEF PlanInit, SyncCobIdIsUnique, SyncInv
<1>3. SdoCobs \cap PdoCobs = {} /\ sync \notin PdoCobs
  BY DEF PlanInit, SdoCobIdsAreUnique, SyncCobIdIsUnique
<1>4. SdoCobs \cap MonitoredCobs = {} /\ sync \notin MonitoredCobs
  BY DEF PlanInit, SdoCobIdsAreUnique, SyncCobIdIsUnique
<1>5. MonitorInv
  BY Zenon, <1>4 DEF MonitorInv, MonitoredCobs, Monitored
<1>6. /\ tpdo \in [Tpdos -> [cob : PlanIds, enabled : BOOLEAN]]
      /\ rpdo \in [Rpdos -> [cob : PlanIds, enabled : BOOLEAN]]
      /\ consumer \in [Subs -> [node : PlanNodes, active : BOOLEAN]]
  BY DEF PlanInit, PdoConfig
<1>7. ASSUME NEW t \in Tpdos PROVE PdoInv(tpdo[t])
  <2>1. tpdo[t].cob \in PdoCobs /\ tpdo[t].cob \in Nat
    BY Zenon, <1>6 DEF PdoCobs
  <2> QED BY <1>3, <2>1 DEF PlanInit, PdoInv
<1>8. ASSUME NEW r \in Rpdos PROVE PdoInv(rpdo[r])
  <2>1. rpdo[r].cob \in PdoCobs /\ rpdo[r].cob \in Nat
    BY Zenon, <1>6 DEF PdoCobs
  <2> QED BY <1>3, <2>1 DEF PlanInit, PdoInv
<1> QED BY <1>1, <1>2, <1>5, <1>6, <1>7, <1>8 DEF PlanInv

(* A PDO identifier that the server accepts.                               *)
LEMMA PdoAccepted ==
    ASSUME NEW cob \in PlanIds, NEW bits, PdoWriteOk(cob, bits)
    PROVE  /\ PdoInv(PdoFrom(cob, bits))
           /\ PdoFrom(cob, bits) \in [cob : PlanIds, enabled : BOOLEAN]
BY Zenon, PlanConfig DEF PdoWriteOk, PdoFrom, PdoInv

(* Every write, accepted or refused, keeps PlanInv.                        *)
LEMMA PlanStep ==
    ASSUME PlanInv, [PlanNext]_planVars
    PROVE  PlanInv'
<1>1. ASSUME UNCHANGED <<extra, sync>>
      PROVE  /\ SdoCobs' = SdoCobs /\ (ExtraInv => ExtraInv') /\ (SyncInv => SyncInv')
             /\ \A c : PdoInv(c) => PdoInv(c)'
  BY <1>1 DEF SdoCobs, ExtraCobs, ExtraInv, SyncInv, PdoInv
<1>2. ASSUME UNCHANGED <<extra, sync, consumer>> PROVE MonitorInv => MonitorInv'
  BY <1>1, <1>2 DEF MonitorInv, MonitoredSubs
<1>3. ASSUME NEW cob \in PlanIds, NEW bits \in RawBits, NEW t \in Tpdos, WriteTpdoCob(t, cob, bits)
      PROVE  PlanInv'
  <2>1. UNCHANGED <<extra, rpdo, sync, consumer>> /\ tpdo' = [tpdo EXCEPT ![t] = PdoFrom(cob, bits)]
    BY <1>3 DEF WriteTpdoCob
  <2>2. /\ PdoInv(PdoFrom(cob, bits))
        /\ PdoFrom(cob, bits) \in [cob : PlanIds, enabled : BOOLEAN]
    BY <1>3, PdoAccepted DEF WriteTpdoCob
  <2>3. \A u \in Tpdos : PdoInv(tpdo'[u])
    BY <2>1, <2>2 DEF PlanInv
  <2> QED BY <1>1, <1>2, <2>1, <2>2, <2>3 DEF PlanInv
<1>4. ASSUME NEW cob \in PlanIds, NEW bits \in RawBits, NEW r \in Rpdos, WriteRpdoCob(r, cob, bits)
      PROVE  PlanInv'
  <2>1. UNCHANGED <<extra, tpdo, sync, consumer>> /\ rpdo' = [rpdo EXCEPT ![r] = PdoFrom(cob, bits)]
    BY <1>4 DEF WriteRpdoCob
  <2>2. /\ PdoInv(PdoFrom(cob, bits))
        /\ PdoFrom(cob, bits) \in [cob : PlanIds, enabled : BOOLEAN]
    BY <1>4, PdoAccepted DEF WriteRpdoCob
  <2>3. \A u \in Rpdos : PdoInv(rpdo'[u])
    BY <2>1, <2>2 DEF PlanInv
  <2> QED BY <1>1, <1>2, <2>1, <2>2, <2>3 DEF PlanInv
<1>5. ASSUME NEW cob \in PlanIds, NEW bits \in RawBits, WriteSyncCob(cob, bits) PROVE PlanInv'
  <2>1. UNCHANGED <<extra, tpdo, rpdo, consumer>> /\ sync' = cob /\ SdoCobs' = SdoCobs
    BY <1>5 DEF WriteSyncCob, SdoCobs, ExtraCobs
  <2>2. cob \in Nat \ {0} /\ cob \notin SdoCobs /\ cob \notin Reserved
    BY <1>5, PlanConfig DEF WriteSyncCob, SyncWriteOk, ReservedClaims
  <2>3. cob # LssRequest /\ cob \notin PdoCobs /\ cob \notin MonitoredCobs
    BY <2>2 DEF Reserved
  <2>4. ExtraInv' /\ SyncInv'
    BY <2>1, <2>2, <2>3 DEF PlanInv, ExtraInv, SyncInv
  <2>5. MonitorInv'
    BY Zenon, <2>1, <2>3 DEF PlanInv, MonitorInv, MonitoredCobs, Monitored, MonitoredSubs
  <2>6. ASSUME NEW t \in Tpdos PROVE PdoInv(tpdo[t])'
    BY <2>1, <2>3 DEF PlanInv, PdoInv, PdoCobs
  <2>7. ASSUME NEW r \in Rpdos PROVE PdoInv(rpdo[r])'
    BY <2>1, <2>3 DEF PlanInv, PdoInv, PdoCobs
  <2> QED BY <2>1, <2>4, <2>5, <2>6, <2>7 DEF PlanInv
<1>6. ASSUME NEW s \in Subs, NEW node \in PlanNodes, NEW active \in BOOLEAN,
             WriteConsumer(s, node, active)
      PROVE  PlanInv'
  <2>1. /\ UNCHANGED <<extra, tpdo, rpdo, sync>>
        /\ consumer' = [consumer EXCEPT ![s] = [node |-> node, active |-> active]]
    BY <1>6 DEF WriteConsumer
  <2>2. active /\ s <= MaxMonitors => Heartbeat(node) \notin SdoCobs \cup {sync}
    BY <1>6 DEF WriteConsumer, ConsumerWriteOk
  <2>3. MonitorInv'
    <3> SUFFICES ASSUME NEW z \in MonitoredSubs, NEW n \in NodeIds,
                        consumer'[z] = [node |-> n, active |-> TRUE]
                 PROVE  Heartbeat(n) \notin SdoCobs \cup {sync}
      BY <1>1, <2>1 DEF MonitorInv, MonitoredSubs
    <3>1. z \in Subs /\ z <= MaxMonitors
      BY DEF MonitoredSubs
    <3>2. CASE z = s
      <4>1. consumer'[z] = [node |-> node, active |-> active]
        BY <2>1, <3>1, <3>2 DEF PlanInv
      <4>2. node = n /\ active
        BY <4>1
      <4> QED BY <2>2, <3>1, <3>2, <4>2
    <3>3. CASE z # s
      <4>1. consumer'[z] = consumer[z]
        BY <2>1, <3>1, <3>3 DEF PlanInv
      <4> QED BY <4>1 DEF PlanInv, MonitorInv
    <3> QED BY <3>2, <3>3
  <2> QED BY <1>1, <2>1, <2>3 DEF PlanInv
<1>7. ASSUME UNCHANGED planVars PROVE PlanInv'
  BY <1>1, <1>2, <1>7 DEF planVars, PlanInv
<1> QED BY <1>3, <1>4, <1>5, <1>6, <1>7 DEF PlanNext

-----------------------------------------------------------------------------
(* Under PlanInv a frame reaches the services that own its identifier.     *)
LEMMA Reached == ASSUME PlanInv PROVE ServicesReached
<1> USE Places, PlanConfig DEF NMT
<1>1. \A i \in Extra : extra.rx[i] \in SdoCobs
  BY Zenon DEF PlanInv, ExtraInv, SdoCobs, ExtraCobs
<1>2. SdoRx(Own) \in SdoCobs
  BY DEF SdoCobs
<1>3. \A i \in Extra : extra.rx[i] # sync /\ extra.rx[i] # 0 /\ extra.rx[i] # SdoRx(Own)
                       /\ extra.rx[i] # LssRequest
  BY <1>1 DEF PlanInv, ExtraInv, SyncInv
<1>4. sync # 0 /\ sync # SdoRx(Own) /\ sync # LssRequest
  BY <1>2 DEF PlanInv, SyncInv
<1>5. ASSUME NEW i \in Extra PROVE Dispatch(extra.rx[i], 8) = <<"extra", i>>
  <2> DEFINE First(k) == extra.rx[k] = extra.rx[i] /\ \A j \in Extra : extra.rx[j] = extra.rx[i] => k <= j
  <2>1. \A k \in Extra : First(k) <=> k = i
    BY DEF PlanInv, ExtraInv
  <2> HIDE DEF First
  <2>2. (CHOOSE k \in Extra : First(k)) = i
    BY <2>1
  <2> QED BY Zenon, <2>2 DEF Dispatch, First
<1>6. Dispatch(sync, 0) = <<"sync", 0>>
  BY <1>3 DEF Dispatch
<1>7. Dispatch(NMT, 2) = <<"nmt", 0>>
  BY <1>3, <1>4 DEF Dispatch
<1>8. Dispatch(SdoRx(Own), 8) = <<"sdo", 0>>
  BY <1>3, <1>4 DEF Dispatch
<1>9. Dispatch(LssRequest, 8) = <<"lss", 0>>
  <2>1. LssRequest # 0
    BY DEF LssRequest
  <2> QED BY <1>3, <1>4, <2>1 DEF Dispatch
<1>10. ASSUME NEW n \in Monitored PROVE Dispatch(Heartbeat(n), 1) = <<"monitor", n>>
  <2>1. n \in NodeIds /\ Heartbeat(n) \in MonitoredCobs
    BY Zenon DEF Monitored, MonitoredCobs
  <2>2. Heartbeat(n) \notin SdoCobs \cup {sync}
    BY DEF PlanInv, MonitorInv, Monitored
  <2>3. \A i \in Extra : extra.rx[i] # Heartbeat(n)
    BY <1>1, <2>2
  <2> HIDE DEF Heartbeat, SdoRx, LssRequest
  <2> QED BY <2>1, <2>2, <2>3 DEF Dispatch
<1>11. ASSUME NEW r \in Rpdos, rpdo[r].enabled, rpdo[r].cob # LssRequest
       PROVE  Dispatch(rpdo[r].cob, 8) = <<"rpdo", 0>>
  <2>1. rpdo[r].cob \notin SdoCobs /\ rpdo[r].cob # 0 /\ rpdo[r].cob # sync
    BY <1>11 DEF PlanInv, PdoInv
  <2>2. rpdo[r].cob # SdoRx(Own) /\ \A i \in Extra : extra.rx[i] # rpdo[r].cob
    BY <1>1, <1>2, <2>1
  <2> QED BY <1>11, <2>1, <2>2 DEF Dispatch
<1>12. \A t \in Tpdos : tpdo[t].cob \notin SdoCobs
  BY DEF PlanInv, PdoInv
<1> QED BY <1>5, <1>6, <1>7, <1>8, <1>9, <1>10, <1>11, <1>12 DEF ServicesReached

(* Whatever clients write, in any order, every frame is dispatched to the  *)
(* service that owns its identifier (Node::new, the write checks of the    *)
(* SDO server and Node::dispatch_frame).                                   *)
THEOREM PlanServicesReached == PlanSpec => []ServicesReached
<1>1. PlanInit => PlanInv
  BY Constructed
<1>2. PlanInv /\ [PlanNext]_planVars => PlanInv'
  BY PlanStep
<1>3. PlanInv => ServicesReached
  BY Reached
<1> QED BY <1>1, <1>2, <1>3, PTL DEF PlanSpec
=============================================================================
