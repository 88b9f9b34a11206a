-------------------------------- MODULE Emcy --------------------------------
(***************************************************************************)
(* The emergency (EMCY) producer of a node: canopen-core/src/emcy.rs and   *)
(* the part of canopen-core/src/node.rs that drives it (set_error,         *)
(* clear_error, clear_all_errors and the transmission loop of process()).  *)
(*                                                                         *)
(* An error register is a set of bits, a frame is the register byte it     *)
(* carries and whether its code is NoError.  Error codes and vendor bytes  *)
(* influence no decision and are left out.  The queue is a heapless Deque  *)
(* of QueueCap frames (4 in the code) that evicts its oldest entry.        *)
(*                                                                         *)
(* raised, sent and announced are history variables: how many frames were  *)
(* ever queued, how many the transport accepted, and the last of those.    *)
(***************************************************************************)
EXTENDS Integers, Sequences

CONSTANTS Categories,   \* the register bits other than GENERIC
          GENERIC,      \* bit 0 of the register
          QueueCap,     \* capacity of the pending queue
          MaxRaised     \* bound on the frames queued in one behaviour

ASSUME GenericAssumption == GENERIC \notin Categories
ASSUME QueueCapAssumption == QueueCap \in Nat \ {0}
ASSUME MaxRaisedAssumption == MaxRaised \in Nat

Bits == Categories \cup {GENERIC}
Frame == [reset : BOOLEAN, reg : SUBSET Bits, no : Nat]

VARIABLES error_register,  \* EmcyProducer::error_register
          pending,         \* EmcyProducer::pending
          dropped,         \* EmcyProducer::dropped
          od_1001,         \* OD entry 0x1001
          raised, sent, announced

vars == <<error_register, pending, dropped, od_1001, raised, sent, announced>>

-----------------------------------------------------------------------------
(* Mutated forms of the definitions below, used only to test properties.   *)

QueueKeepsOldest(f) ==
    IF Len(pending) >= QueueCap
      THEN /\ pending' = pending
           /\ dropped' = dropped + 1
      ELSE /\ pending' = Append(pending, f)
           /\ UNCHANGED dropped

-----------------------------------------------------------------------------
Init ==
    /\ error_register = {}
    /\ pending = <<>>
    /\ dropped = 0
    /\ od_1001 = {}
    /\ raised = 0
    /\ sent = 0
    /\ announced = [reset |-> TRUE, reg |-> {}, no |-> 0]

(* EmcyProducer::queue: a full queue gives up its oldest frame.            *)
Queue(f) ==
    IF Len(pending) >= QueueCap
      THEN /\ pending' = Append(Tail(pending), f)
           /\ dropped' = dropped + 1
      ELSE /\ pending' = Append(pending, f)
           /\ UNCHANGED dropped

(* Node::mirror_error_register: OD 0x1001 follows the producer.            *)
MirrorErrorRegister == od_1001' = error_register'

Announce(isReset, reg) ==
    /\ raised < MaxRaised
    /\ raised' = raised + 1
    /\ Queue([reset |-> isReset, reg |-> reg, no |-> raised + 1])

SetError(bits) ==
    /\ error_register' = error_register \cup bits \cup {GENERIC}
    /\ Announce(FALSE, error_register')
    /\ MirrorErrorRegister
    /\ UNCHANGED <<sent, announced>>

(* The register after clear_error: GENERIC stays while a category remains  *)
(* and goes with the last category.                                        *)
Cleared(bits) ==
    LET left == error_register \ bits
        clearedCategories == (error_register \cap bits) \ {GENERIC}
    IN  IF left \ {GENERIC} # {} THEN left \cup {GENERIC}
        ELSE IF clearedCategories # {} THEN {}
        ELSE left

ClearError(bits) ==
    /\ error_register' = Cleared(bits)
    /\ IF error_register # {} /\ error_register' = {}
         THEN Announce(TRUE, {})
         ELSE UNCHANGED <<pending, dropped, raised>>
    /\ MirrorErrorRegister
    /\ UNCHANGED <<sent, announced>>

ClearAll ==
    /\ error_register' = {}
    /\ Announce(TRUE, {})
    /\ MirrorErrorRegister
    /\ UNCHANGED <<sent, announced>>

(* The EMCY loop of Node::process in Pre-Operational or Operational: the   *)
(* transport accepts the n oldest frames and then refuses, or the queue    *)
(* runs empty.  Each frame leaves the queue only once it was accepted.     *)
Transmit(n) ==
    /\ n \in 1..Len(pending)
    /\ announced' = pending[n]
    /\ pending' = SubSeq(pending, n + 1, Len(pending))
    /\ sent' = sent + n
    /\ UNCHANGED <<error_register, dropped, od_1001, raised>>

Next ==
    \/ \E bits \in SUBSET Bits : SetError(bits) \/ ClearError(bits)
    \/ ClearAll
    \/ \E n \in 1..QueueCap : Transmit(n)

Spec == Init /\ [][Next]_vars

-----------------------------------------------------------------------------
TypeOK ==
    /\ error_register \in SUBSET Bits
    /\ pending \in Seq(Frame)
    /\ Len(pending) <= QueueCap
    /\ dropped \in Nat
    /\ od_1001 \in SUBSET Bits
    /\ raised \in Nat
    /\ sent \in Nat
    /\ announced \in Frame

(* The last frame the producer has to say: the newest queued one, or the   *)
(* last one on the bus when nothing is queued.                             *)
Latest == IF pending = <<>> THEN announced ELSE pending[Len(pending)]

(* The bus never underreports: the newest frame carries every bit that is  *)
(* set now, and says "no error" when and only when the register is clear.  *)
(* clear_error of some of several categories sends nothing, so the frame   *)
(* may carry more bits than the register, but eviction on overflow, which  *)
(* drops the oldest frame, never hides an active error or a final reset.   *)
BusNeverUnderreports ==
    /\ error_register \subseteq Latest.reg
    /\ error_register = {} <=> Latest.reset

(* GENERIC is set exactly while some error is, and OD 0x1001, which SDO    *)
(* clients read, agrees with the producer after every call.                *)
RegisterCoherent ==
    /\ error_register # {} => GENERIC \in error_register
    /\ od_1001 = error_register

(* Every frame ever queued is on the bus, queued or counted in dropped.    *)
EveryFrameAccounted == raised = sent + Len(pending) + dropped

(* Frames reach the bus in the order of the reports and none twice: the    *)
(* queue is increasing and everything in it is newer than the bus' last.   *)
InReportOrder ==
    /\ \A i, j \in 1..Len(pending) : i < j => pending[i].no < pending[j].no
    /\ \A i \in 1..Len(pending) : announced.no < pending[i].no
=============================================================================
