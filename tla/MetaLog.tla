------------------------------ MODULE MetaLog -------------------------------
(***************************************************************************)
(* The update metadata log of examples/emdm-fwupdate (common/src/lib.rs):  *)
(* a flash page of record slots, appended to and never modified, erased    *)
(* only when no erased slot is left.  It implements MetaRegister.          *)
(*                                                                         *)
(* A slot is erased ("free"), holds a record whose CRC checks ("rec") or   *)
(* anything else ("junk": a torn record, or bytes of some other firmware). *)
(* A record is its sequence number, which wraps, and its content.          *)
(*                                                                         *)
(* The updater reads the log once at boot and keeps the record in RAM; the *)
(* application reads it anew for every append.  Faults: power may fail in  *)
(* every step, a flash operation may report an error.  An erase that did   *)
(* not complete leaves the page as it was or without a valid record.       *)
(***************************************************************************)
EXTENDS Integers

CONSTANTS Contents, Blank,
          MetaSlots,    \* META_SLOTS
          SeqRange        \* sequence numbers are modulo SeqRange (2^32)

ASSUME ContentsAssumption == Blank \in Contents
ASSUME SlotsAssumption ==
    /\ MetaSlots \in Nat \ {0} /\ SeqRange \in Nat
    /\ 2 * MetaSlots < SeqRange \div 2

Slots == 1..MetaSlots
Seqs == 0..(SeqRange - 1)
Record == [seq : Seqs, content : Contents]
BLANK == [seq |-> 0, content |-> Blank]

VARIABLES page,     \* [Slots -> slot]
          mode,     \* "off", "app" or "updater"
          ram,      \* the updater's copy of the record in force
          op,       \* the record append_meta is writing: {} or {record}
          result    \* of the last append: "off", "up", "busy", "ok" or "err"

vars == <<page, mode, ram, op, result>>

Free == [kind |-> "free", rec |-> BLANK]
Junk == [kind |-> "junk", rec |-> BLANK]
Holds(r) == [kind |-> "rec", rec |-> r]
Erased == [s \in Slots |-> Free]
Wrecked == [s \in Slots |-> Junk]

Init ==
    /\ page \in [Slots -> {Free, Junk}]
    /\ mode = "off" /\ ram = BLANK /\ op = {} /\ result = "off"

(* Mutated form of Newer: no wrapping order.                               *)
NewerUnwrapped(r, b) == r.seq > b.seq

(* The order of sequence numbers, which wrap.                              *)
Newer(r, b) == r.seq # b.seq /\ (r.seq - b.seq) % SeqRange < SeqRange \div 2

(* scan_meta: one pass over the slots.                                     *)
Scan(p) ==
    LET best[s \in 0..MetaSlots] ==
            IF s = 0 THEN {}
            ELSE IF p[s].kind = "rec" /\ \A b \in best[s - 1] : Newer(p[s].rec, b)
                   THEN {p[s].rec}
                   ELSE best[s - 1]
    IN  IF best[MetaSlots] = {} THEN BLANK ELSE CHOOSE b \in best[MetaSlots] : TRUE

(* Mutated form of FirstFree: the slot behind the last record.             *)
FirstFreeBehindRecords(p) ==
    {s \in Slots : /\ p[s].kind # "rec"
                   /\ s = 1 \/ p[s - 1].kind = "rec"
                   /\ \A t \in Slots : t > s => p[t].kind # "rec"}

(* The first slot that is entirely erased, if any.                         *)
FirstFree(p) ==
    {s \in Slots : p[s] = Free /\ \A t \in Slots : t < s => p[t] # Free}

(* MetaRecord::next.                                                       *)
NextGeneration(r, c) == [seq |-> (r.seq + 1) % SeqRange, content |-> c]

-----------------------------------------------------------------------------
(* A reset: which image runs is decided by the content, see FwUpdate.      *)
PowerOn ==
    /\ mode = "off"
    /\ mode' \in {"app", "updater"}
    /\ ram' = Scan(page)
    /\ result' = "up"
    /\ UNCHANGED <<page, op>>

(* append_meta is called: by the application with the record it just read, *)
(* by the updater with the next generation of its copy.  The very first    *)
(* append of the updater, which clears the update request, changes the     *)
(* copy whether or not the append succeeds.                                *)
Start(c) ==
    /\ mode # "off" /\ op = {}
    /\ LET base == IF mode = "app" THEN Scan(page) ELSE ram
       IN  /\ op' = {NextGeneration(base, c)}
           /\ ram' \in {ram} \cup (IF mode = "updater" /\ result = "up"
                                     THEN {NextGeneration(base, c)} ELSE {})
    /\ result' = "busy"
    /\ UNCHANGED <<page, mode>>

Full == op # {} /\ FirstFree(page) = {}

Erase ==
    /\ Full
    /\ page' = Erased
    /\ UNCHANGED <<mode, ram, op, result>>

EraseFails ==
    /\ Full
    /\ page' \in {page, Wrecked}
    /\ op' = {} /\ result' = "err"
    /\ UNCHANGED <<mode, ram>>

(* A slot that is not erased cannot be programmed.                         *)
Write ==
    \E s \in FirstFree(page), r \in op :
        /\ page[s] = Free
        /\ page' = [page EXCEPT ![s] = Holds(r)]
        /\ ram' = r
        /\ op' = {} /\ result' = "ok"
        /\ UNCHANGED mode

WriteFails ==
    \E s \in FirstFree(page), r \in op :
        /\ page' = [page EXCEPT ![s] = Junk]
        /\ op' = {} /\ result' = "err"
        /\ UNCHANGED <<mode, ram>>

(* What a power loss may leave of the page.                                *)
Interrupted ==
    {page} \cup (IF Full THEN {Wrecked} ELSE {})
           \cup {[page EXCEPT ![s] = x] : s \in FirstFree(page),
                                          x \in {Junk} \cup {Holds(r) : r \in op}}

PowerLoss ==
    /\ mode # "off" /\ mode' = "off"
    /\ page' \in IF op = {} THEN {page} ELSE Interrupted
    /\ ram' = BLANK /\ op' = {} /\ result' = "off"

Next ==
    \/ PowerOn \/ Erase \/ EraseFails \/ Write \/ WriteFails \/ PowerLoss
    \/ \E c \in Contents : Start(c)

Spec == Init /\ [][Next]_vars

(* Now and then the device has power, and the flash works, for long enough *)
(* to complete each of the steps.                                          *)
Fairness ==
    /\ SF_vars(PowerOn) /\ SF_vars(Erase) /\ SF_vars(Write)
    /\ SF_vars(\E c \in Contents : Start(c))

FairSpec == Spec /\ Fairness

-----------------------------------------------------------------------------
TypeOK ==
    /\ page \in [Slots -> [kind : {"free", "junk", "rec"}, rec : Record]]
    /\ mode \in {"off", "app", "updater"}
    /\ ram \in Record
    /\ op \in {{}} \cup {{r} : r \in Record}

(* Whatever the page held before, however often power fails and sequence   *)
(* numbers wrap, the log behaves like one register: scan_meta returns what *)
(* the last acknowledged append_meta wrote, and nothing but an append in   *)
(* progress ever changes it.                                               *)
Register == INSTANCE MetaRegister
    WITH value <- Scan(page).content,
         offered <- {r.content : r \in op}

IsRegister == Register!Spec

(* A page full of torn records or of another firmware's bytes does not     *)
(* keep the node from recording: appends go on succeeding.                 *)
KeepsRecording == []<>(result = "ok")
=============================================================================
