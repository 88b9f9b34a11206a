------------------------------ MODULE FwUpdate ------------------------------
(***************************************************************************)
(* The firmware updater of examples/emdm-fwupdate: the boot decision, the  *)
(* updater (bootloader/src/main.rs) and the application's request to enter *)
(* it (app/src/main.rs), with power loss at every flash operation.         *)
(*                                                                         *)
(* The metadata is the register that MetaRegister specifies and MetaLog    *)
(* implements: inForce is the record in force.  The application slot is an *)
(* array of bytes, written in words of WriteSize and erased in pages of    *)
(* PageSize; a word is only programmed when it is erased.  A CRC is the    *)
(* sequence it was computed over, that is, CRCs tell the images that occur *)
(* apart.                                                                  *)
(*                                                                         *)
(* An SDO write is checked and stored by process(), which queues an OD     *)
(* event; handle_changes drains the queue later, reads the OD as it is     *)
(* then, and does the flash work.  Both run on one executor: no SDO is     *)
(* processed while the queue is drained (pc # "run").  A host that waits   *)
(* for each answer finds the queue empty; Pipelined says it may not wait.  *)
(***************************************************************************)
EXTENDS Integers, Sequences

CONSTANTS Bytes,       \* values of a byte
          FF,          \* the erased byte, one of Bytes
          JunkByte,    \* what a torn word reads as
          Images,      \* the images whose CRC a host may declare
          Plausible,   \* contents whose vector table is plausible
          Chunks,      \* the chunks a host may send
          Lengths,     \* the lengths a host may declare
          WriteSize, PageSize, AppSize,
          EvtCap,      \* capacity of the OD event queue
          Pipelined    \* hosts may write before earlier events are handled

ASSUME BytesAssumption == FF \in Bytes /\ JunkByte \notin Bytes
ASSUME SizesAssumption ==
    /\ WriteSize \in Nat \ {0} /\ PageSize \in Nat \ {0} /\ AppSize \in Nat \ {0}
    /\ AppSize % PageSize = 0 /\ PageSize % WriteSize = 0
ASSUME ImagesAssumption == Images \subseteq Seq(Bytes) /\ Chunks \subseteq Seq(Bytes)
ASSUME LengthsAssumption == Lengths \subseteq 1..AppSize
ASSUME EvtCapAssumption == EvtCap \in Nat \ {0}
ASSUME PipelinedAssumption == Pipelined \in BOOLEAN

VARIABLES inForce,     \* flash: the metadata record in force
          app,         \* flash: the application slot
          mode,        \* what runs: "off", "app" or "updater"
          pc,          \* where the running image is
          ram,         \* the updater's copy of the metadata
          prog,        \* Programmer
          od,          \* the updater's object dictionary
          evq,         \* OD events: "chunk", "cmd", "other"
          overlapped,  \* history: a write came before an earlier one was handled
          unrequested  \* history: the update request could be cleared

vars == <<inForce, app, mode, pc, ram, prog, od, evq, overlapped, unrequested>>
ramVars == <<ram, prog, od, evq>>

Slot == 1..AppSize
Meta == [valid : BOOLEAN, len : 0..AppSize, crc : Images \cup {<<>>}, req : BOOLEAN]
BLANK == [valid |-> FALSE, len |-> 0, crc |-> <<>>, req |-> FALSE]

(* Mutated form of Invalidated: the record still describes the old image.  *)
InvalidatedStill(m) == m

Invalidated(m) == [m EXCEPT !.valid = FALSE, !.len = 0, !.crc = <<>>]

OdType ==
    [status : {"idle", "programming", "valid", "error"},
     len : 0..AppSize, written : 0..AppSize, crc : Images \cup {<<>>},
     chunk : Chunks \cup {<<>>}, cmd : {"none", "clear", "validate", "reset"}]

ProgrammerNew == [accepted |-> 0, flushed |-> 0, pending |-> <<>>]
OdNew == [status |-> "idle", len |-> 0, written |-> 0, crc |-> <<>>, chunk |-> <<>>, cmd |-> "none"]

-----------------------------------------------------------------------------
(* app_image, app_vector_table_plausible and app_image_verifies.           *)
Image(a, n) == [i \in 1..n |-> a[i]]
Verifies(m, a) == m.len \in Slot /\ Image(a, m.len) = m.crc /\ m.crc \in Plausible

(* main(): what a reset starts.                                            *)
NextBoot(m, a) == IF ~ m.req /\ m.valid /\ Verifies(m, a) THEN "app" ELSE "updater"

(* Flash operations.  A write that fails or is cut off has programmed some *)
(* words and perhaps torn the next one.                                    *)
Programmed(a, at, d) == [i \in Slot |-> IF i \in (at + 1)..(at + Len(d)) THEN d[i - at] ELSE a[i]]
CanProgram(a, at, d) == at + Len(d) <= AppSize /\ \A i \in (at + 1)..(at + Len(d)) : a[i] = FF
Torn(a, at, d) ==
    LET words == {k \in 0..Len(d) : k % WriteSize = 0 /\ CanProgram(a, at, SubSeq(d, 1, k))}
        torn(k) == [i \in Slot |-> IF i \in (at + k + 1)..(at + k + WriteSize) THEN JunkByte
                                   ELSE Programmed(a, at, SubSeq(d, 1, k))[i]]
    IN  {Programmed(a, at, SubSeq(d, 1, k)) : k \in words} \cup {torn(k) : k \in words \ {Len(d)}}

ErasedTo(a, n) == [i \in Slot |-> IF i <= n THEN FF ELSE a[i]]
PagesFor(len) == (len + PageSize - 1) \div PageSize
PartErased(a, pages) ==
    {[i \in Slot |-> IF i <= k * PageSize THEN FF
                     ELSE IF i <= (k + 1) * PageSize THEN x ELSE a[i]] :
        k \in 0..(pages - 1), x \in {FF, JunkByte}} \cup {a}

-----------------------------------------------------------------------------
(* Programmer::push: the tail carried over is topped up first, then the    *)
(* aligned bulk is written, then the rest is carried.                      *)
Topped(p, d) ==
    LET room == WriteSize - Len(p.pending)
    IN  IF p.pending = <<>> THEN 0 ELSE IF room < Len(d) THEN room ELSE Len(d)
Word(p, d) == p.pending \o SubSeq(d, 1, Topped(p, d))
Rest(p, d) == SubSeq(d, Topped(p, d) + 1, Len(d))
Aligned(p, d) == Len(Rest(p, d)) - (Len(Rest(p, d)) % WriteSize)
TopUp(p, d) == IF p.pending # <<>> /\ Len(Word(p, d)) = WriteSize THEN Word(p, d) ELSE <<>>
Bulk(p, d) == TopUp(p, d) \o SubSeq(Rest(p, d), 1, Aligned(p, d))

Pushed(p, d) ==
    [accepted |-> p.accepted + Len(d),
     flushed |-> p.flushed + Len(Bulk(p, d)),
     pending |-> SubSeq(Rest(p, d), Aligned(p, d) + 1, Len(Rest(p, d)))]

(* What a push may leave when one of its two writes fails, or when power   *)
(* is lost in it.                                                          *)
PushCut(p, d, a) ==
    LET top == TopUp(p, d)
        rest == SubSeq(Rest(p, d), 1, Aligned(p, d))
    IN  (IF top = <<>> THEN {} ELSE
           {[prog |-> [p EXCEPT !.pending = top], app |-> x] : x \in Torn(a, p.flushed, top)})
        \cup (IF rest = <<>> \/ ~ CanProgram(a, p.flushed, top) THEN {} ELSE
           {[prog |-> [p EXCEPT !.pending = <<>>, !.flushed = @ + Len(top)], app |-> x] :
               x \in Torn(Programmed(a, p.flushed, top), p.flushed + Len(top), rest)})

(* Programmer::finish: the carried tail, padded with erased bytes.         *)
Padded(p) ==
    IF p.pending = <<>> THEN <<>>
    ELSE [i \in 1..WriteSize |-> IF i <= Len(p.pending) THEN p.pending[i] ELSE FF]
Finished(p) == [p EXCEPT !.pending = <<>>, !.flushed = @ + Len(Padded(p))]

-----------------------------------------------------------------------------
Init ==
    /\ inForce = BLANK
    /\ app \in {[i \in Slot |-> b] : b \in {FF, JunkByte}}
    /\ mode = "off" /\ pc = "off"
    /\ ram = BLANK /\ prog = ProgrammerNew /\ od = OdNew /\ evq = <<>>
    /\ overlapped = FALSE /\ unrequested = TRUE

(* main() and the beginning of updater().                                  *)
PowerOn ==
    /\ mode = "off"
    /\ mode' = NextBoot(inForce, app)
    /\ pc' = IF mode' = "updater" /\ inForce.req THEN "start" ELSE "run"
    /\ ram' = inForce
    /\ prog' = ProgrammerNew /\ od' = OdNew /\ evq' = <<>>
    /\ overlapped' = FALSE
    /\ UNCHANGED <<inForce, app, unrequested>>

(* The end of a session: all that was in RAM is gone.                      *)
Off ==
    /\ mode' = "off" /\ pc' = "off"
    /\ ram' = BLANK /\ prog' = ProgrammerNew /\ od' = OdNew /\ evq' = <<>>

(* append_meta, as MetaRegister promises it.                               *)
Acked(m) == inForce' = m
Nacked == inForce' \in {inForce, BLANK}

(* enter_update in the application, then the reset.                        *)
EnterUpdate ==
    /\ mode = "app"
    /\ \/ Acked([inForce EXCEPT !.req = TRUE]) /\ Off
       \/ Nacked /\ UNCHANGED <<mode, pc, ramVars>>
    /\ UNCHANGED <<app, overlapped, unrequested>>

(* updater: clear the one-shot request, in the copy in any case.           *)
Unrequested(m) == [m EXCEPT !.req = FALSE]

ClearRequest ==
    /\ pc = "start" /\ pc' = "run"
    /\ ram' = Unrequested(ram)
    /\ \/ Acked(Unrequested(ram)) /\ unrequested' = TRUE
       \/ Nacked /\ unrequested' = FALSE
    /\ UNCHANGED <<app, mode, prog, od, evq, overlapped>>

-----------------------------------------------------------------------------
(* SDO writes: check_write, the store and the OD event.                    *)
Queued(q, e) == Append(IF Len(q) = EvtCap THEN Tail(q) ELSE q, e)

Accepting == mode = "updater" /\ pc = "run" /\ (Pipelined \/ evq = <<>>)

Stored(o, e) ==
    /\ od' = o
    /\ evq' = Queued(evq, e)
    /\ overlapped' = (overlapped \/ evq # <<>>)
    /\ UNCHANGED <<inForce, app, mode, pc, ram, prog, unrequested>>

WriteChunk(d) ==
    /\ Accepting
    /\ od.status = "programming" /\ od.written + Len(d) <= od.len
    /\ Stored([od EXCEPT !.chunk = d], "chunk")

WriteLength(n) ==
    /\ Accepting
    /\ Stored([od EXCEPT !.len = n], "other")

WriteCrc(c) ==
    /\ Accepting
    /\ Stored([od EXCEPT !.crc = c], "other")

(* Mutated form of CommandAllowed: validate is taken in every state.       *)
CommandAllowedAnyState(c) == c = "clear" => od.len # 0

CommandAllowed(c) ==
    /\ c = "clear" => od.len # 0
    /\ c = "validate" => od.status = "programming"

WriteCommand(c) ==
    /\ Accepting
    /\ CommandAllowed(c)
    /\ Stored([od EXCEPT !.cmd = c], "cmd")

-----------------------------------------------------------------------------
(* handle_changes: the next event; the OD is read now, not when the event  *)
(* was queued.                                                             *)
Loop(q) == IF q = <<>> THEN "run" ELSE "drain"

Handler(e, q) == IF e = "chunk" THEN "push" ELSE IF e = "cmd" THEN od.cmd ELSE Loop(q)

NextChange ==
    /\ pc \in {"run", "drain"} /\ evq # <<>>
    /\ evq' = Tail(evq)
    /\ pc' = Handler(Head(evq), evq')
    /\ UNCHANGED <<inForce, app, mode, ram, prog, od, overlapped, unrequested>>

Push ==
    /\ pc = "push"
    /\ prog.accepted + Len(od.chunk) <= AppSize
    /\ CanProgram(app, prog.flushed, Bulk(prog, od.chunk))
    /\ app' = Programmed(app, prog.flushed, Bulk(prog, od.chunk))
    /\ prog' = Pushed(prog, od.chunk)
    /\ od' = [od EXCEPT !.written = prog'.accepted]
    /\ pc' = Loop(evq)
    /\ UNCHANGED <<inForce, mode, ram, evq, overlapped, unrequested>>

PushFails ==
    /\ pc = "push" /\ pc' = "fail"
    /\ \/ /\ prog.accepted + Len(od.chunk) > AppSize
          /\ UNCHANGED <<app, prog>>
       \/ /\ prog.accepted + Len(od.chunk) <= AppSize
          /\ \E x \in PushCut(prog, od.chunk, app) : app' = x.app /\ prog' = x.prog
    /\ UNCHANGED <<inForce, mode, ram, od, evq, overlapped, unrequested>>

(* clear: invalidate, then erase.                                          *)
Clear ==
    /\ pc = "clear"
    /\ Acked(Invalidated(ram)) /\ ram' = Invalidated(ram)
    /\ pc' = "erase"
    /\ UNCHANGED <<app, mode, prog, od, evq, overlapped, unrequested>>

ClearFails ==
    /\ pc = "clear" /\ pc' = "fail"
    /\ Nacked
    /\ UNCHANGED <<app, mode, ramVars, overlapped, unrequested>>

Erase ==
    /\ pc = "erase" /\ pc' = Loop(evq)
    /\ app' = ErasedTo(app, PagesFor(od.len) * PageSize)
    /\ prog' = ProgrammerNew
    /\ od' = [od EXCEPT !.written = 0, !.status = "programming"]
    /\ UNCHANGED <<inForce, mode, ram, evq, overlapped, unrequested>>

EraseFails ==
    /\ pc = "erase" /\ pc' = "fail"
    /\ app' \in PartErased(app, PagesFor(od.len))
    /\ UNCHANGED <<inForce, mode, ramVars, overlapped, unrequested>>

(* validate: flush, compare with what the host declared, mark.             *)
Finish ==
    /\ pc = "validate" /\ pc' = "verify"
    /\ CanProgram(app, prog.flushed, Padded(prog))
    /\ app' = Programmed(app, prog.flushed, Padded(prog))
    /\ prog' = Finished(prog)
    /\ UNCHANGED <<inForce, mode, ram, od, evq, overlapped, unrequested>>

FinishFails ==
    /\ pc = "validate" /\ pc' = "fail"
    /\ prog.pending # <<>>
    /\ app' \in Torn(app, prog.flushed, Padded(prog))
    /\ prog' = [prog EXCEPT !.pending = <<>>]
    /\ UNCHANGED <<inForce, mode, ram, od, evq, overlapped, unrequested>>

Candidate == [ram EXCEPT !.valid = TRUE, !.len = od.len, !.crc = od.crc]

(* Mutated form of Intact: the CRC of the received image is not compared.  *)
IntactUnchecked(a) == prog.accepted = od.len /\ od.len \in Slot

Intact(a) ==
    /\ prog.accepted = od.len
    /\ od.len \in Slot /\ Image(a, od.len) = od.crc
    /\ od.crc \in Plausible

Verify ==
    /\ pc = "verify"
    /\ pc' = IF Intact(app) THEN "mark" ELSE "fail"
    /\ UNCHANGED <<inForce, app, mode, ramVars, overlapped, unrequested>>

Mark ==
    /\ pc = "mark" /\ pc' = Loop(evq)
    /\ Acked(Candidate) /\ ram' = Candidate
    /\ od' = [od EXCEPT !.status = "valid"]
    /\ UNCHANGED <<app, mode, prog, evq, overlapped, unrequested>>

MarkFails ==
    /\ pc = "mark" /\ pc' = "fail"
    /\ Nacked
    /\ UNCHANGED <<app, mode, ramVars, overlapped, unrequested>>

(* fail: the slot is marked invalid, if the copy says it is valid.         *)
Fail ==
    /\ pc = "fail" /\ pc' = Loop(evq)
    /\ \/ ~ ram.valid /\ UNCHANGED <<inForce, ram>>
       \/ ram.valid /\ Acked(Invalidated(ram)) /\ ram' = Invalidated(ram)
       \/ ram.valid /\ Nacked /\ UNCHANGED ram
    /\ od' = [od EXCEPT !.status = "error"]
    /\ UNCHANGED <<app, mode, prog, evq, overlapped, unrequested>>

(* The reset command.                                                      *)
ResetCommand ==
    /\ pc = "reset"
    /\ Off
    /\ UNCHANGED <<inForce, app, overlapped, unrequested>>

-----------------------------------------------------------------------------
(* What the flash may hold when power is lost: the record that was being   *)
(* appended, or none, and a slot that was being programmed or erased.      *)
Appending(m) == inForce' \in {BLANK, m}

MetaCut ==
    \/ UNCHANGED inForce
    \/ pc = "start" /\ Appending(Unrequested(ram))
    \/ pc = "clear" /\ Appending(Invalidated(ram))
    \/ pc = "fail" /\ ram.valid /\ Appending(Invalidated(ram))
    \/ pc = "mark" /\ Appending(Candidate)
    \/ mode = "app" /\ Appending([inForce EXCEPT !.req = TRUE])

AppCut ==
    \/ UNCHANGED app
    \/ pc = "push" /\ \E x \in PushCut(prog, od.chunk, app) : app' = x.app
    \/ pc = "erase" /\ app' \in PartErased(app, PagesFor(od.len))
    \/ pc = "validate" /\ app' \in Torn(app, prog.flushed, Padded(prog))

PowerLoss ==
    /\ mode # "off"
    /\ MetaCut /\ AppCut
    /\ Off
    /\ UNCHANGED <<overlapped, unrequested>>

SdoWrite ==
    \/ \E d \in Chunks : WriteChunk(d)
    \/ \E n \in Lengths : WriteLength(n)
    \/ \E c \in Images : WriteCrc(c)
    \/ \E c \in {"clear", "validate", "reset"} : WriteCommand(c)

Device ==
    \/ PowerOn \/ ClearRequest \/ NextChange
    \/ Push \/ PushFails \/ Clear \/ ClearFails \/ Erase \/ EraseFails
    \/ Finish \/ FinishFails \/ Verify \/ Mark \/ MarkFails \/ Fail \/ ResetCommand

Next == Device \/ SdoWrite \/ EnterUpdate \/ PowerLoss

Spec == Init /\ [][Next]_vars

-----------------------------------------------------------------------------
Modes == {"off", "app", "updater"}
Places == {"off", "start", "run", "drain", "push", "clear", "erase", "validate",
           "verify", "mark", "fail", "reset"}

TypeOK ==
    /\ inForce \in Meta /\ ram \in Meta
    /\ app \in [Slot -> Bytes \cup {JunkByte}]
    /\ mode \in Modes /\ pc \in Places /\ (mode = "off" <=> pc = "off")
    /\ prog.accepted \in 0..AppSize /\ prog.flushed \in 0..AppSize
    /\ Len(prog.pending) \in 0..WriteSize
    /\ od \in OdType
    /\ Len(evq) <= EvtCap
    /\ overlapped \in BOOLEAN /\ unrequested \in BOOLEAN

(* Whatever failed and whenever power was lost: a record that marks the    *)
(* application valid describes the image the slot holds, so that the check *)
(* main() makes before it jumps is a second line of defence only           *)
(* ("should not happen -- the image is verified before it is marked").     *)
ValidMeansVerified == inForce.valid => Verifies(inForce, app)

(* What the host reads from 0x1F57 tells what a power loss would do at     *)
(* that moment: during a download the device comes back as the updater,    *)
(* and after "valid" it starts the application.                            *)
StatusTellsNextBoot ==
    mode = "updater" /\ pc = "run" =>
        /\ od.status = "programming" => NextBoot(inForce, app) = "updater"
        /\ od.status = "valid" => NextBoot(inForce, app) = "app"

(* The request to stay in the updater is one-shot: once the updater serves *)
(* the bus, a reset no longer finds it, unless it could not be cleared.    *)
OneShotRequest ==
    mode = "updater" /\ pc = "run" /\ inForce.req => ~ unrequested

(* A bootable application stays bootable until the host says clear, or the *)
(* metadata page is lost to a fault while a request is recorded or         *)
(* cleared: no stray write, chunk or validate of a host that waits for its *)
(* answers takes it away.                                                  *)
BootableUntilCleared ==
    [][inForce.valid /\ ~ inForce'.valid =>
         od.cmd = "clear" \/ pc = "start" \/ mode = "app" \/ overlapped]_vars

(* The tail of each chunk is carried over into the next write              *)
(* (Programmer): no byte counted as accepted is neither in flash nor       *)
(* pending.                                                                *)
TailCarriedOver ==
    od.status = "programming" /\ pc = "run" =>
        prog.accepted = prog.flushed + Len(prog.pending)
=============================================================================
