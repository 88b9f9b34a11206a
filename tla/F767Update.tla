----------------------------- MODULE F767Update -----------------------------
(***************************************************************************)
(* The updater of examples/f767-canwsd-fwupdate and the host tool that     *)
(* drives it (tools/canopen-fwupdate): a journal that is never compacted,  *)
(* two images with one validity each, power loss and failures at every     *)
(* flash operation, and a tool that may be stopped, or lose its            *)
(* connection, at every SDO.                                               *)
(*                                                                         *)
(* A CRC is the sequence it was computed over.  An SDO is one step: it is  *)
(* checked by check_write, stored, and answered.  The updater task handles *)
(* its change before the next SDO is processed, except during the 20 ms    *)
(* that CLEAR waits.  A request that is applied and not answered is the    *)
(* step followed by ToolGivesUp.                                           *)
(***************************************************************************)
EXTENDS Integers, Sequences

CONSTANTS Files,       \* the images a user may flash into each target
          Options,     \* the options they may give: --no-reset (stay) and --corrupt
          Linked,      \* those whose reset vector lies in the slot
          Bootable,    \* those whose vector table is plausible
          FlashFF,     \* the erased byte
          FlashJunk,   \* what a torn or half erased word reads as
          FlashWord,   \* WRITE_SIZE
          ChunkSize,   \* MAX_CHUNK of the tool
          Capacity,    \* bytes in a slot
          Slots,       \* META_SLOTS
          SeqSpan,     \* sequence numbers are modulo SeqSpan
          Polls,       \* identifications before a deadline
          MaxQueued,   \* changes that queue up during the wait of CLEAR
          MaxFaults    \* power losses and failing flash operations

\* A sequence number is a u32: half its range is more than one ahead.
ASSUME SeqSpanAssumption == SeqSpan \in Nat /\ SeqSpan >= 4
ASSUME CapacityAssumption == Capacity \in Nat

VARIABLES journal,     \* flash: the metadata sector, slot by slot
          images,      \* flash: what was programmed into each slot
          device,      \* what runs: "off", "app", "updater"
          meta,        \* the updater's copy of the record in force
          boot,        \* its object dictionary
          changes,     \* its OD changes not yet handled
          erasing,     \* CLEAR is in its 20 ms wait
          programmer,  \* Programmer
          tool,        \* the host tool
          faults       \* power losses and failing flash operations so far

f767Vars == <<journal, images, device, meta, boot, changes, erasing, programmer, tool, faults>>

ImageTargets == {"firmware", "web"}
BlankRecord ==
    [seq |-> 0, requested |-> FALSE,
     image |-> [t \in ImageTargets |-> [valid |-> FALSE, crc |-> <<>>]]]
TornRecord == [seq |-> -1]

-----------------------------------------------------------------------------
(* scan_meta: the newest record that decodes, by wrapping comparison.      *)
NewerOf(old, new) ==
    IF new = TornRecord THEN old
    ELSE IF old = TornRecord THEN new
    ELSE IF new.seq # old.seq /\ (new.seq - old.seq) % SeqSpan < SeqSpan \div 2 THEN new
    ELSE old

Newest(j) ==
    LET newest[n \in 0..Len(j)] == IF n = 0 THEN TornRecord ELSE NewerOf(newest[n - 1], j[n])
    IN  newest[Len(j)]

InForce(j) == IF Newest(j) = TornRecord THEN BlankRecord ELSE Newest(j)

(* MetaRecord::next with set_image, and with update_requested.             *)
WithImage(m, t, crc, valid) ==
    [m EXCEPT !.seq = (@ + 1) % SeqSpan, !.image[t] = [valid |-> valid, crc |-> crc]]
WithRequest(m, r) == [m EXCEPT !.seq = (@ + 1) % SeqSpan, !.requested = r]

(* image, firmware_vector_table_plausible, firmware_verifies.              *)
ReadBack(img, n) == [i \in 1..n |-> IF i <= Len(img) THEN img[i] ELSE FlashFF]
Verified(m, img) ==
    /\ m.image["firmware"].valid
    /\ m.image["firmware"].crc \in Bootable
    /\ ReadBack(img, Len(m.image["firmware"].crc)) = m.image["firmware"].crc

(* main(): what a reset starts.                                            *)
StartsApp == ~ InForce(journal).requested /\ Verified(InForce(journal), images["firmware"])

BootNew == [status |-> "idle", len |-> 0, written |-> 0, crc |-> <<>>, chunk |-> <<>>,
            cmd |-> "none", target |-> "firmware"]
ProgrammerFor(t) == [target |-> t, accepted |-> 0, pending |-> <<>>]

-----------------------------------------------------------------------------
(* A handler is a set of outcomes of a run: the flash and RAM it leaves,   *)
(* whether its last operation succeeded, and whether power is still on.    *)
Now == [j |-> journal, img |-> images, meta |-> meta, boot |-> boot, prog |-> programmer,
        ok |-> TRUE, on |-> TRUE, f |-> faults]

(* append_meta.  A full journal refuses; a failing write may tear its      *)
(* slot; a write cut off by power loss may also be complete.               *)
AppendMeta(s, m) ==
    LET full == Len(s.j) = Slots
        torn == IF full THEN {s.j} ELSE {s.j, Append(s.j, TornRecord)}
    IN  {IF full THEN [s EXCEPT !.ok = FALSE]
         ELSE [s EXCEPT !.j = Append(@, m), !.meta = m, !.ok = TRUE]}
        \cup (IF s.f = MaxFaults THEN {} ELSE
                {[s EXCEPT !.j = x, !.ok = FALSE, !.f = @ + 1] : x \in torn}
                \cup {[s EXCEPT !.j = x, !.ok = FALSE, !.on = FALSE, !.f = @ + 1] :
                        x \in torn \cup (IF full THEN {} ELSE {Append(s.j, m)})})

(* fail(): the image is recorded as invalid if that is possible.           *)
Fail(s, t) ==
    IF ~ s.on THEN {s}
    ELSE {[r EXCEPT !.boot.status = "error"] : r \in AppendMeta(s, WithImage(s.meta, t, <<>>, FALSE))}

(* A flash operation on the slot of t: done, or failing, or cut off.       *)
FlashOp(s, t, done, cut) ==
    {[s EXCEPT !.img[t] = done, !.ok = TRUE]}
    \cup (IF s.f = MaxFaults THEN {} ELSE
            {[s EXCEPT !.img[t] = cut, !.ok = FALSE, !.on = on, !.f = @ + 1] : on \in BOOLEAN})

Erased(s, t) ==
    UNION {IF r.ok THEN {[r EXCEPT !.prog = ProgrammerFor(t), !.boot.written = 0,
                                   !.boot.status = "programming"]}
           ELSE Fail(r, t) : r \in FlashOp(s, t, <<>>, <<FlashJunk>>)}

(* Mutated form of SlotCleared: the slot is erased before the record says so.  *)
SlotClearedEraseFirst(s) ==
    LET t == s.boot.target
    IN  UNION {IF r.ok THEN AppendMeta(r, WithImage(s.meta, t, <<>>, FALSE)) ELSE {r} :
                  r \in Erased(s, t)}

(* clear().                                                                *)
SlotCleared(s) ==
    LET t == s.boot.target
    IN  UNION {IF r.ok THEN Erased(r, t) ELSE Fail(r, t) :
                  r \in AppendMeta(s, WithImage(s.meta, t, <<>>, FALSE))}

(* Programmer::push, and its caller.  The carried tail is topped up first; *)
(* a top-up that does not complete the word is dropped.                    *)
Pushed(s) ==
    LET t == s.prog.target
        p == s.prog.pending
        d == s.boot.chunk
        take == IF p = <<>> THEN 0 ELSE IF FlashWord - Len(p) < Len(d) THEN FlashWord - Len(p) ELSE Len(d)
        head == p \o SubSeq(d, 1, take)
        rest == SubSeq(d, take + 1, Len(d))
        n == Len(rest) - (Len(rest) % FlashWord)
        words == (IF Len(head) = FlashWord THEN head ELSE <<>>) \o SubSeq(rest, 1, n)
        accepted == s.prog.accepted + Len(d)
    IN  IF accepted > Capacity THEN Fail(s, t)
        ELSE UNION {IF r.ok
                    THEN {[r EXCEPT !.prog.pending = SubSeq(rest, n + 1, Len(rest)),
                                    !.prog.accepted = accepted, !.boot.written = accepted]}
                    ELSE Fail(r, t) :
                      r \in IF words = <<>> THEN {s}
                            ELSE FlashOp(s, t, s.img[t] \o words, Append(s.img[t], FlashJunk))}

(* Programmer::finish: the carried tail, padded with erased bytes.         *)
FinishedTail(s) ==
    LET t == s.prog.target
        word == s.prog.pending \o [i \in 1..(FlashWord - Len(s.prog.pending)) |-> FlashFF]
    IN  IF s.prog.pending = <<>> THEN {s}
        ELSE {[r EXCEPT !.prog.pending = <<>>] :
                 r \in FlashOp(s, t, s.img[t] \o word, Append(s.img[t], FlashJunk))}

(* Mutated form of Recorded: the status does not wait for the record.      *)
RecordedAnyway(s, t) ==
    {[x EXCEPT !.boot.status = "valid"] : x \in AppendMeta(s, WithImage(s.meta, t, s.boot.crc, TRUE))}

(* validate(): the tail is flushed, the slot is read back and compared,    *)
(* the record is appended, and then the status tells.                      *)
Recorded(s, t) ==
    UNION {IF x.ok THEN {[x EXCEPT !.boot.status = "valid"]} ELSE Fail(x, t) :
              x \in AppendMeta(s, WithImage(s.meta, t, s.boot.crc, TRUE))}

Validated(s) ==
    LET t == s.prog.target
        sound(r) == /\ r.prog.accepted = r.boot.len
                    /\ r.boot.len > 0
                    /\ ReadBack(r.img[t], r.boot.len) = r.boot.crc
                    /\ t = "firmware" => r.boot.crc \in Bootable
    IN  UNION {IF r.ok /\ sound(r) THEN Recorded(r, t) ELSE Fail(r, t) : r \in FinishedTail(s)}

(* The state an outcome leaves; without power only the flash survives.     *)
Become(r) ==
    /\ journal' = r.j /\ images' = r.img /\ faults' = r.f
    /\ IF r.on THEN meta' = r.meta /\ boot' = r.boot /\ programmer' = r.prog
       ELSE meta' = BlankRecord /\ boot' = BootNew /\ programmer' = ProgrammerFor("firmware")

-----------------------------------------------------------------------------
ToolIdle == [pc |-> "idle", target |-> "firmware", image |-> <<>>, crc |-> <<>>, stay |-> FALSE,
             sent |-> 0, polls |-> 0]

F767Init ==
    /\ journal = <<>> /\ images = [t \in ImageTargets |-> <<FlashJunk>>]
    /\ device = "off" /\ meta = BlankRecord
    /\ boot = BootNew /\ changes = <<>> /\ erasing = FALSE /\ programmer = ProgrammerFor("firmware")
    /\ tool = ToolIdle /\ faults = 0

(* main() and the beginning of updater(): the one-shot request is cleared; *)
(* the copy of the record keeps it when that fails.                        *)
Reset ==
    LET s == [Now EXCEPT !.meta = InForce(journal)]
    IN  /\ device = "off"
        /\ \E r \in IF StartsApp \/ ~ s.meta.requested THEN {s}
                    ELSE AppendMeta(s, WithRequest(s.meta, FALSE)) :
              /\ device' = IF ~ r.on THEN "off" ELSE IF StartsApp THEN "app" ELSE "updater"
              /\ Become(r)
        /\ UNCHANGED <<changes, erasing, tool>>

PowerLoss ==
    /\ device # "off" /\ faults < MaxFaults
    /\ device' = "off" /\ changes' = <<>> /\ erasing' = FALSE
    /\ Become([Now EXCEPT !.on = FALSE, !.f = @ + 1])
    /\ UNCHANGED tool

(* handle_change: CLEAR starts its wait, RESET ends the session.           *)
HandleChange ==
    /\ device = "updater" /\ changes # <<>> /\ ~ erasing
    /\ CASE Head(changes) = "cmd" /\ boot.cmd = "clear" ->
              /\ erasing' = TRUE /\ changes' = Tail(changes)
              /\ UNCHANGED <<device, journal, images, faults, meta, boot, programmer>>
         [] Head(changes) = "cmd" /\ boot.cmd = "reset" ->
              /\ device' = "off" /\ changes' = <<>> /\ UNCHANGED erasing
              /\ Become([Now EXCEPT !.on = FALSE])
         [] OTHER ->
              \E r \in CASE Head(changes) = "chunk" -> Pushed(Now)
                         [] Head(changes) = "target" -> {[Now EXCEPT !.boot.len = 0]}
                         [] OTHER -> Validated(Now) :
                 /\ Become(r)
                 /\ device' = IF r.on THEN device ELSE "off"
                 /\ changes' = IF r.on THEN Tail(changes) ELSE <<>>
                 /\ UNCHANGED erasing
    /\ UNCHANGED tool

ClearNow ==
    /\ erasing /\ erasing' = FALSE
    /\ \E r \in SlotCleared(Now) :
          /\ Become(r)
          /\ device' = IF r.on THEN device ELSE "off"
          /\ changes' = IF r.on THEN changes ELSE <<>>
    /\ UNCHANGED tool

-----------------------------------------------------------------------------
(* The host tool: flash(), one action per SDO.                             *)
Goes(pc) == tool' = [tool EXCEPT !.pc = pc]
Stops == tool' = ToolIdle
Quiet == changes = <<>> /\ ~ erasing
Answering == device = "updater" /\ (changes = <<>> \/ (erasing /\ Len(changes) < MaxQueued))
deviceVars == <<journal, images, device, meta, boot, changes, erasing, programmer, faults>>
exceptOd == <<journal, images, device, meta, erasing, programmer, faults>>

(* One byte in the middle is wrong with --corrupt.                         *)
StartTool ==
    /\ tool.pc \in {"idle", "done"}
    /\ \E t \in ImageTargets : \E img \in Files[t] : \E o \in Options :
          tool' = [ToolIdle EXCEPT
                     !.pc = "identify", !.target = t, !.crc = img, !.stay = o.stay,
                     !.image = IF o.corrupt THEN [img EXCEPT ![Len(img) \div 2 + 1] = FlashJunk] ELSE img]
    /\ UNCHANGED deviceVars

Identify ==
    /\ tool.pc = "identify"
    /\ \/ Answering /\ Goes("select")
       \/ device = "app" /\ Goes("request")
    /\ UNCHANGED deviceVars

(* The application records the request and resets; the tool ignores the    *)
(* answer.                                                                 *)
Request ==
    /\ tool.pc = "request" /\ Goes("await_updater")
    /\ \/ /\ device = "app"
          /\ \E r \in AppendMeta([Now EXCEPT !.meta = InForce(journal)],
                                 WithRequest(InForce(journal), TRUE)) :
                /\ Become([r EXCEPT !.on = FALSE])
                /\ device' = IF r.ok \/ ~ r.on THEN "off" ELSE "app"
          /\ UNCHANGED <<changes, erasing>>
       \/ device # "app" /\ UNCHANGED deviceVars

AwaitRole(pc, up, then) ==
    /\ tool.pc = pc
    /\ \/ up /\ Goes(then)
       \/ ~ up /\ tool.polls < Polls /\ tool' = [tool EXCEPT !.polls = @ + 1]
       \/ ~ up /\ tool.polls = Polls /\ Stops
    /\ UNCHANGED deviceVars
AwaitUpdater == AwaitRole("await_updater", Answering, "select")
AwaitApp == AwaitRole("await_app", device = "app", "done")

(* 0x2000:5 is refused while programming; the tool reads it back after     *)
(* 20 ms.                                                                  *)
Select ==
    /\ tool.pc = "select" /\ Answering /\ Goes("selected")
    /\ IF boot.status = "programming" THEN UNCHANGED <<boot, changes>>
       ELSE boot' = [boot EXCEPT !.target = tool.target] /\ changes' = Append(changes, "target")
    /\ UNCHANGED exceptOd

Selected ==
    /\ tool.pc = "selected" /\ device = "updater" /\ Quiet
    /\ IF boot.target = tool.target THEN Goes("length") ELSE Stops
    /\ UNCHANGED deviceVars

(* check_write of a length and of a chunk.                                 *)
LengthAllowed(n) == n \in 1..Capacity
ChunkAllowed(d) ==
    boot.status = "programming" /\ boot.written + Len(d) <= boot.len /\ boot.written + Len(d) <= Capacity

(* Capacity and base are read and compared before anything is erased.      *)
WriteLength ==
    /\ tool.pc = "length" /\ Answering
    /\ IF ~ LengthAllowed(Len(tool.image)) \/ (tool.target = "firmware" /\ tool.crc \notin Linked)
       THEN Stops /\ UNCHANGED boot
       ELSE Goes("crc") /\ boot' = [boot EXCEPT !.len = Len(tool.image)]
    /\ UNCHANGED <<changes, exceptOd>>

WriteCrc ==
    /\ tool.pc = "crc" /\ Answering /\ Goes("clear")
    /\ boot' = [boot EXCEPT !.crc = tool.crc]
    /\ UNCHANGED <<changes, exceptOd>>

Command(pc, cmd, allowed, then) ==
    /\ tool.pc = pc /\ Answering
    /\ IF allowed
       THEN Goes(then) /\ boot' = [boot EXCEPT !.cmd = cmd] /\ changes' = Append(changes, "cmd")
       ELSE Stops /\ UNCHANGED <<boot, changes>>
    /\ UNCHANGED exceptOd
CommandClear == Command("clear", "clear", boot.len # 0, "erased")
CommandValidate == Command("validate", "validate", boot.status = "programming", "verdict")
CommandReset == Command("reset", "reset", TRUE, "await_app")

(* The status is read 50 ms after CLEAR was answered.                      *)
ReadStatus(pc, wanted, then) ==
    /\ tool.pc = pc /\ device = "updater" /\ Quiet
    /\ IF boot.status = wanted THEN Goes(then) ELSE Stops
    /\ UNCHANGED deviceVars
StatusErased == ReadStatus("erased", "programming", "chunk")
StatusValid == ReadStatus("verdict", "valid", IF tool.stay THEN "done" ELSE "reset")

SendChunk ==
    LET d == SubSeq(tool.image, tool.sent + 1,
                    IF tool.sent + ChunkSize < Len(tool.image) THEN tool.sent + ChunkSize ELSE Len(tool.image))
    IN  /\ tool.pc = "chunk" /\ Answering
        /\ IF ChunkAllowed(d)
           THEN /\ tool' = [tool EXCEPT !.sent = @ + Len(d),
                                        !.pc = IF tool.sent + Len(d) = Len(tool.image) THEN "written" ELSE "chunk"]
                /\ boot' = [boot EXCEPT !.chunk = d] /\ changes' = Append(changes, "chunk")
           ELSE Stops /\ UNCHANGED <<boot, changes>>
        /\ UNCHANGED exceptOd

CheckWritten ==
    /\ tool.pc = "written" /\ device = "updater" /\ Quiet
    /\ IF boot.written = Len(tool.image) THEN Goes("validate") ELSE Stops
    /\ UNCHANGED deviceVars

(* A timeout, an abort, a lost connection, or the user; the answers to the *)
(* two requests that reset the node are not waited for.                    *)
ToolGivesUp ==
    /\ tool.pc \notin {"idle", "done"}
    /\ \/ Stops
       \/ tool.pc = "reset" /\ Goes("await_app")
    /\ UNCHANGED deviceVars

F767Next ==
    \/ Reset \/ PowerLoss \/ HandleChange \/ ClearNow
    \/ StartTool \/ Identify \/ Request \/ AwaitUpdater \/ AwaitApp \/ Select \/ Selected
    \/ WriteLength \/ WriteCrc \/ CommandClear \/ CommandValidate \/ CommandReset
    \/ StatusErased \/ StatusValid \/ SendChunk \/ CheckWritten \/ ToolGivesUp

F767Spec == F767Init /\ [][F767Next]_f767Vars

-----------------------------------------------------------------------------
(* An image the journal records as valid is the one in flash, byte for     *)
(* byte, whatever was interrupted: the record is invalidated before the    *)
(* slot is erased, and set again only after the read-back.  Nothing checks *)
(* the web image again at boot.                                            *)
RecordedIsStored ==
    \A t \in ImageTargets :
        LET i == InForce(journal).image[t]
        IN  i.valid => ReadBack(images[t], Len(i.crc)) = i.crc

(* When the tool reports success, the image it read from the file is in    *)
(* flash and recorded as valid, and unless it was told to stay in the      *)
(* updater a reset starts the application.  This rests on the files: a     *)
(* board that resets between the selection and the length falls back to    *)
(* the firmware, and refuses the web image that then follows because it    *)
(* has no plausible vector table.                                          *)
ReportIsTrue ==
    tool.pc = "done" =>
        /\ InForce(journal).image[tool.target] = [valid |-> TRUE, crc |-> tool.crc]
        /\ ReadBack(images[tool.target], Len(tool.crc)) = tool.crc
        /\ tool.stay \/ StartsApp
=============================================================================
