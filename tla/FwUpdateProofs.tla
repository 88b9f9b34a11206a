-------------------------- MODULE FwUpdateProofs ----------------------------
(***************************************************************************)
(* The safety properties of FwUpdate, for every slot, page, word and queue *)
(* size and every set of images and chunks, with a host that waits for the *)
(* answer to each of its writes.                                           *)
(*                                                                         *)
(* The argument: flash is only touched while the record in force is not    *)
(* valid.  Chunks and validate are accepted in "programming" only, and     *)
(* "programming" is entered through clear, behind an acknowledged invalid  *)
(* record; it is left when the record of a verified image is acknowledged. *)
(***************************************************************************)
EXTENDS FwUpdate, TLAPS

(* Types of the records the argument is about.                             *)
OdRecord(o) ==
    \E w : o \in [status : {"idle", "programming", "valid", "error"},
                  len : 0..AppSize, written : {w}, crc : Images \cup {<<>>},
                  chunk : Chunks \cup {<<>>}, cmd : {"none", "clear", "validate", "reset"}]
Typed == inForce \in Meta /\ ram \in Meta /\ OdRecord(od) /\ mode \in Modes

(* What the place of the running image says about the rest.                *)
Placed ==
    /\ mode = "off" => pc = "off"
    /\ pc = "start" => od.status = "idle"
    /\ mode = "app" => pc = "run" /\ evq = <<>> /\ od.status = "idle"
    /\ pc \in {"push", "validate", "verify", "mark"} => od.status = "programming"
    /\ pc # "run" => evq = <<>>
    /\ evq # <<>> => evq \in {<<"chunk">>, <<"cmd">>, <<"other">>}
    /\ evq = <<"chunk">> => od.status = "programming"
    /\ evq = <<"cmd">> /\ od.cmd = "validate" => od.status = "programming"
    /\ pc \in {"clear", "validate", "reset"} => od.cmd = pc
    /\ pc = "mark" => Intact(app)

(* How the record in force follows.                                        *)
Recorded ==
    /\ inForce.valid => Verifies(inForce, app)
    /\ od.status = "programming" => ~ inForce.valid
    /\ pc = "erase" => ~ inForce.valid
    /\ pc = "fail" => ~ inForce.valid \/ od.cmd = "clear"
    /\ pc = "start" => ram = inForce
    /\ mode = "updater" /\ pc # "start" => ~ ram.req
    /\ mode = "updater" /\ pc # "start" /\ inForce.req => ~ unrequested
    /\ od.status = "valid" /\ pc \in {"run", "reset"} => inForce.valid /\ ~ inForce.req

IInv == Typed /\ Placed /\ Recorded

(* The records appended are of their type; a verified image stays verified *)
(* when only the request flag changes, and the candidate of an intact      *)
(* image verifies.                                                         *)
LEMMA RecordsAppended ==
    ASSUME Typed
    PROVE  /\ BLANK \in Meta /\ BLANK.valid = FALSE /\ BLANK.req = FALSE
           /\ \A m \in Meta : /\ Invalidated(m) \in Meta
                              /\ Invalidated(m).valid = FALSE
                              /\ Invalidated(m).req = m.req
           /\ \A m \in Meta : /\ Unrequested(m) \in Meta
                              /\ Unrequested(m).valid = m.valid
                              /\ Unrequested(m).req = FALSE
                              /\ Verifies(m, app) => Verifies(Unrequested(m), app)
           /\ \A m \in Meta : /\ [m EXCEPT !.req = TRUE] \in Meta
                              /\ [m EXCEPT !.req = TRUE].valid = m.valid
                              /\ Verifies(m, app) => Verifies([m EXCEPT !.req = TRUE], app)
           /\ /\ Candidate \in Meta
              /\ Candidate.valid = TRUE
              /\ Candidate.req = ram.req
              /\ Intact(app) => Verifies(Candidate, app)
  <1>0. 0 \in 0..AppSize
    BY SizesAssumption
  <1>1. BLANK \in Meta /\ BLANK.valid = FALSE /\ BLANK.req = FALSE
    BY <1>0 DEF BLANK, Meta
  <1>2. ASSUME NEW m \in Meta
        PROVE  /\ Invalidated(m) \in Meta
               /\ Invalidated(m).valid = FALSE
               /\ Invalidated(m).req = m.req
    BY Zenon, <1>0 DEF Invalidated, Meta
  <1>3. ASSUME NEW m \in Meta
        PROVE  /\ Unrequested(m) \in Meta
               /\ Unrequested(m).valid = m.valid
               /\ Unrequested(m).req = FALSE
               /\ Verifies(m, app) => Verifies(Unrequested(m), app)
    BY Zenon DEF Unrequested, Meta, Verifies
  <1>4. ASSUME NEW m \in Meta
        PROVE  /\ [m EXCEPT !.req = TRUE] \in Meta
               /\ [m EXCEPT !.req = TRUE].valid = m.valid
               /\ Verifies(m, app) => Verifies([m EXCEPT !.req = TRUE], app)
    BY Zenon DEF Meta, Verifies
  <1>5. /\ Candidate \in Meta
        /\ Candidate.valid = TRUE
        /\ Candidate.req = ram.req
        /\ Intact(app) => Verifies(Candidate, app)
    BY Zenon DEF Typed, Meta, OdRecord, Candidate, Intact, Verifies
  <1> QED
    BY Zenon, <1>1, <1>2, <1>3, <1>4, <1>5
(* What the assignments to the object dictionary leave alone.              *)
LEMMA OdAssigned ==
    ASSUME NEW o, OdRecord(o)
    PROVE  /\ LET n == [o EXCEPT !.written = 0, !.status = "programming"]
              IN  OdRecord(n) /\ n.status = "programming" /\ n.cmd = o.cmd
           /\ \A x \in {"valid", "error"} :
                LET n == [o EXCEPT !.status = x]
                IN  OdRecord(n) /\ n.status = x /\ n.cmd = o.cmd
           /\ \A d \in Chunks : LET n == [o EXCEPT !.chunk = d]
                                IN  OdRecord(n) /\ n.status = o.status /\ n.cmd = o.cmd
           /\ \A l \in Lengths : LET n == [o EXCEPT !.len = l]
                                 IN  OdRecord(n) /\ n.status = o.status /\ n.cmd = o.cmd
           /\ \A c \in Images : LET n == [o EXCEPT !.crc = c]
                                IN  OdRecord(n) /\ n.status = o.status /\ n.cmd = o.cmd
           /\ OdRecord(OdNew) /\ OdNew.status = "idle"
  <1> PICK u : o \in [status : {"idle", "programming", "valid", "error"},
                      len : 0..AppSize, written : {u}, crc : Images \cup {<<>>},
                      chunk : Chunks \cup {<<>>}, cmd : {"none", "clear", "validate", "reset"}]
    BY DEF OdRecord
  <1>0. 0 \in 0..AppSize /\ \A l \in Lengths : l \in 0..AppSize
    BY SizesAssumption, LengthsAssumption
  <1>1. ASSUME NEW d \in Chunks
        PROVE  LET n == [o EXCEPT !.chunk = d]
               IN  OdRecord(n) /\ n.status = o.status /\ n.cmd = o.cmd
    BY <1>0 DEF OdRecord
  <1>2. ASSUME NEW l \in Lengths
        PROVE  LET n == [o EXCEPT !.len = l]
               IN  OdRecord(n) /\ n.status = o.status /\ n.cmd = o.cmd
    BY <1>0 DEF OdRecord
  <1>3. ASSUME NEW c \in Images
        PROVE  LET n == [o EXCEPT !.crc = c]
               IN  OdRecord(n) /\ n.status = o.status /\ n.cmd = o.cmd
    BY <1>0 DEF OdRecord
  <1>4. ASSUME NEW x \in {"valid", "error"}
        PROVE  LET n == [o EXCEPT !.status = x]
               IN  OdRecord(n) /\ n.status = x /\ n.cmd = o.cmd
    BY <1>0 DEF OdRecord
  <1>5. LET n == [o EXCEPT !.written = 0, !.status = "programming"]
        IN  OdRecord(n) /\ n.status = "programming" /\ n.cmd = o.cmd
    BY ZenonT(40) DEF OdRecord
  <1>6. OdRecord(OdNew) /\ OdNew.status = "idle"
    BY <1>0 DEF OdRecord, OdNew
  <1> QED
    BY <1>1, <1>2, <1>3, <1>4, <1>5, <1>6

(* Every step preserves the invariant: one case per action.                *)
LEMMA StepInvariant ==
    ASSUME Pipelined = FALSE, IInv, [Next]_vars
    PROVE  IInv'
  <1> USE DEF Acked, Nacked, Loop
  <1>a. Typed /\ Placed /\ Recorded
    BY DEF IInv
  <1>1. CASE PowerOn
    <2>1. od'.status = "idle" /\ OdRecord(od')
      BY Zenon, <1>a, <1>1, OdAssigned DEF Typed, PowerOn
    <2>2. Typed'
      BY <1>a, <1>1, <2>1, RecordsAppended DEF Typed, Modes, PowerOn, NextBoot
    <2>3. Placed'
      BY <1>a, <1>1, <2>1 DEF Typed, Modes, Placed, PowerOn, NextBoot
    <2>4. Recorded'
      BY <1>a, <1>1, <2>1, RecordsAppended DEF Typed, Modes, Placed, Recorded, PowerOn, NextBoot
    <2> QED
      BY <2>2, <2>3, <2>4 DEF IInv
  <1>2. CASE ClearRequest
    <2>1. od' = od /\ OdRecord(od')
      BY <1>a, <1>2 DEF Typed, ramVars, ClearRequest
    <2>2. /\ BLANK \in Meta /\ BLANK.valid = FALSE /\ BLANK.req = FALSE
          /\ Unrequested(ram) \in Meta
          /\ Unrequested(ram).req = FALSE
          /\ inForce.valid => Verifies(Unrequested(ram), app)
          /\ Unrequested(ram).valid = inForce.valid
      BY Zenon, <1>a, <1>2, RecordsAppended DEF Typed, Recorded, ClearRequest
    <2>3. /\ inForce' \in {Unrequested(ram), inForce, BLANK}
          /\ inForce' # Unrequested(ram) => unrequested' = FALSE
          /\ ram' = Unrequested(ram) /\ pc' = "run" /\ UNCHANGED <<app, mode, evq>>
      BY <1>2 DEF ClearRequest
    <2>4. Typed'
      BY <1>a, <2>1, <2>2, <2>3 DEF Typed
    <2>5. Placed'
      BY <1>a, <1>2, <2>1, <2>3 DEF Placed, ClearRequest
    <2>6. Recorded'
      BY <1>a, <1>2, <2>1, <2>2, <2>3 DEF Placed, Recorded, ClearRequest
    <2> QED
      BY <2>4, <2>5, <2>6 DEF IInv
  <1>3. CASE NextChange
    <2>1. od' = od /\ OdRecord(od')
      BY <1>a, <1>3 DEF Typed, ramVars, NextChange
    <2>2. /\ pc = "run" /\ evq' = <<>> /\ UNCHANGED <<inForce, app, mode, ram, prog, unrequested>>
          /\ \/ evq = <<"chunk">> /\ pc' = "push"
             \/ evq = <<"cmd">> /\ pc' = od.cmd
             \/ evq = <<"other">> /\ pc' = "run"
      BY <1>a, <1>3 DEF Placed, NextChange, Handler
    <2>3. od.cmd \in {"none", "clear", "validate", "reset"}
      BY <1>a DEF Typed, OdRecord
    <2>4. Typed'
      BY <1>a, <2>1, <2>2 DEF Typed
    <2>5. mode # "off" /\ mode # "app"
      BY <1>a, <2>2 DEF Placed
    <2>6. Placed'
      BY <1>a, <2>1, <2>2, <2>3, <2>5 DEF Placed
    <2>7. Recorded'
      BY <1>a, <2>1, <2>2, <2>3 DEF Recorded
    <2> QED
      BY <2>4, <2>6, <2>7 DEF IInv
  <1>4. CASE Push
    <2> DEFINE w == prog'.accepted
    <2>0. od' = [od EXCEPT !.written = w]
      BY <1>4 DEF Push
    <2> HIDE DEF w
    <2>1. od'.status = od.status /\ od'.cmd = od.cmd /\ OdRecord(od')
      BY <1>a, <2>0 DEF Typed, OdRecord
    <2>2. Typed'
      BY <1>a, <1>4, <2>1, RecordsAppended DEF Typed, Modes, Push
    <2>3. Placed'
      BY <1>a, <1>4, <2>1 DEF Typed, Modes, Placed, Push
    <2>4. Recorded'
      BY <1>a, <1>4, <2>1, RecordsAppended DEF Typed, Modes, Placed, Recorded, Push
    <2> QED
      BY <2>2, <2>3, <2>4 DEF IInv
  <1>5. CASE PushFails
    <2>1. od' = od /\ OdRecord(od')
      BY <1>a, <1>5 DEF Typed, ramVars, PushFails
    <2>2. Typed'
      BY <1>a, <1>5, <2>1, RecordsAppended DEF Typed, Modes, PushFails
    <2>3. Placed'
      BY <1>a, <1>5, <2>1 DEF Typed, Modes, Placed, PushFails
    <2>4. Recorded'
      BY <1>a, <1>5, <2>1, RecordsAppended DEF Typed, Modes, Placed, Recorded, PushFails
    <2> QED
      BY <2>2, <2>3, <2>4 DEF IInv
  <1>6. CASE Clear
    <2>1. od' = od /\ OdRecord(od')
      BY <1>a, <1>6 DEF Typed, ramVars, Clear
    <2>2. Typed'
      BY Zenon, <1>a, <1>6, <2>1, RecordsAppended DEF Typed, Modes, Clear
    <2>3. Placed'
      BY <1>a, <1>6, <2>1 DEF Typed, Modes, Placed, Clear
    <2>4. Recorded'
      BY Zenon, <1>a, <1>6, <2>1, RecordsAppended DEF Typed, Modes, Placed, Recorded, Clear
    <2> QED
      BY <2>2, <2>3, <2>4 DEF IInv
  <1>7. CASE ClearFails
    <2>1. od' = od /\ OdRecord(od')
      BY <1>a, <1>7 DEF Typed, ramVars, ClearFails
    <2>2. Typed'
      BY Zenon, <1>a, <1>7, <2>1, RecordsAppended DEF Typed, Modes, ClearFails, ramVars
    <2>3. Placed'
      BY <1>a, <1>7, <2>1 DEF Typed, Modes, Placed, ClearFails, ramVars
    <2>4. Recorded'
      BY ZenonT(40), <1>a, <1>7, <2>1, RecordsAppended DEF Typed, Modes, Placed, Recorded, ClearFails, ramVars
    <2> QED
      BY <2>2, <2>3, <2>4 DEF IInv
  <1>8. CASE Erase
    <2>1. od'.status = "programming" /\ od'.cmd = od.cmd /\ OdRecord(od')
      BY Zenon, <1>a, <1>8, OdAssigned DEF Typed, Erase
    <2>2. Typed'
      BY <1>a, <1>8, <2>1, RecordsAppended DEF Typed, Modes, Erase
    <2>3. Placed'
      BY <1>a, <1>8, <2>1 DEF Typed, Modes, Placed, Erase
    <2>4. Recorded'
      BY <1>a, <1>8, <2>1, RecordsAppended DEF Typed, Modes, Placed, Recorded, Erase
    <2> QED
      BY <2>2, <2>3, <2>4 DEF IInv
  <1>9. CASE EraseFails
    <2>1. od' = od /\ OdRecord(od')
      BY <1>a, <1>9 DEF Typed, ramVars, EraseFails
    <2>2. Typed'
      BY <1>a, <1>9, <2>1, RecordsAppended DEF Typed, Modes, EraseFails, ramVars
    <2>3. Placed'
      BY <1>a, <1>9, <2>1 DEF Typed, Modes, Placed, EraseFails, ramVars
    <2>4. Recorded'
      BY <1>a, <1>9, <2>1, RecordsAppended DEF Typed, Modes, Placed, Recorded, EraseFails, ramVars
    <2> QED
      BY <2>2, <2>3, <2>4 DEF IInv
  <1>10. CASE Finish
    <2>1. od' = od /\ OdRecord(od')
      BY <1>a, <1>10 DEF Typed, ramVars, Finish
    <2>2. Typed'
      BY <1>a, <1>10, <2>1, RecordsAppended DEF Typed, Modes, Finish
    <2>3. Placed'
      BY <1>a, <1>10, <2>1 DEF Typed, Modes, Placed, Finish
    <2>4. Recorded'
      BY <1>a, <1>10, <2>1, RecordsAppended DEF Typed, Modes, Placed, Recorded, Finish
    <2> QED
      BY <2>2, <2>3, <2>4 DEF IInv
  <1>11. CASE FinishFails
    <2>1. od' = od /\ OdRecord(od')
      BY <1>a, <1>11 DEF Typed, ramVars, FinishFails
    <2>2. Typed'
      BY <1>a, <1>11, <2>1, RecordsAppended DEF Typed, Modes, FinishFails
    <2>3. Placed'
      BY <1>a, <1>11, <2>1 DEF Typed, Modes, Placed, FinishFails
    <2>4. Recorded'
      BY <1>a, <1>11, <2>1, RecordsAppended DEF Typed, Modes, Placed, Recorded, FinishFails
    <2> QED
      BY <2>2, <2>3, <2>4 DEF IInv
  <1>12. CASE Verify
    <2>1. od' = od /\ OdRecord(od')
      BY <1>a, <1>12 DEF Typed, ramVars, Verify
    <2>2. Typed'
      BY <1>a, <1>12, <2>1, RecordsAppended DEF Typed, Modes, Verify, ramVars
    <2>3. Placed'
      BY <1>a, <1>12, <2>1 DEF Typed, Modes, Placed, Verify, ramVars, Intact
    <2>4. Recorded'
      BY SMTT(30), <1>a, <1>12, <2>1, RecordsAppended DEF Typed, Modes, Placed, Recorded, Verify, ramVars
    <2> QED
      BY <2>2, <2>3, <2>4 DEF IInv
  <1>13. CASE Mark
    <2>1. od'.status = "valid" /\ od'.cmd = od.cmd /\ OdRecord(od')
      BY Zenon, <1>a, <1>13, OdAssigned DEF Typed, Mark
    <2>2. Typed'
      BY Zenon, <1>a, <1>13, <2>1, RecordsAppended DEF Typed, Modes, Mark
    <2>3. Placed'
      BY <1>a, <1>13, <2>1 DEF Typed, Modes, Placed, Mark
    <2>4. Recorded'
      BY Zenon, <1>a, <1>13, <2>1, RecordsAppended DEF Typed, Modes, Placed, Recorded, Mark
    <2> QED
      BY <2>2, <2>3, <2>4 DEF IInv
  <1>14. CASE MarkFails
    <2>1. od' = od /\ OdRecord(od')
      BY <1>a, <1>14 DEF Typed, ramVars, MarkFails
    <2>2. Typed'
      BY Zenon, <1>a, <1>14, <2>1, RecordsAppended DEF Typed, Modes, MarkFails, ramVars
    <2>3. Placed'
      BY <1>a, <1>14, <2>1 DEF Typed, Modes, Placed, MarkFails, ramVars
    <2>4. Recorded'
      BY ZenonT(40), <1>a, <1>14, <2>1, RecordsAppended DEF Typed, Modes, Placed, Recorded, MarkFails, ramVars
    <2> QED
      BY <2>2, <2>3, <2>4 DEF IInv
  <1>15. CASE Fail
    <2>1. od'.status = "error" /\ od'.cmd = od.cmd /\ OdRecord(od')
      BY Zenon, <1>a, <1>15, OdAssigned DEF Typed, Fail
    <2>2. /\ BLANK \in Meta /\ BLANK.valid = FALSE /\ BLANK.req = FALSE
          /\ Invalidated(ram) \in Meta /\ Invalidated(ram).valid = FALSE
          /\ Invalidated(ram).req = ram.req
      BY Zenon, <1>a, RecordsAppended DEF Typed
    <2>3. /\ inForce' \in {inForce, BLANK, Invalidated(ram)}
          /\ ram' \in {ram, Invalidated(ram)}
          /\ pc' = "run" /\ UNCHANGED <<app, mode, evq, unrequested>>
      BY <1>a, <1>15 DEF Fail, Placed
    <2>4. Typed'
      BY <1>a, <2>1, <2>2, <2>3 DEF Typed
    <2>5. Placed'
      BY <1>a, <1>15, <2>1, <2>3 DEF Placed, Fail
    <2>6. Recorded'
      BY <1>a, <1>15, <2>1, <2>2, <2>3 DEF Recorded, Placed, Fail
    <2> QED
      BY <2>4, <2>5, <2>6 DEF IInv
  <1>16. CASE ResetCommand
    <2>1. od'.status = "idle" /\ OdRecord(od')
      BY Zenon, <1>a, <1>16, OdAssigned DEF Typed, Off, ResetCommand
    <2>2. Typed'
      BY Zenon, <1>a, <1>16, <2>1, RecordsAppended DEF Typed, Modes, ResetCommand, Off
    <2>3. Placed'
      BY <1>a, <1>16, <2>1 DEF Typed, Modes, Placed, ResetCommand, Off
    <2>4. Recorded'
      BY <1>a, <1>16, <2>1, RecordsAppended DEF Typed, Modes, Placed, Recorded, ResetCommand, Off
    <2> QED
      BY <2>2, <2>3, <2>4 DEF IInv
  <1>17. CASE SdoWrite
    <2>1. /\ mode = "updater" /\ pc = "run" /\ evq = <<>>
          /\ UNCHANGED <<inForce, app, mode, pc, ram, prog, unrequested>>
          /\ od'.status = od.status /\ OdRecord(od')
          /\ \/ evq' = <<"chunk">> /\ od.status = "programming" /\ od'.cmd = od.cmd
             \/ evq' = <<"other">> /\ od'.cmd = od.cmd
             \/ evq' = <<"cmd">> /\ (od'.cmd = "validate" => od.status = "programming")
      <3>0. ASSUME evq = <<>>, NEW e PROVE Queued(evq, e) = <<e>>
        BY <3>0, EvtCapAssumption DEF Queued
      <3>1. ASSUME NEW d \in Chunks, WriteChunk(d) PROVE <2>1
        <4>1. LET o == [od EXCEPT !.chunk = d]
              IN  OdRecord(o) /\ o.status = od.status /\ o.cmd = od.cmd
          BY ZenonT(40), <1>a, OdAssigned DEF Typed
        <4>2. od' = [od EXCEPT !.chunk = d]
          BY <3>1 DEF WriteChunk, Stored
        <4> QED
          BY <3>0, <3>1, <4>1, <4>2 DEF WriteChunk, Accepting, Stored
      <3>2. ASSUME NEW n \in Lengths, WriteLength(n) PROVE <2>1
        <4>1. LET o == [od EXCEPT !.len = n]
              IN  OdRecord(o) /\ o.status = od.status /\ o.cmd = od.cmd
          BY ZenonT(40), <1>a, OdAssigned DEF Typed
        <4>2. od' = [od EXCEPT !.len = n]
          BY <3>2 DEF WriteLength, Stored
        <4> QED
          BY <3>0, <3>2, <4>1, <4>2 DEF WriteLength, Accepting, Stored
      <3>3. ASSUME NEW c \in Images, WriteCrc(c) PROVE <2>1
        <4>1. LET o == [od EXCEPT !.crc = c]
              IN  OdRecord(o) /\ o.status = od.status /\ o.cmd = od.cmd
          BY Zenon, <1>a, OdAssigned DEF Typed
        <4>2. od' = [od EXCEPT !.crc = c]
          BY <3>3 DEF WriteCrc, Stored
        <4> QED
          BY <3>0, <3>3, <4>1, <4>2 DEF WriteCrc, Accepting, Stored
      <3>4. ASSUME NEW c \in {"clear", "validate", "reset"}, WriteCommand(c) PROVE <2>1
        <4>1. LET o == [od EXCEPT !.cmd = c]
              IN  OdRecord(o) /\ o.status = od.status /\ o.cmd = c
          BY <1>a DEF Typed, OdRecord
        <4>2. od' = [od EXCEPT !.cmd = c]
          BY <3>4 DEF WriteCommand, Stored
        <4> QED
          BY <3>0, <3>4, <4>1, <4>2 DEF WriteCommand, CommandAllowed, Accepting, Stored
      <3> QED
        BY <1>17, <3>1, <3>2, <3>3, <3>4 DEF SdoWrite
    <2>2. Typed'
      BY <1>a, <2>1 DEF Typed
    <2>3. Placed'
      BY <1>a, <2>1 DEF Placed
    <2>4. Recorded'
      BY <1>a, <2>1 DEF Recorded
    <2> QED
      BY <2>2, <2>3, <2>4 DEF IInv
  <1>18. CASE EnterUpdate
    <2> DEFINE r == [inForce EXCEPT !.req = TRUE]
    <2>1. /\ BLANK \in Meta /\ BLANK.valid = FALSE /\ BLANK.req = FALSE
          /\ r \in Meta /\ r.valid = inForce.valid
          /\ Verifies(inForce, app) => Verifies(r, app)
      BY Zenon, <1>a, RecordsAppended DEF Typed
    <2>2. /\ mode = "app" /\ UNCHANGED <<app, unrequested>>
          /\ \/ inForce' = r /\ Off
             \/ inForce' \in {inForce, BLANK} /\ UNCHANGED <<mode, pc, ram, prog, od, evq>>
      BY <1>18 DEF EnterUpdate, ramVars
    <2> HIDE DEF r
    <2>3. CASE inForce' = r /\ Off
      <3>1. /\ od'.status = "idle" /\ OdRecord(od') /\ ram' = BLANK
            /\ mode' = "off" /\ pc' = "off" /\ evq' = <<>>
        BY Zenon, <2>3, OdAssigned, <1>a DEF Off, Typed
      <3>2. Typed'
        BY <2>1, <2>3, <3>1 DEF Typed, Modes
      <3>3. Placed' /\ Recorded'
        BY <1>a, <2>1, <2>2, <2>3, <3>1 DEF Placed, Recorded
      <3> QED
        BY <3>2, <3>3 DEF IInv
    <2>4. CASE inForce' \in {inForce, BLANK} /\ UNCHANGED <<mode, pc, ram, prog, od, evq>>
      <3>1. Typed'
        BY <1>a, <2>1, <2>4 DEF Typed
      <3>2. Placed' /\ Recorded'
        BY SMTT(30), <1>a, <2>1, <2>2, <2>4 DEF Placed, Recorded
      <3> QED
        BY <3>1, <3>2 DEF IInv
    <2> QED
      BY <2>2, <2>3, <2>4
  <1>19. CASE PowerLoss
    <2>1. /\ od'.status = "idle" /\ OdRecord(od') /\ ram' = BLANK
          /\ mode' = "off" /\ pc' = "off" /\ evq' = <<>>
      BY Zenon, <1>a, <1>19, OdAssigned DEF PowerLoss, Off, Typed
    <2>2. inForce' \in Meta /\ (inForce'.valid => Verifies(inForce', app)) /\ BLANK \in Meta
      <3>1. CASE inForce' = inForce
        BY <1>a, <3>1, RecordsAppended DEF Typed, Recorded
      <3>2. CASE inForce' = BLANK
        BY Zenon, <1>a, <3>2, RecordsAppended DEF Typed
      <3>3. CASE pc = "start" /\ inForce' = Unrequested(ram)
        BY Zenon, <1>a, <3>3, RecordsAppended DEF Typed, Recorded
      <3>4. CASE inForce' = Invalidated(ram)
        BY Zenon, <1>a, <3>4, RecordsAppended DEF Typed
      <3>5. CASE pc = "mark" /\ inForce' = Candidate
        BY <1>a, <3>5, RecordsAppended DEF Typed, Placed
      <3>6. CASE inForce' = [inForce EXCEPT !.req = TRUE]
        BY <1>a, <3>6, RecordsAppended DEF Typed, Recorded
      <3> QED
        BY <1>19, <3>1, <3>2, <3>3, <3>4, <3>5, <3>6 DEF PowerLoss, MetaCut, Appending
    <2>3. app' = app \/ inForce'.valid = FALSE
      <3>1. CASE pc \in {"push", "erase", "validate"}
        <4>1. mode # "app" /\ inForce.valid = FALSE
          BY <1>a, <3>1 DEF Placed, Recorded, Typed, Meta
        <4> QED
          BY <1>19, <3>1, <4>1 DEF PowerLoss, MetaCut
      <3>2. CASE pc \notin {"push", "erase", "validate"}
        BY <1>19, <3>2 DEF PowerLoss, AppCut
      <3> QED
        BY Zenon, <3>1, <3>2
    <2>4. Typed'
      BY <2>1, <2>2 DEF Typed, Modes
    <2>5. Placed' /\ Recorded'
      BY <2>1, <2>2, <2>3 DEF Placed, Recorded
    <2> QED
      BY <2>4, <2>5 DEF IInv
  <1>20. CASE UNCHANGED vars
    BY <1>a, <1>20 DEF vars, IInv, Typed, Placed, Recorded, Intact
  <1> QED
    BY <1>1, <1>2, <1>3, <1>4, <1>5, <1>6, <1>7, <1>8, <1>9, <1>10, <1>11, <1>12, <1>13, <1>14, <1>15, <1>16, <1>17, <1>18, <1>19, <1>20 DEF Next, Device

(* The initial states satisfy the invariant.                               *)
LEMMA InitInvariant ==
    ASSUME Init
    PROVE  IInv
  <1>1. 0 \in 0..AppSize
    BY SizesAssumption
  <1>2. BLANK \in Meta /\ BLANK.valid = FALSE
    BY <1>1 DEF BLANK, Meta
  <1>3. OdRecord(OdNew) /\ OdNew.status = "idle"
    BY <1>1 DEF OdRecord, OdNew
  <1>4. Typed
    BY <1>2, <1>3 DEF Init, Typed, Modes
  <1>5. Placed /\ Recorded
    BY <1>2, <1>3 DEF Init, Placed, Recorded
  <1> QED
    BY <1>4, <1>5 DEF IInv

(* The invariant holds in every reachable state of the updater.            *)
THEOREM FwInvariant ==
    ASSUME Pipelined = FALSE
    PROVE  Spec => []IInv
  <1>1. IInv /\ [Next]_vars => IInv'
    BY StepInvariant
  <1> QED
    BY <1>1, InitInvariant, PTL DEF Spec

(* A record that marks the application valid describes what the slot       *)
(* holds, in every state and so after every power loss.                    *)
THEOREM FwValidMeansVerified ==
    ASSUME Pipelined = FALSE
    PROVE  Spec => []ValidMeansVerified
  <1>1. IInv => ValidMeansVerified
    BY DEF IInv, Recorded, ValidMeansVerified
  <1> QED
    BY <1>1, FwInvariant, PTL

(* The flash status a host reads tells what a reset would start, and the   *)
(* request to stay in the updater is one-shot.                             *)
THEOREM FwStatusTellsNextBoot ==
    ASSUME Pipelined = FALSE
    PROVE  Spec => [](StatusTellsNextBoot /\ OneShotRequest)
  <1>1. IInv => StatusTellsNextBoot /\ OneShotRequest
    BY DEF IInv, Recorded, StatusTellsNextBoot, OneShotRequest, NextBoot
  <1> QED
    BY <1>1, FwInvariant, PTL

(* Only clear takes a valid application away, or the loss of the metadata  *)
(* page while an update request is recorded or cleared.                    *)
THEOREM FwBootableUntilCleared ==
    ASSUME Pipelined = FALSE
    PROVE  Spec => BootableUntilCleared
  <1>1. ASSUME IInv, [Next]_vars, inForce.valid, ~ inForce'.valid
        PROVE  od.cmd = "clear" \/ pc = "start" \/ mode = "app" \/ overlapped
    <2>1. inForce' # inForce
      BY <1>1
    <2>2. CASE ClearRequest \/ EnterUpdate
      BY <2>2 DEF ClearRequest, EnterUpdate
    <2>3. CASE Clear \/ ClearFails
      BY <1>1, <2>3 DEF IInv, Placed, Clear, ClearFails
    <2>4. CASE Mark \/ MarkFails
      BY <1>1, <2>4 DEF IInv, Placed, Recorded, Mark, MarkFails
    <2>5. CASE Fail
      BY <1>1, <2>5 DEF IInv, Recorded, Fail
    <2>6. CASE PowerLoss
      BY <1>1, <2>1, <2>6 DEF IInv, Placed, Recorded, PowerLoss, MetaCut
    <2>7. CASE PowerOn \/ NextChange \/ Push \/ PushFails \/ Erase \/ EraseFails
      BY <2>1, <2>7 DEF PowerOn, NextChange, Push, PushFails, Erase, EraseFails
    <2>8. CASE Finish \/ FinishFails \/ Verify \/ ResetCommand \/ SdoWrite
      BY <2>1, <2>8 DEF Finish, FinishFails, Verify, ResetCommand, SdoWrite,
         WriteChunk, WriteLength, WriteCrc, WriteCommand, Stored
    <2>9. CASE UNCHANGED vars
      BY <2>1, <2>9 DEF vars
    <2> QED
      BY <1>1, <2>2, <2>3, <2>4, <2>5, <2>6, <2>7, <2>8, <2>9 DEF Next, Device
  <1>2. IInv /\ [Next]_vars =>
          [inForce.valid /\ ~ inForce'.valid =>
             od.cmd = "clear" \/ pc = "start" \/ mode = "app" \/ overlapped]_vars
    BY <1>1
  <1> QED
    BY <1>2, FwInvariant, PTL DEF Spec, BootableUntilCleared
=============================================================================
