---------------------------- MODULE MetaRegister ----------------------------
(***************************************************************************)
(* What the update metadata of a device promises its two images, the       *)
(* updater and the application: a register that survives power loss.  Its  *)
(* value only changes while a new value is being appended; an append that  *)
(* was acknowledged is in force; one that failed, or was cut off by a      *)
(* power loss, left the old value, the new one (power loss only) or, when  *)
(* the page had to be erased, the blank one.                               *)
(***************************************************************************)
CONSTANTS Contents,   \* what a record may say
          Blank       \* what a device without a valid record says

VARIABLES value,      \* the record in force
          offered,    \* the value being appended: {} or {v}
          result      \* "off", "up", "busy", "ok" or "err"

vars == <<value, offered, result>>

Init == value = Blank /\ offered = {} /\ result = "off"

PowerOn ==
    /\ result = "off" /\ result' = "up"
    /\ UNCHANGED <<value, offered>>

Offer(v) ==
    /\ result \notin {"off", "busy"} /\ result' = "busy"
    /\ offered' = {v}
    /\ UNCHANGED value

Lose ==
    /\ offered # {}
    /\ value' = Blank
    /\ UNCHANGED <<offered, result>>

Ack ==
    /\ offered # {} /\ offered' = {}
    /\ value' \in offered
    /\ result' = "ok"

Nack ==
    /\ offered # {} /\ offered' = {}
    /\ value' \in {value, Blank}
    /\ result' = "err"

PowerLoss ==
    /\ result # "off" /\ result' = "off"
    /\ offered' = {}
    /\ IF offered = {} THEN UNCHANGED value ELSE value' \in {value, Blank} \cup offered

Next ==
    \/ PowerOn \/ Lose \/ Ack \/ Nack \/ PowerLoss
    \/ \E v \in Contents : Offer(v)

Spec == Init /\ [][Next]_vars
=============================================================================
