-------------------------------- MODULE Lss ---------------------------------
(***************************************************************************)
(* The layer setting services (LSS) slave: canopen-core/src/lss.rs.  A     *)
(* master switches slaves between waiting and configuration mode, all at   *)
(* once or one by its identity, and configures the node ID of those in     *)
(* configuration mode.                                                     *)
(*                                                                         *)
(* A selection request is the place of its field in the identity (0 to 3   *)
(* for vendor, product, revision and serial) and whether its value is this *)
(* slave's.  Requests meant for other slaves are requests that do not      *)
(* match, and a request this slave misses is one it does not process.      *)
(*                                                                         *)
(* answer is the frame the last request was answered with.  heard and      *)
(* known are history variables: the last four selection requests since the *)
(* slave was last sent to waiting mode, NoSelection where one did not      *)
(* match, and the node ID an application has that reads node_id() whenever *)
(* it takes an event.                                                      *)
(***************************************************************************)
EXTENDS Naturals

CONSTANTS LssIds,        \* the node IDs a master may try to configure
          FactoryId      \* the node ID the slave is created with

VARIABLES mode,           \* LssSlave::mode
          selective_step, \* LssSlave::selective_step
          node_id,        \* LssSlave::node_id
          pending_event,  \* LssSlave::pending_event
          answer,         \* what process() returns
          heard, known

lssVars == <<mode, selective_step, node_id, pending_event, answer, heard, known>>

Selections == [place : 0..3, match : BOOLEAN]
NoSelection == [place |-> 4, match |-> FALSE]
Silence == [i \in 1..4 |-> NoSelection]

(* The events of LssEvent; only the first kind carries an ID.              *)
NoEvent == [kind |-> "none", id |-> 0]
NodeIdConfigured(id) == [kind |-> "node_id", id |-> id]
StoreConfiguration == [kind |-> "store", id |-> 0]

LssInit ==
    /\ mode = "waiting"
    /\ selective_step = 0
    /\ node_id = FactoryId
    /\ pending_event = NoEvent
    /\ heard = Silence
    /\ answer = "none"
    /\ known = FactoryId

-----------------------------------------------------------------------------
(* Mutated form of SwitchModeGlobal: a half-finished selection survives.   *)
SwitchModeGlobalResumes(configure) ==
    /\ mode' = IF configure THEN "configuration" ELSE "waiting"
    /\ selective_step' = selective_step
    /\ heard' = IF configure THEN heard ELSE Silence
    /\ answer' = "none"
    /\ UNCHANGED <<node_id, pending_event, known>>

(* Switch mode global has no answer; only the way back forgets progress.   *)
SwitchModeGlobal(configure) ==
    /\ mode' = IF configure THEN "configuration" ELSE "waiting"
    /\ selective_step' = IF configure THEN selective_step ELSE 0
    /\ heard' = IF configure THEN heard ELSE Silence
    /\ answer' = "none"
    /\ UNCHANGED <<node_id, pending_event, known>>

(* The step a selection request finds: the vendor always starts afresh.    *)
StepFor(r) == IF r.place = 0 THEN 0 ELSE selective_step
Advances(r) == StepFor(r) = r.place /\ r.match

SwitchSelective(r) ==
    /\ mode = "waiting"
    /\ selective_step' = IF Advances(r) /\ r.place < 3 THEN r.place + 1 ELSE 0
    /\ mode' = IF Advances(r) /\ r.place = 3 THEN "configuration" ELSE mode
    /\ heard' = [i \in 1..4 |-> IF i < 4 THEN heard[i + 1]
                            ELSE IF r.match THEN r ELSE NoSelection]
    /\ answer' = IF mode' = "configuration" THEN "selected" ELSE "none"
    /\ UNCHANGED <<node_id, pending_event, known>>

(* 0xFF leaves the slave unconfigured; other values are refused.           *)
ValidId(id) == id \in 1..127 \/ id = 255

ConfigureNodeId(id) ==
    /\ mode = "configuration"
    /\ node_id' = IF ValidId(id) THEN id ELSE node_id
    /\ pending_event' = IF ValidId(id) THEN NodeIdConfigured(id) ELSE pending_event
    /\ answer' = IF ValidId(id) THEN "configured" ELSE "out_of_range"
    /\ UNCHANGED <<mode, selective_step, heard, known>>

(* Acknowledged at once; the event replaces one not yet taken.             *)
Store ==
    /\ mode = "configuration"
    /\ pending_event' = StoreConfiguration
    /\ answer' = "stored"
    /\ UNCHANGED <<mode, selective_step, node_id, heard, known>>

(* The five inquiries: a field of the identity, or the node ID.            *)
Inquire ==
    /\ mode = "configuration"
    /\ answer' \in {"identity", "node_id"}
    /\ UNCHANGED <<mode, selective_step, node_id, pending_event, heard, known>>

(* Requests that are not for this mode, unknown or too short.              *)
Ignore ==
    /\ answer' = "none"
    /\ UNCHANGED <<mode, selective_step, node_id, pending_event, heard, known>>

(* The application takes the event and reads node_id().                    *)
TakeEvent ==
    /\ pending_event.kind # "none"
    /\ pending_event' = NoEvent
    /\ known' = node_id
    /\ UNCHANGED <<mode, selective_step, node_id, answer, heard>>

LssNext ==
    \/ \E configure \in BOOLEAN : SwitchModeGlobal(configure)
    \/ \E r \in Selections : SwitchSelective(r)
    \/ \E id \in LssIds : ConfigureNodeId(id)
    \/ Store \/ Inquire \/ Ignore \/ TakeEvent

LssSpec == LssInit /\ [][LssNext]_lssVars

-----------------------------------------------------------------------------
LssTypeOK ==
    /\ mode \in {"waiting", "configuration"}
    /\ selective_step \in 0..3
    /\ heard \in [1..4 -> Selections \cup {NoSelection}]

(* The requests that name this slave, in the order CiA 305 asks for.       *)
WholeIdentity == [i \in 1..4 |-> [place |-> i - 1, match |-> TRUE]]

(* A slave answers a selection and enters configuration mode by it only    *)
(* when the last four selection requests since it was sent to waiting mode *)
(* were its vendor, product, revision and serial in this order.  A master  *)
(* that gave up a selection, or switched all slaves there and back, never  *)
(* leaves the beginning of one behind that a later request completes.      *)
SelectedByWholeIdentity ==
    answer = "selected" => mode = "configuration" /\ heard = WholeIdentity

(* An application that reads node_id() with every event it takes always    *)
(* has the current ID once no event is pending, although store and         *)
(* configure share the one slot for an event and overwrite each other.     *)
ApplicationInformed ==
    /\ pending_event.kind = "none" => known = node_id
    /\ pending_event.kind = "node_id" => pending_event.id = node_id
=============================================================================
