------------------------------ MODULE SdoPanel ------------------------------
(***************************************************************************)
(* The SDO request engine of the desktop tool and its two backends         *)
(* (examples/canopen-egui/src/sdo.rs and can_bus.rs): the native one runs  *)
(* the engine in a CAN thread fed by a command channel, the browser's one  *)
(* steps it inside try_recv_event.                                         *)
(*                                                                         *)
(* A request has an identifier, a node (possibly no valid node), an object *)
(* and a kind; a write may be too large for the client's buffer.  A        *)
(* transfer takes one exchange, or a second one (a segment) when the first *)
(* answer says "more".  Answers are what the servers put on the bus, in    *)
(* the order in which the requests reached them; an answer may be lost or  *)
(* late.  One that is late carries the object it was about as history.     *)
(***************************************************************************)
EXTENDS Integers, Sequences, SequencesExt, FiniteSets, FiniteSetsExt

CONSTANTS
  Nodes, NoNode,    \* valid node identifiers, and one that is not
  Objects,
  Requests,         \* the requests the application makes, in order: a sequence
                    \*   of [node, obj, kind, big, priority]
  MaxPending        \* bound: requests and answers on the bus

VARIABLES
  backend,          \* "native" or "web"
  session,          \* closed, open or ended
  at,               \* native thread: cmd, rx or tick
  cmds,             \* native: the command channel
  prio, queue,      \* SdoEngine::priority and queue, identifiers of requests
  active,           \* SdoEngine::active: {} or {[id, step]}
  pending,          \* tx_pending and SdoEngine::tx: request frames to transmit
  requests, answers,\* external: frames on the bus
  submitted,        \* requests made so far
  outcomes          \* history: per request, the outcomes delivered

panelVars == <<backend, session, at, cmds, prio, queue, active, pending, requests, answers,
               submitted, outcomes>>

ReqIds == 1..Len(Requests)
Req(id) == Requests[id]

PanelInit ==
  /\ backend \in {"native", "web"} /\ session = "closed" /\ at = "cmd"
  /\ cmds = <<>> /\ prio = <<>> /\ queue = <<>> /\ active = {} /\ pending = <<>>
  /\ requests = <<>> /\ answers = <<>>
  /\ submitted = 0 /\ outcomes = [id \in ReqIds |-> <<>>]

-----------------------------------------------------------------------------
(* The engine.                                                              *)

\* finish, for each of a set of requests.
Finished(out, ids, result) ==
  [id \in ReqIds |-> IF id \in ids THEN Append(out[id], result) ELSE out[id]]

OfNode(seq, n) == SelectSeq(seq, LAMBDA id : Req(id).node = n)
NotOfNode(seq, n) == SelectSeq(seq, LAMBDA id : Req(id).node # n)

\* NodeId::new and start_download refuse these before anything is sent.
Startable(id) == Req(id).node # NoNode /\ ~(Req(id).kind = "write" /\ Req(id).big)

RequestFrame(id, step) == [node |-> Req(id).node, obj |-> Req(id).obj, kind |-> Req(id).kind,
                           step |-> step]

\* tick, once the timeout was dealt with and nothing is active: requests that
\* cannot be started are finished, the first that can is started.
StartRequest(p, q, out) ==
  LET all == p \o q
      startable == {i \in DOMAIN all : Startable(all[i])}
      k == IF startable = {} THEN Len(all) + 1 ELSE Min(startable)
      refused == {all[i] : i \in 1..(k - 1)}
  IN [prio |-> SubSeq(p, k + 1, Len(p)),
      queue |-> SubSeq(q, (IF k > Len(p) THEN k - Len(p) ELSE 0) + 1, Len(q)),
      active |-> IF startable = {} THEN {} ELSE {[id |-> all[k], step |-> 1]},
      frames |-> IF startable = {} THEN <<>> ELSE <<RequestFrame(all[k], 1)>>,
      outcomes |-> Finished(out, refused, "refused")]

\* Mutant: the time-out forgets to take the active request out of the engine.
TickKeepsActive(out, act, timedOut) ==
  IF timedOut THEN [prio |-> prio, queue |-> queue, active |-> act, frames |-> <<>>,
                    outcomes |-> Finished(out, {a.id : a \in act}, "timeout")]
  ELSE IF act # {}
  THEN [prio |-> prio, queue |-> queue, active |-> act, frames |-> <<>>, outcomes |-> out]
  ELSE StartRequest(prio, queue, out)

\* tick
Tick(out, act, timedOut) ==
  IF act # {} /\ ~timedOut
  THEN [prio |-> prio, queue |-> queue, active |-> act, frames |-> <<>>, outcomes |-> out]
  ELSE StartRequest(prio, queue, Finished(out, {a.id : a \in act}, "timeout"))

\* Mutant: an answer is not compared with the object of the active request.
ExpectedAnyObject(a, r) == r.step = a.step /\ r.kind = Req(a.id).kind

\* SdoClient::process_response: the answer the active client waits for.  The
\* first answer names its object, a segment does not.
Expected(a, r) ==
  r.step = a.step /\ r.kind = Req(a.id).kind /\ (a.step = 1 => r.obj = Req(a.id).obj)

\* on_frame: the active request, the frame to send and the outcomes after
\* answer r.  An abort that names another object is ignored.
OnFrame(r) ==
  LET same == [active |-> active, frames |-> <<>>, outcomes |-> outcomes]
      ends(a, result) == [active |-> {}, frames |-> <<>>,
                          outcomes |-> Finished(outcomes, {a.id}, result)]
  IN IF \A a \in active : Req(a.id).node # r.node THEN same
     ELSE LET a == CHOOSE x \in active : TRUE
          IN CASE r.what = "abort" -> IF r.obj = Req(a.id).obj THEN ends(a, "abort") ELSE same
               [] r.what # "abort" /\ ~Expected(a, r) -> ends(a, "error")
               [] r.what = "more" /\ Expected(a, r) ->
                    [active |-> {[a EXCEPT !.step = 2]},
                     frames |-> <<RequestFrame(a.id, 2)>>, outcomes |-> outcomes]
               [] r.what = "done" /\ Expected(a, r) ->
                    ends(a, IF r.obj = Req(a.id).obj THEN "ok" ELSE "other object")

-----------------------------------------------------------------------------
(* The application and the native thread.                                   *)

\* Transport::open returns.
OpenSession ==
  /\ session = "closed" /\ session' \in {"open", "ended"}
  /\ UNCHANGED <<backend, at, cmds, prio, queue, active, pending, requests, answers, submitted,
                 outcomes>>

\* submit and submit_priority
Enqueue(id) ==
  /\ prio' = IF Req(id).priority THEN Append(prio, id) ELSE prio
  /\ queue' = IF Req(id).priority THEN queue ELSE Append(queue, id)

\* cancel_queued
CancelQueued(n) ==
  /\ prio' = NotOfNode(prio, n) /\ queue' = NotOfNode(queue, n)
  /\ outcomes' = Finished(outcomes, Range(OfNode(prio \o queue, n)), "cancelled")

\* send_cmd with a request: into the channel, or straight into the engine.
Submit ==
  /\ session # "ended" /\ submitted < Len(Requests)
  /\ submitted' = submitted + 1
  /\ IF backend = "native"
     THEN cmds' = Append(cmds, [cmd |-> "sdo", arg |-> submitted']) /\ UNCHANGED <<prio, queue>>
     ELSE Enqueue(submitted') /\ UNCHANGED cmds
  /\ UNCHANGED <<backend, session, at, active, pending, requests, answers, outcomes>>

\* send_cmd with CancelSdo.
Cancel(n) ==
  /\ session = "open"
  /\ IF backend = "native"
     THEN /\ \A i \in DOMAIN cmds : cmds[i].cmd # "cancel"
          /\ cmds' = Append(cmds, [cmd |-> "cancel", arg |-> n]) /\ UNCHANGED <<prio, queue, outcomes>>
     ELSE CancelQueued(n) /\ UNCHANGED cmds
  /\ UNCHANGED <<backend, session, at, active, pending, requests, answers, submitted>>

\* disconnect: the native thread sees the command behind the others; the
\* browser backend clears the engine at once.
DisconnectPanel ==
  /\ session = "open"
  /\ IF backend = "native"
     THEN /\ \A i \in DOMAIN cmds : cmds[i].cmd # "disconnect"
          /\ cmds' = Append(cmds, [cmd |-> "disconnect", arg |-> NoNode])
          /\ UNCHANGED <<session, prio, queue, active, pending>>
     ELSE /\ session' = "ended" /\ prio' = <<>> /\ queue' = <<>> /\ active' = {}
          /\ UNCHANGED <<cmds, pending>>
  /\ UNCHANGED <<backend, at, requests, answers, submitted, outcomes>>

\* The top of the thread's loop: at most one command.
ThreadCommand ==
  /\ backend = "native" /\ session = "open" /\ at = "cmd" /\ at' = "rx"
  /\ IF cmds = <<>> THEN UNCHANGED <<session, cmds, prio, queue, outcomes>>
     ELSE LET c == Head(cmds)
          IN /\ cmds' = Tail(cmds)
             /\ session' = IF c.cmd = "disconnect" THEN "ended" ELSE "open"
             /\ CASE c.cmd = "sdo" -> Enqueue(c.arg) /\ UNCHANGED outcomes
                  [] c.cmd = "cancel" -> CancelQueued(c.arg)
                  [] c.cmd = "disconnect" -> UNCHANGED <<prio, queue, outcomes>>
  /\ UNCHANGED <<backend, active, pending, requests, answers, submitted>>

\* transport.receive: a frame, nothing, or an error that ends the thread.
ThreadReceive ==
  /\ backend = "native" /\ session = "open" /\ at = "rx"
  /\ \/ /\ answers # <<>> /\ answers' = Tail(answers)
        /\ LET e == OnFrame(Head(answers))
           IN active' = e.active /\ pending' = pending \o e.frames /\ outcomes' = e.outcomes
        /\ at' = "tick" /\ UNCHANGED session
     \/ answers = <<>> /\ at' = "tick" /\ UNCHANGED <<session, active, pending, answers, outcomes>>
     \/ session' = "ended" /\ UNCHANGED <<at, active, pending, answers, outcomes>>
  /\ UNCHANGED <<backend, cmds, prio, queue, requests, submitted>>

\* tick, then tx_pending is transmitted until the transport would block; an
\* error ends the thread.  None of the transports displaces a frame.
ThreadTick(timedOut) ==
  /\ backend = "native" /\ session = "open" /\ at = "tick" /\ at' = "cmd"
  /\ LET e == Tick(outcomes, active, timedOut)
         frames == pending \o e.frames
     IN /\ prio' = e.prio /\ queue' = e.queue /\ active' = e.active /\ outcomes' = e.outcomes
        /\ \E m \in 0..Len(frames) :
             /\ Len(requests) + m <= MaxPending
             /\ requests' = requests \o SubSeq(frames, 1, m)
             /\ pending' = SubSeq(frames, m + 1, Len(frames))
  /\ session' \in {"open", "ended"}
  /\ UNCHANGED <<backend, cmds, answers, submitted>>

\* try_recv_event of the browser backend: one transport event, then tick and
\* everything is sent.  A frame steps the engine, the end of the connection
\* clears it.
WebPoll(timedOut) ==
  /\ backend = "web" /\ session = "open"
  /\ \/ /\ \/ answers # <<>> /\ answers' = Tail(answers)
           \/ answers = <<>> /\ UNCHANGED answers
        /\ LET f == IF answers # <<>> THEN OnFrame(Head(answers))
                    ELSE [active |-> active, frames |-> <<>>, outcomes |-> outcomes]
               e == Tick(f.outcomes, f.active, timedOut)
               frames == f.frames \o e.frames
           IN /\ Len(requests) + Len(frames) <= MaxPending
              /\ prio' = e.prio /\ queue' = e.queue /\ active' = e.active
              /\ outcomes' = e.outcomes /\ requests' = requests \o frames
        /\ UNCHANGED session
     \/ /\ session' = "ended" /\ prio' = <<>> /\ queue' = <<>> /\ active' = {}
        /\ UNCHANGED <<answers, requests, outcomes>>
  /\ UNCHANGED <<backend, at, cmds, pending, submitted>>

-----------------------------------------------------------------------------
\* External: a server answers the oldest request on the bus, or the request or
\* its answer is lost.
ServerAnswers(what) ==
  /\ requests # <<>> /\ Len(answers) < MaxPending
  /\ requests' = Tail(requests)
  /\ LET r == Head(requests)
     IN /\ what = "more" => r.step = 1
        /\ answers' = Append(answers, [node |-> r.node, obj |-> r.obj, kind |-> r.kind,
                                       step |-> r.step, what |-> what])
  /\ UNCHANGED <<backend, session, at, cmds, prio, queue, active, pending, submitted, outcomes>>

ServerSilent ==
  /\ requests # <<>> /\ requests' = Tail(requests)
  /\ UNCHANGED <<backend, session, at, cmds, prio, queue, active, pending, answers, submitted,
                 outcomes>>

PanelNext ==
  \/ OpenSession \/ Submit \/ DisconnectPanel \/ ServerSilent
  \/ \E n \in Nodes : Cancel(n)
  \/ ThreadCommand \/ ThreadReceive
  \/ \E timedOut \in BOOLEAN : ThreadTick(timedOut) \/ WebPoll(timedOut)
  \/ \E what \in {"done", "more", "abort"} : ServerAnswers(what)

\* The thread runs, the application polls, and 500 ms pass for a transfer that
\* makes no progress.
PanelFairness ==
  /\ WF_panelVars(OpenSession) /\ WF_panelVars(ThreadCommand) /\ WF_panelVars(ThreadReceive)
  /\ WF_panelVars(ServerSilent)
  /\ SF_panelVars(ThreadTick(TRUE)) /\ SF_panelVars(WebPoll(TRUE))

-----------------------------------------------------------------------------
\* A request is answered once at most, with what a server said about its own
\* object (late answers to requests that timed out included), and one that is
\* not answered yet is in just one place: the channel, one of the queues, or
\* active (submit, tick, on_frame, clear).  Only the session's end loses them.
OutcomesRight ==
  \A id \in ReqIds :
    LET places == Cardinality({i \in DOMAIN cmds : cmds[i].cmd = "sdo" /\ cmds[i].arg = id})
                  + Cardinality({i \in DOMAIN prio : prio[i] = id})
                  + Cardinality({i \in DOMAIN queue : queue[i] = id})
                  + Cardinality({a \in active : a.id = id})
    IN /\ Len(outcomes[id]) + places <= 1
       /\ id <= submitted /\ session # "ended" => Len(outcomes[id]) + places = 1
       /\ \A i \in DOMAIN outcomes[id] : outcomes[id][i] # "other object"

\* "A silent server must not wedge the queue behind it forever" (sdo.rs): once
\* no more are submitted, all requests get an outcome or the session ends.
Unanswered == {id \in ReqIds : id <= submitted /\ outcomes[id] = <<>>}
RequestsAnswered == Unanswered # {} ~> (Unanswered = {} \/ session = "ended")
=============================================================================
