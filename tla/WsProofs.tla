------------------------------ MODULE WsProofs ------------------------------
(***************************************************************************)
(* What the two ends of a WebSocket promise:                               *)
(*   WsTransport  no frame is written late, and Drop is bounded if the     *)
(*                thread is scheduled promptly, for every age limit and    *)
(*                close time-out;                                          *)
(*   WsServer     a session is a faithful pipe, for every capacity of the  *)
(*                channels to the node.                                    *)
(***************************************************************************)
EXTENDS WsTransport, WsServer, TLAPS

-----------------------------------------------------------------------------
(* The WebSocket transport.                                                *)
WsTyped ==
  /\ thread \in {"connecting", "loop", "sending", "closing", "exited"}
  /\ txq \in Seq(Nat)
  /\ age \in Nat /\ oldest \in Nat /\ waited \in Nat

\* A write in progress is within the lifetime of its frame, and a close in
\* progress within its time-out: the timers that send_before_expiry and
\* close_before_timeout arm.
TimersHold ==
  /\ thread = "sending" => age <= MaxTransmitAge
  /\ thread = "closing" => age <= CloseTimeout

FreshInv == WsTyped /\ TimersHold /\ NothingStale

\* How long Drop has waited, by what the thread is doing.  A frame in the queue
\* is as old as the wait at least, since nothing is queued after the drop began.
DropInv ==
  /\ thread = "connecting" => handle = "connecting"
  /\ thread = "closing" => handle = "dropping"
  /\ handle \notin {"dropping", "dropped"} => waited = 0
  /\ waited <= MaxTransmitAge + CloseTimeout
  /\ handle = "dropping" =>
       /\ \A i \in 1..Len(txq) : txq[i] >= waited \/ txq[i] > MaxTransmitAge
       /\ thread = "loop" => waited <= MaxTransmitAge
       /\ thread = "sending" => waited <= age
       /\ thread = "closing" => waited <= MaxTransmitAge + age

-----------------------------------------------------------------------------
\* A tick ages the frames of the queue and keeps their places.
LEMMA AgedQueue ==
    ASSUME WsTyped, WsTick
    PROVE  /\ txq' \in Seq(Nat) /\ Len(txq') = Len(txq)
           /\ \A i \in 1..Len(txq) : txq[i] \in Nat
                /\ txq'[i] = IF txq[i] > MaxTransmitAge THEN txq[i] ELSE txq[i] + 1
<1>1. Len(txq) \in Nat /\ DOMAIN txq = 1..Len(txq) /\ \A i \in 1..Len(txq) : txq[i] \in Nat
  BY DEF WsTyped
<1>2. txq' \in [1..Len(txq) -> Nat]
  BY <1>1 DEF WsTick
<1>3. txq' \in Seq(Nat) /\ Len(txq') = Len(txq)
  BY <1>1, <1>2
<1> QED BY <1>1, <1>3 DEF WsTick

(* Every step keeps the timers within their limits.                        *)
LEMMA FreshStep ==
    ASSUME FreshInv, [WsNext]_wsVars
    PROVE  FreshInv'
<1> USE WsConfig DEF FreshInv, WsTyped, TimersHold, NothingStale
<1>1. ASSUME Connect \/ WsReceive \/ WsSendEnds \/ Closed \/ ServerCloses \/ Drop \/ Joined
      PROVE  FreshInv'
  BY <1>1 DEF Connect, WsReceive, WsSendEnds, Closed, ServerCloses, Drop, Joined
<1>2. ASSUME WsTransmit PROVE FreshInv'
  BY <1>2 DEF WsTransmit
<1>3. ASSUME TakeQueued PROVE FreshInv'
  <2>1. Head(txq) \in Nat /\ Tail(txq) \in Seq(Nat)
    BY <1>3 DEF TakeQueued
  <2> QED BY <1>3, <2>1 DEF TakeQueued
<1>4. ASSUME BeginClose PROVE FreshInv'
  BY <1>4 DEF BeginClose
<1>5. ASSUME WsSent PROVE FreshInv'
  BY <1>5 DEF WsSent
<1>6. ASSUME NEW decodes \in BOOLEAN, BinaryMessage(decodes) PROVE FreshInv'
  BY <1>6 DEF BinaryMessage
<1>7. ASSUME WsTick PROVE FreshInv'
  <2>1. txq' \in Seq(Nat)
    BY <1>7, AgedQueue
  <2> QED BY <1>7, <2>1 DEF WsTick, WriteTimedOut, CloseTimedOut
<1>8. ASSUME UNCHANGED wsVars PROVE FreshInv'
  BY <1>8 DEF wsVars
<1> QED BY <1>1, <1>2, <1>3, <1>4, <1>5, <1>6, <1>7, <1>8 DEF WsNext

\* No write to the WebSocket completes for a frame that transmit accepted more
\* than max_transmit_age ago (send_before_expiry).
THEOREM WsNothingStale == WsSpec => []NothingStale
<1>1. WsInit => FreshInv
  BY WsConfig DEF WsInit, FreshInv, WsTyped, TimersHold, NothingStale
<1>2. FreshInv /\ [WsNext]_wsVars => FreshInv'
  BY FreshStep
<1>3. FreshInv => NothingStale
  BY DEF FreshInv
<1> QED BY <1>1, <1>2, <1>3, PTL DEF WsSpec

-----------------------------------------------------------------------------
(* Every step keeps the wait of Drop within what the thread is doing.      *)
LEMMA DropStep ==
    ASSUME Prompt, FreshInv, DropInv, [WsNext]_wsVars
    PROVE  DropInv'
<1> USE WsConfig DEF FreshInv, WsTyped, TimersHold, DropInv
<1>1. ASSUME Connect \/ WsReceive \/ WsSendEnds \/ Closed \/ ServerCloses \/ WsSent \/ Joined
      PROVE  DropInv'
  BY <1>1 DEF Connect, WsReceive, WsSendEnds, Closed, ServerCloses, WsSent, Joined
<1>2. ASSUME WsTransmit PROVE DropInv'
  BY <1>2 DEF WsTransmit
<1>3. ASSUME TakeQueued PROVE DropInv'
  <2>1. /\ Len(txq) >= 1 /\ Head(txq) = txq[1] /\ Head(txq) \in Nat
        /\ Len(Tail(txq)) = Len(txq) - 1
        /\ \A i \in 1..Len(Tail(txq)) : Tail(txq)[i] = txq[i + 1]
    BY <1>3 DEF TakeQueued
  <2>2. handle = "dropping" => Head(txq) >= waited \/ Head(txq) > MaxTransmitAge
    BY <2>1
  <2>3. handle = "dropping" =>
          \A i \in 1..Len(txq') : txq'[i] >= waited' \/ txq'[i] > MaxTransmitAge
    BY <1>3, <2>1 DEF TakeQueued
  <2> QED BY <1>3, <2>1, <2>2, <2>3 DEF TakeQueued
<1>4. ASSUME BeginClose PROVE DropInv'
  BY <1>4 DEF BeginClose
<1>5. ASSUME Drop PROVE DropInv'
  BY <1>5 DEF Drop
<1>6. ASSUME NEW decodes \in BOOLEAN, BinaryMessage(decodes) PROVE DropInv'
  BY <1>6 DEF BinaryMessage
<1>7. ASSUME WsTick PROVE DropInv'
  <2>1. /\ Len(txq') = Len(txq)
        /\ \A i \in 1..Len(txq) : txq[i] \in Nat
             /\ txq'[i] = IF txq[i] > MaxTransmitAge THEN txq[i] ELSE txq[i] + 1
    BY <1>7, AgedQueue
  <2>2. thread' = thread /\ handle' = handle
    BY <1>7 DEF WsTick
  <2>3. CASE handle = "dropping"
    <3>1. thread \in {"sending", "closing"}
      BY <2>3, <1>7 DEF WsTick, ThreadReady
    <3>2. waited' \in {waited, waited + 1} /\ age' = IF thread \in {"sending", "closing"} THEN age + 1 ELSE 0
      BY <1>7 DEF WsTick
    <3>3. \A i \in 1..Len(txq') : txq'[i] >= waited' \/ txq'[i] > MaxTransmitAge
      BY <2>1, <2>3, <3>2
    <3>4. CASE thread = "sending"
      <4>1. age < MaxTransmitAge
        BY <1>7, <3>4 DEF WsTick, WriteTimedOut
      <4> QED BY <2>2, <2>3, <3>2, <3>3, <3>4, <4>1
    <3>5. CASE thread = "closing"
      <4>1. age < CloseTimeout
        BY <1>7, <3>5 DEF WsTick, CloseTimedOut
      <4> QED BY <2>2, <2>3, <3>2, <3>3, <3>5, <4>1
    <3> QED BY <3>1, <3>4, <3>5
  <2>4. CASE handle # "dropping"
    BY <2>2, <2>4, <1>7 DEF WsTick
  <2> QED BY <2>3, <2>4
<1>8. ASSUME UNCHANGED wsVars PROVE DropInv'
  BY <1>8 DEF wsVars
<1> QED BY <1>1, <1>2, <1>3, <1>4, <1>5, <1>6, <1>7, <1>8 DEF WsNext

\* Dropping the transport costs at most the lifetime of a frame and the close
\* time-out together, if the thread runs as soon as it can (Drop::drop).
THEOREM WsDropBounded == WsSpec => []DropBounded
<1> DEFINE Inv == FreshInv /\ (Prompt => DropInv)
<1>1. WsInit => Inv
  BY WsConfig DEF WsInit, FreshInv, WsTyped, TimersHold, NothingStale, DropInv
<1>2. Inv /\ [WsNext]_wsVars => Inv'
  BY FreshStep, DropStep
<1>3. Inv => DropBounded
  BY DEF DropInv, DropBounded
<1> QED BY <1>1, <1>2, <1>3, PTL DEF WsSpec

-----------------------------------------------------------------------------
(* The WebSocket server.                                                   *)
Request == [session : Nat, message : Nat]
Piece == [message : Nat, part : Nat]

SessionOf(r) == r.session
MessageOf(r) == r.message
PartOf(p) == p.part

(* The messages of session s among the node's frames q, after those it     *)
(* took, h, are in order.                                                  *)
Ascending(h) == \A j, k \in 1..Len(h) : j < k => h[j] < h[k]

Queued(q, s) == {k \in 1..Len(q) : SessionOf(q[k]) = s}

Orderly(h, q, s) ==
    /\ Ascending(h)
    /\ \A j, k \in Queued(q, s) : j < k => MessageOf(q[j]) < MessageOf(q[k])
    /\ \A j \in 1..Len(h), k \in Queued(q, s) : h[j] < MessageOf(q[k])

Passed(i, h, q, s) ==
    \/ \E j \in 1..Len(h) : h[j] = i
    \/ \E k \in Queued(q, s) : MessageOf(q[k]) = i

(* What is left of the stream: the pieces of the messages said, in order.  *)
StreamInv ==
    /\ stream \in Seq(Piece) /\ Len(stream) <= 3 * Len(said)
    /\ \A i \in 1..Len(stream) :
         /\ PartOf(stream[i]) \in 1..3
         /\ PartOf(stream[i]) + 3 * MessageOf(stream[i]) = 3 + 3 * Len(said) - Len(stream) + i

(* The pieces read of a message that is not at its end.                   *)
Begun == IF server = "body" THEN 2 ELSE header_len

(* f messages were read to the end, and the server stands within the next. *)
Stands(f) ==
    /\ 3 * Len(said) = Len(stream) + 3 * f + Begun
    /\ Begun # 0 => header = f + 1

(* The classic frames among the first f messages, and no others, were      *)
(* handed to the node or wait for it.                                      *)
Delivered(f) ==
    \A i \in Nat : Passed(i, nodeHeard, node_rx, session) <=> i \in 1..f /\ said[i] = "classic"

Standing ==
    \E f \in 0..Len(said) : (InSession => Stands(f)) /\ Delivered(f)

WsTypes ==
    /\ session \in Nat /\ said \in Seq(MessageKinds) /\ nodeHeard \in Seq(Nat)
    /\ node_rx \in Seq(Request) /\ node_tx \in Seq(Nat) /\ got \in Seq(Nat)
    /\ header_len \in {0, 1} /\ server \in {"accept", "request", "top", "header", "body"}
    /\ server = "body" => header_len = 0
    /\ server = "request" => said = <<>> /\ stream = <<>>
    /\ \A k \in 1..Len(node_rx) : SessionOf(node_rx[k]) <= session

Heard == 
    /\ InSession => \A i \in 1..Len(node_tx) : node_tx[i] = session
    /\ \A i \in 1..Len(got) : got[i] = session

WsServerInv ==
    /\ WsTypes /\ ~ broken /\ Heard
    /\ InSession => StreamInv
    /\ Orderly(nodeHeard, node_rx, session) /\ Standing

(* The message and the session a request belongs to.                       *)
LEMMA MessageNumbers ==
    \A r \in Request : MessageOf(r) \in Nat /\ SessionOf(r) \in Nat
BY DEF Request, MessageOf, SessionOf

(* A frame joins the channel to the node: it is newer than all of its      *)
(* session.                                                                *)
LEMMA QueueFrame ==
    ASSUME NEW h \in Seq(Nat), NEW q \in Seq(Request), NEW s \in Nat, NEW m \in Nat,
           Orderly(h, q, s), \A i \in Nat : Passed(i, h, q, s) => i < m
    PROVE  LET r == [session |-> s, message |-> m]
           IN  /\ Append(q, r) \in Seq(Request)
               /\ Orderly(h, Append(q, r), s)
               /\ \A i \in Nat : Passed(i, h, Append(q, r), s) <=> Passed(i, h, q, s) \/ i = m
<1> DEFINE r == [session |-> s, message |-> m]
           n == Append(q, r)
           l == Len(q)
<1>1. r \in Request /\ SessionOf(r) = s /\ MessageOf(r) = m
  BY DEF Request, SessionOf, MessageOf
<1> HIDE DEF r
<1>2. n \in Seq(Request) /\ Len(n) = l + 1 /\ n[l + 1] = r /\ l \in Nat
      /\ \A k \in 1..l : n[k] = q[k]
  BY <1>1
<1>3. \A k \in 1..l : q[k] \in Request /\ MessageOf(q[k]) \in Nat
  BY MessageNumbers
<1>4. \A j \in 1..Len(h) : h[j] \in Nat
  OBVIOUS
<1> HIDE DEF n
<1>5. Queued(n, s) = Queued(q, s) \cup {l + 1}
  <2>1. ASSUME NEW k PROVE k \in Queued(n, s) <=> k \in Queued(q, s) \cup {l + 1}
    <3>1. k \in 1..Len(n) <=> k \in 1..l \/ k = l + 1
      BY <1>2
    <3> QED BY <3>1, <1>1, <1>2 DEF Queued
  <2> QED BY <2>1
<1>6. \A k \in Queued(q, s) : k \in 1..l /\ n[k] = q[k] /\ MessageOf(q[k]) \in Nat /\ MessageOf(q[k]) < m
  BY <1>2, <1>3 DEF Queued, Passed
<1>7. \A j \in 1..Len(h) : h[j] < m
  BY <1>4 DEF Passed
<1> HIDE DEF l
<1>8. Orderly(h, n, s)
  <2>1. ASSUME NEW j \in Queued(n, s), NEW k \in Queued(n, s), j < k
        PROVE  MessageOf(n[j]) < MessageOf(n[k])
    <3>1. CASE k = l + 1
      <4>1. j \in Queued(q, s)
        BY <1>5, <2>1, <3>1, <1>2
      <4> QED BY <4>1, <1>6, <1>1, <1>2, <3>1
    <3>2. CASE k \in Queued(q, s)
      <4>1. j \in Queued(q, s)
        <5>1. j # l + 1
          BY <3>2, <1>6, <2>1, <1>2
        <5> QED BY <5>1, <1>5
      <4> QED BY <4>1, <3>2, <1>6, <2>1 DEF Orderly
    <3> QED BY <3>1, <3>2, <1>5
  <2>2. ASSUME NEW j \in 1..Len(h), NEW k \in Queued(n, s)
        PROVE  h[j] < MessageOf(n[k])
    BY <1>5, <1>6, <1>7, <1>1, <1>2 DEF Orderly
  <2> QED BY <2>1, <2>2 DEF Orderly
<1>9. \A i \in Nat : Passed(i, h, n, s) <=> Passed(i, h, q, s) \/ i = m
  BY <1>5, <1>6, <1>1, <1>2 DEF Passed
<1> QED BY <1>2, <1>8, <1>9, Zenon DEF n, r

(* The node takes the first frame of the channel; it counts if it is of    *)
(* this session.                                                           *)
LEMMA TakeFrame ==
    ASSUME NEW h \in Seq(Nat), NEW q \in Seq(Request), NEW s \in Nat, q # <<>>,
           Orderly(h, q, s),
           NEW g, g = IF SessionOf(Head(q)) = s THEN Append(h, MessageOf(Head(q))) ELSE h
    PROVE  /\ g \in Seq(Nat) /\ Tail(q) \in Seq(Request)
           /\ Orderly(g, Tail(q), s)
           /\ \A i : Passed(i, g, Tail(q), s) <=> Passed(i, h, q, s)
           /\ \A k \in 1..Len(Tail(q)) : \E j \in 1..Len(q) : Tail(q)[k] = q[j]
<1> DEFINE t == Tail(q)
           l == Len(t)
<1>1. /\ t \in Seq(Request) /\ l \in Nat /\ Len(q) = l + 1 /\ Head(q) = q[1]
      /\ \A k \in 1..l : t[k] = q[k + 1]
  OBVIOUS
<1>2. \A k \in 1..Len(q) : q[k] \in Request /\ MessageOf(q[k]) \in Nat
  BY MessageNumbers
<1>3. \A j \in 1..Len(h) : h[j] \in Nat
  OBVIOUS
<1> HIDE DEF t, l
<1>4. \A k : k \in Queued(t, s) <=> k \in 1..l /\ k + 1 \in Queued(q, s)
  BY <1>1 DEF Queued, l
<1>5. \A k \in 1..Len(t) : \E j \in 1..Len(q) : t[k] = q[j]
  <2>1. \A k \in 1..l : k + 1 \in 1..Len(q)
    BY <1>1
  <2> QED BY Zenon, <2>1, <1>1 DEF l
<1>6. \A j \in Queued(q, s) : j = 1 \/ (j - 1 \in Queued(t, s) /\ q[j] = t[j - 1])
  <2>1. \A j \in 1..Len(q) : j = 1 \/ (j - 1 \in 1..l /\ (j - 1) + 1 = j)
    BY <1>1
  <2> QED BY Zenon, <2>1, <1>1, <1>4 DEF Queued
<1>7. \A k \in Queued(t, s) : k \in 1..l /\ k \in Nat /\ k + 1 \in Queued(q, s) /\ t[k] = q[k + 1]
  BY <1>1, <1>4
<1>8. \A j, k \in Queued(t, s) : j < k => MessageOf(t[j]) < MessageOf(t[k])
  <2> SUFFICES ASSUME NEW j \in Queued(t, s), NEW k \in Queued(t, s), j < k
               PROVE  MessageOf(t[j]) < MessageOf(t[k])
    OBVIOUS
  <2>1. j + 1 < k + 1 /\ j + 1 \in Queued(q, s) /\ k + 1 \in Queued(q, s)
    BY <1>7
  <2> QED BY <2>1, <1>7 DEF Orderly
<1>9. CASE SessionOf(Head(q)) # s
  <2>1. g = h /\ 1 \notin Queued(q, s)
    BY <1>1, <1>9 DEF Queued
  <2>2. Orderly(g, t, s)
    BY <2>1, <1>7, <1>8 DEF Orderly
  <2>3. ASSUME NEW i PROVE Passed(i, g, t, s) <=> Passed(i, h, q, s)
    BY <2>1, <1>6, <1>7 DEF Passed
  <2> QED BY <2>1, <2>2, <2>3, <1>1, <1>5 DEF t
<1>10. CASE SessionOf(Head(q)) = s
  <2> DEFINE a == Len(h)
             m == MessageOf(q[1])
  <2>1. 1 \in 1..Len(q) /\ 1 \in Queued(q, s) /\ m \in Nat
    BY <1>1, <1>2, <1>10 DEF Queued
  <2> HIDE DEF m
  <2>2. g = Append(h, m)
    BY <1>1, <1>10 DEF m
  <2>3. a \in Nat /\ g \in Seq(Nat) /\ Len(g) = a + 1 /\ g[a + 1] = m /\ \A j \in 1..a : g[j] = h[j]
    BY <2>1, <2>2
  <2> HIDE DEF a
  <2>4. \A j : j \in 1..Len(g) <=> j \in 1..a \/ j = a + 1
    BY <2>3
  <2>5. \A j \in 1..a : h[j] < m /\ h[j] \in Nat
    BY <2>1, <1>3 DEF Orderly, a, m
  <2>6. \A k \in Queued(t, s) : m < MessageOf(t[k])
    <3> SUFFICES ASSUME NEW k \in Queued(t, s) PROVE m < MessageOf(t[k])
      OBVIOUS
    <3>1. 1 < k + 1 /\ k + 1 \in Queued(q, s) /\ t[k] = q[k + 1]
      BY <1>7
    <3> QED BY <3>1, <2>1 DEF Orderly, m
  <2>7. Ascending(g)
    <3> SUFFICES ASSUME NEW j \in 1..Len(g), NEW k \in 1..Len(g), j < k PROVE g[j] < g[k]
      BY DEF Ascending
    <3>1. j \in 1..a
      BY <2>3, <2>4
    <3>2. CASE k = a + 1
      BY <3>1, <3>2, <2>3, <2>5
    <3>3. CASE k \in 1..a
      BY <3>1, <3>3, <2>3 DEF Orderly, Ascending, a
    <3> QED BY Zenon, <3>2, <3>3, <2>4
  <2>8. ASSUME NEW j \in 1..Len(g), NEW k \in Queued(t, s) PROVE g[j] < MessageOf(t[k])
    <3>1. CASE j = a + 1
      BY <3>1, <2>3, <2>6
    <3>2. CASE j \in 1..a
      <4>1. k + 1 \in Queued(q, s) /\ t[k] = q[k + 1]
        BY <1>7
      <4> QED BY <3>2, <4>1, <2>3 DEF Orderly, a
    <3> QED BY <3>1, <3>2, <2>4
  <2>9. Orderly(g, t, s)
    BY <2>7, <2>8, <1>8 DEF Orderly
  <2>10. ASSUME NEW i PROVE Passed(i, g, t, s) <=> Passed(i, h, q, s)
    <3>1. (\E j \in 1..Len(g) : g[j] = i) <=> i = m \/ \E j \in 1..Len(h) : h[j] = i
      BY <2>3, <2>4 DEF a
    <3>2. (\E k \in Queued(q, s) : MessageOf(q[k]) = i)
             <=> i = m \/ \E k \in Queued(t, s) : MessageOf(t[k]) = i
      BY <2>1, <1>6, <1>7 DEF m
    <3> QED BY <3>1, <3>2 DEF Passed
  <2> QED BY <2>3, <2>9, <2>10, <1>1, <1>5 DEF t
<1> QED BY <1>9, <1>10

(* Before the first connection.                                            *)
LEMMA ServerStart ==
    ASSUME WsServerInit PROVE WsServerInv
<1>1. /\ server = "accept" /\ session = 0 /\ stream = <<>> /\ header_len = 0
      /\ node_rx = <<>> /\ node_tx = <<>> /\ said = <<>> /\ nodeHeard = <<>> /\ got = <<>> /\ ~ broken
  BY DEF WsServerInit
<1>2. WsTypes /\ Heard
  BY <1>1 DEF WsTypes, Heard, InSession
<1>3. Len(said) = 0 /\ Len(node_rx) = 0 /\ Len(nodeHeard) = 0
  BY <1>1
<1>4. Orderly(nodeHeard, node_rx, session)
  BY <1>3 DEF Orderly, Ascending, Queued
<1>5. Delivered(0)
  BY <1>3 DEF Delivered, Passed, Queued
<1> QED BY <1>1, <1>2, <1>3, <1>4, <1>5 DEF WsServerInv, Standing, InSession

(* A connection is accepted and begins a session with a number of its own. *)
LEMMA AcceptKeeps ==
    ASSUME WsServerInv, Accept PROVE WsServerInv'
<1>1. /\ server' = "request" /\ session' = session + 1 /\ stream' = <<>> /\ said' = <<>>
      /\ nodeHeard' = <<>> /\ got' = <<>>
      /\ UNCHANGED <<header_len, header, node_rx, node_tx, spoken, broken>>
  BY DEF Accept
<1>2. WsTypes /\ ~ broken
  BY DEF WsServerInv
<1>3. \A k \in 1..Len(node_rx) : SessionOf(node_rx[k]) \in Nat
  BY <1>2, MessageNumbers DEF WsTypes
<1>4. Len(said') = 0 /\ Len(nodeHeard') = 0 /\ Len(got') = 0
  BY <1>1
<1>5. \A k \in 1..Len(node_rx) : SessionOf(node_rx[k]) < session'
  BY <1>1, <1>2, <1>3 DEF WsTypes
<1>6. Queued(node_rx', session') = {}
  BY <1>1, <1>2, <1>3, <1>5 DEF Queued, WsTypes
<1>7. WsTypes'
  <2>1. \A k \in 1..Len(node_rx) : SessionOf(node_rx[k]) <= session'
    BY <1>1, <1>2, <1>3, <1>5 DEF WsTypes
  <2> QED BY <1>1, <1>2, <2>1 DEF WsTypes
<1>8. Heard'
  BY <1>1, <1>4 DEF Heard, InSession
<1>9. Orderly(nodeHeard', node_rx', session')
  BY <1>4, <1>6 DEF Orderly, Ascending
<1>10. Delivered(0)'
  BY <1>4, <1>6 DEF Delivered, Passed
<1>11. Standing'
  BY <1>1, <1>4, <1>10 DEF Standing, InSession
<1> QED BY <1>1, <1>2, <1>7, <1>8, <1>9, <1>11 DEF WsServerInv, InSession

(* A connection ends; what it queued stays in the channel.                 *)
LEMMA EndKeeps ==
    ASSUME WsServerInv, EndConnection, UNCHANGED <<node_rx, history>>
    PROVE  WsServerInv'
<1>1. /\ server' = "accept" /\ stream' = <<>>
      /\ UNCHANGED <<session, header_len, header, node_tx, node_rx, said, nodeHeard, got, spoken, broken>>
  BY DEF EndConnection, history
<1>2. WsTypes' /\ Heard'
  BY <1>1 DEF WsServerInv, WsTypes, Heard, InSession
<1>3. PICK f \in 0..Len(said) : Delivered(f)
  BY DEF WsServerInv, Standing
<1>4. Delivered(f)'
  BY <1>1, <1>3 DEF Delivered
<1> QED BY <1>1, <1>2, <1>4 DEF WsServerInv, Standing, InSession

(* The handshake: what the node queued for nobody is discarded.            *)
LEMMA OpenKeeps ==
    ASSUME WsServerInv, OpenSession PROVE WsServerInv'
<1>1. /\ server = "request" /\ server' = "top" /\ node_tx' = <<>> /\ header_len' = 0
      /\ UNCHANGED <<session, stream, header, node_rx, said, nodeHeard, got, spoken, broken>>
  BY DEF OpenSession, history
<1>2. said = <<>> /\ stream = <<>> /\ Len(said) = 0 /\ Len(stream) = 0 /\ Len(node_tx') = 0
  BY <1>1 DEF WsServerInv, WsTypes
<1>3. WsTypes' /\ Heard'
  BY <1>1, <1>2 DEF WsServerInv, WsTypes, Heard
<1>4. StreamInv'
  BY <1>1, <1>2 DEF StreamInv
<1>5. PICK f \in 0..Len(said) : Delivered(f)
  BY DEF WsServerInv, Standing
<1>6. f = 0
  BY <1>2
<1>7. Delivered(f)'
  BY <1>1, <1>5 DEF Delivered
<1>8. Stands(f)'
  BY <1>1, <1>2, <1>6 DEF Stands, Begun
<1>9. Standing'
  BY <1>1, <1>7, <1>8 DEF Standing
<1> QED BY <1>1, <1>3, <1>4, <1>9 DEF WsServerInv

(* A frame of the node is forwarded to the client of the session.          *)
LEMMA ForwardKeeps ==
    ASSUME WsServerInv, Forward PROVE WsServerInv'
<1>1. /\ server = "top" /\ server' \in {"top", "header"}
      /\ UNCHANGED <<session, stream, header_len, header, node_rx, said, nodeHeard, spoken, broken>>
      /\ \/ node_tx' = node_tx /\ got' = got
         \/ node_tx # <<>> /\ node_tx' = Tail(node_tx) /\ got' = Append(got, Head(node_tx))
  BY DEF Forward
<1>2. WsTypes /\ Heard /\ InSession /\ StreamInv
  BY <1>1 DEF WsServerInv, InSession
<1>3. /\ node_tx' \in Seq(Nat) /\ got' \in Seq(Nat)
      /\ \A i \in 1..Len(node_tx') : node_tx'[i] = session
      /\ \A i \in 1..Len(got') : got'[i] = session
  <2>1. /\ node_tx \in Seq(Nat) /\ got \in Seq(Nat)
        /\ \A i \in 1..Len(node_tx) : node_tx[i] = session
        /\ \A i \in 1..Len(got) : got[i] = session
    BY <1>2 DEF WsTypes, Heard
  <2>2. CASE node_tx' = node_tx /\ got' = got
    BY <2>1, <2>2
  <2>3. CASE node_tx # <<>> /\ node_tx' = Tail(node_tx) /\ got' = Append(got, Head(node_tx))
    <3>1. Head(node_tx) = session /\ Head(node_tx) \in Nat
      BY <2>1, <2>3
    <3>2. node_tx' \in Seq(Nat) /\ got' \in Seq(Nat)
      BY <2>1, <2>3, <3>1
    <3>3. ASSUME NEW i \in 1..Len(node_tx') PROVE node_tx'[i] = session
      BY <2>1, <2>3
    <3>4. ASSUME NEW i \in 1..Len(got') PROVE got'[i] = session
      BY <2>1, <2>3, <3>1
    <3> QED BY <3>2, <3>3, <3>4
  <2> QED BY <1>1, <2>2, <2>3
<1>4. WsTypes' /\ Heard'
  BY <1>1, <1>2, <1>3 DEF WsTypes, Heard
<1>5. StreamInv'
  BY <1>1, <1>2 DEF StreamInv
<1>6. PICK f \in 0..Len(said) : Stands(f) /\ Delivered(f)
  BY <1>2 DEF WsServerInv, Standing
<1>7. Stands(f)' /\ Delivered(f)'
  BY <1>1, <1>6 DEF Stands, Delivered, Begun
<1>8. Standing'
  BY <1>1, <1>7 DEF Standing
<1> QED BY <1>1, <1>4, <1>5, <1>8 DEF WsServerInv

(* A header that does not arrive in time is resumed later.                 *)
LEMMA TimeoutKeeps ==
    ASSUME WsServerInv, HeaderTimeout PROVE WsServerInv'
<1>1. /\ server = "header" /\ server' = "top"
      /\ UNCHANGED <<session, stream, header_len, header, node_rx, node_tx, said, nodeHeard, got, spoken, broken>>
  BY DEF HeaderTimeout, history
<1>2. WsTypes' /\ Heard' /\ StreamInv'
  BY <1>1 DEF WsServerInv, WsTypes, Heard, StreamInv, InSession
<1>3. PICK f \in 0..Len(said) : Stands(f) /\ Delivered(f)
  BY <1>1 DEF WsServerInv, Standing, InSession
<1>4. Stands(f)' /\ Delivered(f)'
  BY <1>1, <1>3 DEF Stands, Delivered, Begun
<1>5. Standing'
  BY <1>1, <1>4 DEF Standing
<1> QED BY <1>1, <1>2, <1>5 DEF WsServerInv

(* One piece of the byte stream is read: the pieces left are those of the  *)
(* messages left.                                                          *)
LEMMA StreamTail ==
    ASSUME StreamInv, said \in Seq(MessageKinds), stream # <<>>, stream' = Tail(stream), said' = said
    PROVE  /\ StreamInv' /\ Len(stream) \in Nat /\ Len(stream') = Len(stream) - 1
           /\ PartOf(Head(stream)) \in 1..3 /\ MessageOf(Head(stream)) \in Nat
           /\ PartOf(Head(stream)) + 3 * MessageOf(Head(stream)) = 4 + 3 * Len(said) - Len(stream)
<1> DEFINE t == Tail(stream)
           l == Len(stream)
           n == Len(said)
<1>1. stream \in Seq(Piece) /\ l \in Nat /\ n \in Nat /\ l <= 3 * n
  BY DEF StreamInv
<1>2. /\ t \in Seq(Piece) /\ l >= 1 /\ Len(t) = l - 1
      /\ Head(stream) = stream[1] /\ 1 \in 1..l
      /\ \A i \in 1..(l - 1) : t[i] = stream[i + 1] /\ i + 1 \in 1..l
  BY <1>1
<1>3. \A i \in 1..l : /\ PartOf(stream[i]) \in 1..3
                      /\ PartOf(stream[i]) + 3 * MessageOf(stream[i]) = 3 + 3 * n - l + i
  BY DEF StreamInv
<1>4. \A i \in 1..l : MessageOf(stream[i]) \in Nat
  <2>1. \A p \in Piece : MessageOf(p) \in Nat
    BY DEF Piece, MessageOf
  <2> QED BY <1>1, <2>1
<1> HIDE DEF t, l, n
<1>5. ASSUME NEW i \in 1..Len(t)
      PROVE  /\ PartOf(t[i]) \in 1..3
             /\ PartOf(t[i]) + 3 * MessageOf(t[i]) = 3 + 3 * n - Len(t) + i
  <2>1. i \in 1..(l - 1) /\ i + 1 \in 1..l /\ t[i] = stream[i + 1]
    BY <1>2
  <2>2. PartOf(t[i]) \in 1..3 /\ PartOf(t[i]) + 3 * MessageOf(t[i]) = 3 + 3 * n - l + (i + 1)
    BY <2>1, <1>3
  <2>3. 3 + 3 * n - l + (i + 1) = 3 + 3 * n - Len(t) + i
    BY <1>1, <1>2
  <2> QED BY <2>2, <2>3
<1>6. Len(t) <= 3 * n
  BY <1>1, <1>2
<1>7. stream' = t
  BY DEF t
<1>8. StreamInv'
  BY <1>2, <1>5, <1>6, <1>7 DEF StreamInv, n
<1>9. PartOf(stream[1]) + 3 * MessageOf(stream[1]) = 4 + 3 * n - l
  BY <1>1, <1>2, <1>3
<1>10. Len(stream) \in Nat /\ Len(stream') = Len(stream) - 1
  BY <1>1, <1>2, <1>7 DEF l
<1> QED BY <1>2, <1>3, <1>4, <1>8, <1>9, <1>10 DEF l, n

(* The header of a message is read, or refused.                            *)
LEMMA HeaderKeeps ==
    ASSUME WsServerInv, ReadHeader PROVE WsServerInv'
<1> DEFINE p == Head(stream)
<1>1. server = "header" /\ stream # <<>> /\ UNCHANGED <<node_rx, said, nodeHeard, got, spoken>>
  BY DEF ReadHeader
<1>2. WsTypes /\ Heard /\ InSession /\ StreamInv /\ ~ broken
  BY <1>1 DEF WsServerInv, InSession
<1>3. PICK f \in 0..Len(said) : Stands(f) /\ Delivered(f)
  BY <1>2 DEF WsServerInv, Standing
<1> DEFINE l == Len(stream)
           n == Len(said)
<1>4. n \in Nat /\ header_len \in {0, 1} /\ f \in Nat /\ said \in Seq(MessageKinds)
  BY <1>2 DEF WsTypes
<1>5. l \in Nat /\ PartOf(p) \in 1..3 /\ MessageOf(p) \in Nat
      /\ PartOf(p) + 3 * MessageOf(p) = 4 + 3 * n - l
  <2>1. \A i \in 1..l : /\ PartOf(stream[i]) \in 1..3
                        /\ PartOf(stream[i]) + 3 * MessageOf(stream[i]) = 3 + 3 * n - l + i
    BY <1>2 DEF StreamInv
  <2>2. stream \in Seq(Piece) /\ 1 \in 1..l /\ p = stream[1] /\ l \in Nat /\ stream[1] \in Piece
    BY <1>1, <1>2 DEF StreamInv
  <2>3. MessageOf(stream[1]) \in Nat
    BY <2>2 DEF Piece, MessageOf
  <2> HIDE DEF l, n, p
  <2>4. PartOf(stream[1]) \in 1..3 /\ PartOf(stream[1]) + 3 * MessageOf(stream[1]) = 3 + 3 * n - l + 1
    BY <2>1, <2>2
  <2> QED BY <2>2, <2>3, <2>4, <1>4
<1>6. 3 * n = l + 3 * f + header_len /\ (header_len # 0 => header = f + 1)
  BY <1>1, <1>3 DEF Stands, Begun
<1>7. PartOf(p) = header_len + 1 /\ MessageOf(p) = f + 1
  <2> HIDE DEF l, n, p
  <2>1. PartOf(p) - header_len - 1 = 3 * (f + 1 - MessageOf(p))
    BY <1>4, <1>5, <1>6
  <2> QED BY <2>1, <1>4, <1>5
<1>8. /\ stream' = Tail(stream) /\ header' = MessageOf(p)
      /\ header_len' = PartOf(p) % 2
      /\ server' = (IF PartOf(p) = 2 THEN "body" ELSE "header")
      /\ UNCHANGED <<session, node_tx, broken>>
  <2>1. p.part = header_len + 1 /\ (p.part = 2 => p.message = header)
    BY <1>4, <1>6, <1>7 DEF PartOf, MessageOf
  <2> QED BY <2>1 DEF ReadHeader, PartOf, MessageOf
<1>9. StreamInv' /\ Len(stream') = l - 1
  BY <1>1, <1>2, <1>4, <1>8, StreamTail
<1>10. Begun' = header_len + 1 /\ header' = f + 1 /\ header_len' \in {0, 1}
       /\ server' \in {"body", "header"} /\ (server' = "body" => header_len' = 0)
  <2>1. CASE header_len = 0
    <3>1. PartOf(p) = 1 /\ 1 % 2 = 1
      BY <2>1, <1>7
    <3> QED BY <2>1, <3>1, <1>7, <1>8 DEF Begun
  <2>2. CASE header_len = 1
    <3>1. PartOf(p) = 2 /\ 2 % 2 = 0
      BY <2>2, <1>7
    <3> QED BY <2>2, <3>1, <1>7, <1>8 DEF Begun
  <2> QED BY <2>1, <2>2, <1>4
<1>11. Stands(f)'
  <2> DEFINE m == Len(stream')
  <2>1. m = l - 1
    BY <1>9
  <2> HIDE DEF l, m, n
  <2>2. 3 * n = m + 3 * f + (header_len + 1)
    BY <2>1, <1>4, <1>5, <1>6
  <2> QED BY <2>2, <1>1, <1>10 DEF Stands, m, n
<1>12. Delivered(f)'
  BY <1>1, <1>3, <1>8 DEF Delivered
<1>13. Standing'
  BY <1>1, <1>11, <1>12 DEF Standing
<1>14. WsTypes' /\ Heard'
  BY <1>1, <1>2, <1>8, <1>10 DEF WsTypes, Heard
<1> QED BY <1>1, <1>2, <1>8, <1>9, <1>13, <1>14 DEF WsServerInv

(* The body of a message is read; a classic frame joins NODE_RX, or ends   *)
(* the session.                                                            *)
LEMMA BodyKeeps ==
    ASSUME WsServerInv, ReadBody PROVE WsServerInv'
<1> DEFINE kind == said[header]
           refused == kind = "classic" /\ Len(node_rx) = ChannelCap
<1>1. /\ server = "body" /\ stream # <<>>
      /\ UNCHANGED <<said, nodeHeard, got, spoken, broken>>
  BY DEF ReadBody, history
<1>2. WsTypes /\ Heard /\ InSession /\ StreamInv /\ ~ broken /\ Orderly(nodeHeard, node_rx, session)
  BY <1>1 DEF WsServerInv, InSession
<1>3. PICK f \in 0..Len(said) : Stands(f) /\ Delivered(f)
  BY <1>2 DEF WsServerInv, Standing
<1>4. CASE kind = "close" \/ refused
  <2>1. EndConnection /\ UNCHANGED <<node_rx, history>>
    BY <1>4 DEF ReadBody
  <2> QED BY <2>1, EndKeeps
<1>5. CASE ~ (kind = "close" \/ refused)
  <2>1. /\ server' = "top" /\ stream' = Tail(stream)
        /\ UNCHANGED <<session, header_len, header, node_tx>>
        /\ node_rx' = IF kind = "classic" THEN Append(node_rx, [session |-> session, message |-> header])
                      ELSE node_rx
    BY <1>5 DEF ReadBody
  <2>2. /\ session \in Nat /\ said \in Seq(MessageKinds) /\ nodeHeard \in Seq(Nat)
        /\ node_rx \in Seq(Request) /\ header_len = 0
    BY <1>1, <1>2 DEF WsTypes
  <2>3. StreamInv' /\ Len(stream) \in Nat /\ Len(stream') = Len(stream) - 1
    BY <1>1, <1>2, <2>1, <2>2, StreamTail
  <2> DEFINE l == Len(stream)
             n == Len(said)
             m == Len(stream')
  <2>4. n \in Nat /\ l \in Nat /\ m = l - 1 /\ m \in Nat /\ f \in Nat
    BY <1>1, <1>2, <2>2, <2>3 DEF StreamInv
  <2>5. 3 * n = l + 3 * f + 2 /\ header = f + 1
    BY <1>1, <1>3 DEF Stands, Begun
  <2> HIDE DEF l, m, n
  <2>6. f + 1 \in 0..n /\ 3 * n = m + 3 * (f + 1)
    BY <2>4, <2>5
  <2>7. Stands(f + 1)'
    BY <1>1, <2>1, <2>2, <2>6 DEF Stands, Begun, m, n
  <2>8. \A i \in Nat : Passed(i, nodeHeard, node_rx, session) <=> i \in 1..f /\ said[i] = "classic"
    BY <1>3 DEF Delivered
  <2>9. \A i : i \in 1..(f + 1) <=> i \in 1..f \/ i = f + 1
    BY <2>4
  <2>10. /\ node_rx' \in Seq(Request) /\ Orderly(nodeHeard, node_rx', session)
         /\ \A i \in Nat : Passed(i, nodeHeard, node_rx', session) <=> i \in 1..(f + 1) /\ said[i] = "classic"
         /\ \A k \in 1..Len(node_rx') : SessionOf(node_rx'[k]) <= session
    <3>1. CASE kind = "classic"
      <4>1. \A i \in Nat : Passed(i, nodeHeard, node_rx, session) => i < header
        BY <2>4, <2>5, <2>8
      <4>2. header \in Nat
        BY <2>4, <2>5
      <4> DEFINE r == [session |-> session, message |-> header]
      <4>3. node_rx' = Append(node_rx, r) /\ SessionOf(r) = session /\ r \in Request
        BY <3>1, <2>1, <2>2, <4>2 DEF SessionOf, Request
      <4>4. /\ node_rx' \in Seq(Request) /\ Orderly(nodeHeard, node_rx', session)
            /\ \A i \in Nat : Passed(i, nodeHeard, node_rx', session)
                                <=> Passed(i, nodeHeard, node_rx, session) \/ i = header
        BY <1>2, <2>2, <4>1, <4>2, <4>3, QueueFrame
      <4> HIDE DEF r
      <4>5. \A k \in 1..Len(node_rx') : SessionOf(node_rx'[k]) <= session
        <5> SUFFICES ASSUME NEW k \in 1..Len(node_rx') PROVE SessionOf(node_rx'[k]) <= session
          OBVIOUS
        <5>1. node_rx'[k] = r \/ (k \in 1..Len(node_rx) /\ node_rx'[k] = node_rx[k])
          BY <2>2, <4>3
        <5>2. \A j \in 1..Len(node_rx) : SessionOf(node_rx[j]) <= session
          BY <1>2 DEF WsTypes
        <5>3. SessionOf(r) <= session
          BY <2>2, <4>3
        <5> QED BY <5>1, <5>2, <5>3
      <4>6. \A i \in Nat : Passed(i, nodeHeard, node_rx', session) <=> i \in 1..(f + 1) /\ said[i] = "classic"
        BY <2>5, <2>8, <2>9, <3>1, <4>4
      <4> QED BY <4>4, <4>5, <4>6
    <3>2. CASE kind # "classic"
      <4>1. node_rx' = node_rx
        BY <3>2, <2>1
      <4>2. \A i \in Nat : Passed(i, nodeHeard, node_rx', session) <=> i \in 1..(f + 1) /\ said[i] = "classic"
        BY <2>5, <2>8, <2>9, <3>2, <4>1
      <4> QED BY <4>1, <4>2, <2>2, <1>2 DEF WsTypes
    <3> QED BY <3>1, <3>2
  <2>11. Delivered(f + 1)'
    BY <1>1, <2>1, <2>10 DEF Delivered
  <2>12. Standing'
    BY <1>1, <2>6, <2>7, <2>11 DEF Standing, n
  <2>13. WsTypes' /\ Heard'
    BY <1>1, <1>2, <2>1, <2>10 DEF WsTypes, Heard
  <2> QED BY <1>1, <1>2, <2>1, <2>3, <2>10, <2>12, <2>13 DEF WsServerInv
<1> QED BY <1>4, <1>5

(* A place of two sequences joined is a place of the one or of the other:  *)
(* what the client sends stands behind what it sent.                       *)
LEMMA JoinedPlaces ==
    ASSUME NEW S, NEW a \in Seq(S), NEW b \in Seq(S)
    PROVE  /\ a \o b \in Seq(S) /\ Len(a \o b) = Len(a) + Len(b)
           /\ \A i \in 1..(Len(a) + Len(b)) : (a \o b)[i] = IF i <= Len(a) THEN a[i] ELSE b[i - Len(a)]
OBVIOUS

(* The client sends a message: three pieces join the stream.               *)
LEMMA SendKeeps ==
    ASSUME WsServerInv, ClientSends PROVE WsServerInv'
<1>1. PICK kind \in MessageKinds : said' = Append(said, kind)
  BY DEF ClientSends
<1> DEFINE n == Len(said)
           l == Len(stream)
           u == [p \in 1..3 |-> [message |-> Len(said'), part |-> p]]
           w == stream \o u
<1>2. /\ InSession /\ stream' = w
      /\ UNCHANGED <<server, session, header_len, header, node_rx, node_tx, nodeHeard, got, spoken, broken>>
  BY DEF ClientSends
<1>3. WsTypes /\ Heard /\ StreamInv /\ ~ broken
  BY <1>2 DEF WsServerInv
<1>4. PICK f \in 0..Len(said) : Stands(f) /\ Delivered(f)
  BY <1>2 DEF WsServerInv, Standing
<1>5. /\ said \in Seq(MessageKinds) /\ n \in Nat /\ said' \in Seq(MessageKinds) /\ Len(said') = n + 1
      /\ \A i \in 1..n : said'[i] = said[i]
  BY <1>1, <1>3 DEF WsTypes
<1>6. stream \in Seq(Piece) /\ l \in Nat /\ l <= 3 * n
  BY <1>3, <1>5 DEF StreamInv
<1>7. /\ u \in Seq(Piece) /\ Len(u) = 3
      /\ \A i \in 1..3 : PartOf(u[i]) = i /\ MessageOf(u[i]) = n + 1
  <2>1. \A p \in 1..3 : [message |-> Len(said'), part |-> p] \in Piece
    BY <1>5 DEF Piece
  <2>2. u \in [1..3 -> Piece]
    BY <2>1
  <2>3. u \in Seq(Piece) /\ Len(u) = 3
    BY <2>2
  <2> QED BY <2>3, <1>5 DEF PartOf, MessageOf
<1> HIDE DEF u
<1>8. /\ w \in Seq(Piece) /\ Len(w) = l + 3
      /\ \A i \in 1..l : w[i] = stream[i]
      /\ \A i \in 1..(l + 3) : i \in 1..l \/ (i - l \in 1..3 /\ w[i] = u[i - l])
  <2>1. w \in Seq(Piece) /\ Len(w) = l + 3
        /\ \A i \in 1..(l + 3) : w[i] = IF i <= l THEN stream[i] ELSE u[i - l]
    <3>1. stream \in Seq(Piece) /\ u \in Seq(Piece) /\ Len(u) = 3
      BY <1>6, <1>7
    <3>2. w \in Seq(Piece) /\ Len(w) = l + Len(u)
          /\ \A i \in 1..(l + Len(u)) : w[i] = IF i <= l THEN stream[i] ELSE u[i - l]
      BY <3>1, JoinedPlaces, Zenon
    <3> QED BY <3>1, <3>2
  <2> HIDE DEF w, l
  <2>2. \A i \in 1..l : i \in 1..(l + 3) /\ i <= l
    BY <1>6
  <2>3. \A i \in 1..(l + 3) : i \in 1..l \/ (i - l \in 1..3 /\ ~ (i <= l))
    BY <1>6
  <2> QED BY <2>1, <2>2, <2>3
<1>9. \A i \in 1..l : /\ PartOf(stream[i]) \in 1..3 /\ MessageOf(stream[i]) \in Nat
                      /\ PartOf(stream[i]) + 3 * MessageOf(stream[i]) = 3 + 3 * n - l + i
  <2>1. \A p \in Piece : MessageOf(p) \in Nat
    BY DEF Piece, MessageOf
  <2> QED BY <1>3, <1>6, <2>1 DEF StreamInv
<1> HIDE DEF w, l, n
<1>10. ASSUME NEW i \in 1..(l + 3)
       PROVE  PartOf(w[i]) \in 1..3 /\ PartOf(w[i]) + 3 * MessageOf(w[i]) = 3 + 3 * (n + 1) - (l + 3) + i
  <2>1. CASE i \in 1..l
    <3>1. PartOf(w[i]) \in 1..3 /\ PartOf(w[i]) + 3 * MessageOf(w[i]) = 3 + 3 * n - l + i
      BY <2>1, <1>8, <1>9
    <3>2. 3 + 3 * n - l + i = 3 + 3 * (n + 1) - (l + 3) + i
      BY <1>5, <1>6
    <3> QED BY <3>1, <3>2
  <2>2. CASE i - l \in 1..3 /\ w[i] = u[i - l]
    <3>1. PartOf(w[i]) = i - l /\ MessageOf(w[i]) = n + 1
      BY <2>2, <1>7
    <3>2. (i - l) + 3 * (n + 1) = 3 + 3 * (n + 1) - (l + 3) + i
      BY <1>5, <1>6
    <3> QED BY <2>2, <3>1, <3>2
  <2> QED BY <2>1, <2>2, <1>8
<1>11. StreamInv'
  <2>1. l + 3 <= 3 * (n + 1)
    BY <1>5, <1>6
  <2>2. stream' = w /\ Len(said') = n + 1 /\ Len(w) = l + 3
    BY <1>2, <1>5, <1>8
  <2> QED BY <1>8, <1>10, <2>1, <2>2 DEF StreamInv
<1>12. Stands(f)'
  <2>1. Begun' = Begun /\ header' = header /\ Begun \in {0, 1, 2}
    BY <1>2, <1>3 DEF Begun, WsTypes
  <2>2. 3 * n = l + 3 * f + Begun /\ (Begun # 0 => header = f + 1)
    BY <1>4 DEF Stands, n, l
  <2>3. f \in Nat
    BY <1>5 DEF n
  <2>4. 3 * (n + 1) = (l + 3) + 3 * f + Begun
    BY <2>1, <2>2, <2>3, <1>5, <1>6
  <2>5. Len(stream') = l + 3 /\ Len(said') = n + 1
    BY <1>2, <1>5, <1>8
  <2> QED BY <2>1, <2>2, <2>4, <2>5 DEF Stands
<1>13. Delivered(f)' /\ f \in 0..Len(said')
  <2>1. f \in 0..n /\ f \in 0..(n + 1) /\ \A i \in 1..f : i \in 1..n
    BY <1>5 DEF n
  <2>2. \A i \in Nat : Passed(i, nodeHeard, node_rx, session) <=> i \in 1..f /\ said[i] = "classic"
    BY <1>4 DEF Delivered
  <2>3. \A i \in Nat : Passed(i, nodeHeard, node_rx, session) <=> i \in 1..f /\ said'[i] = "classic"
    BY <2>1, <2>2, <1>5
  <2> QED BY <1>2, <1>5, <2>1, <2>3 DEF Delivered
<1>14. Standing'
  BY <1>12, <1>13 DEF Standing
<1>15. WsTypes' /\ Heard'
  BY <1>2, <1>3, <1>5 DEF WsTypes, Heard, InSession
<1> QED BY <1>2, <1>3, <1>11, <1>14, <1>15 DEF WsServerInv

(* The node takes a request from the channel.                              *)
LEMMA TakeKeeps ==
    ASSUME WsServerInv, NodeReceives PROVE WsServerInv'
<1>1. /\ node_rx # <<>> /\ node_rx' = Tail(node_rx)
      /\ nodeHeard' = IF SessionOf(Head(node_rx)) = session THEN Append(nodeHeard, MessageOf(Head(node_rx)))
                      ELSE nodeHeard
      /\ UNCHANGED <<server, session, stream, header_len, header, node_tx, said, got, spoken, broken>>
  BY DEF NodeReceives, SessionOf, MessageOf
<1>2. WsTypes /\ Heard /\ ~ broken /\ Orderly(nodeHeard, node_rx, session)
  BY DEF WsServerInv
<1>3. session \in Nat /\ nodeHeard \in Seq(Nat) /\ node_rx \in Seq(Request)
      /\ \A k \in 1..Len(node_rx) : SessionOf(node_rx[k]) <= session
  BY <1>2 DEF WsTypes
<1>4. /\ nodeHeard' \in Seq(Nat) /\ node_rx' \in Seq(Request)
      /\ Orderly(nodeHeard', node_rx', session)
      /\ \A i : Passed(i, nodeHeard', node_rx', session) <=> Passed(i, nodeHeard, node_rx, session)
      /\ \A k \in 1..Len(node_rx') : \E j \in 1..Len(node_rx) : node_rx'[k] = node_rx[j]
  BY Zenon, <1>1, <1>2, <1>3, TakeFrame
<1>5. \A k \in 1..Len(node_rx') : SessionOf(node_rx'[k]) <= session
  BY <1>3, <1>4
<1>6. WsTypes' /\ Heard'
  BY <1>1, <1>2, <1>4, <1>5 DEF WsTypes, Heard, InSession
<1>7. PICK f \in 0..Len(said) : (InSession => Stands(f)) /\ Delivered(f)
  BY DEF WsServerInv, Standing
<1>8. Delivered(f)'
  BY <1>1, <1>4, <1>7 DEF Delivered
<1>9. InSession' = InSession /\ (InSession => Stands(f)')
  BY <1>1, <1>7 DEF InSession, Stands, Begun
<1>10. Standing'
  BY <1>1, <1>8, <1>9 DEF Standing
<1>11. InSession => StreamInv'
  BY <1>1 DEF WsServerInv, StreamInv
<1> QED BY <1>1, <1>2, <1>4, <1>6, <1>9, <1>10, <1>11 DEF WsServerInv

(* The node queues a frame for the client.                                 *)
LEMMA SpeakKeeps ==
    ASSUME WsServerInv, NodeTransmits PROVE WsServerInv'
<1>1. /\ node_tx' = Append(node_tx, IF InSession THEN session ELSE 0)
      /\ UNCHANGED <<server, session, stream, header_len, header, node_rx, said, nodeHeard, got, broken>>
  BY DEF NodeTransmits
<1>2. WsTypes /\ Heard /\ ~ broken /\ Orderly(nodeHeard, node_rx, session)
  BY DEF WsServerInv
<1>3. node_tx \in Seq(Nat) /\ session \in Nat
  BY <1>2 DEF WsTypes
<1>4. node_tx' \in Seq(Nat)
  BY <1>1, <1>3
<1>5. ASSUME InSession, NEW i \in 1..Len(node_tx') PROVE node_tx'[i] = session
  <2>1. node_tx' = Append(node_tx, session)
    BY <1>1, <1>5
  <2>2. i = Len(node_tx) + 1 \/ i \in 1..Len(node_tx)
    BY <2>1, <1>3
  <2> QED BY <2>1, <2>2, <1>2, <1>3, <1>5 DEF Heard
<1>6. WsTypes' /\ Heard'
  BY <1>1, <1>2, <1>4, <1>5 DEF WsTypes, Heard, InSession
<1>7. PICK f \in 0..Len(said) : (InSession => Stands(f)) /\ Delivered(f)
  BY DEF WsServerInv, Standing
<1>8. Delivered(f)' /\ InSession' = InSession /\ (InSession => Stands(f)')
  BY <1>1, <1>7 DEF Delivered, InSession, Stands, Begun
<1>9. Standing'
  BY <1>1, <1>8 DEF Standing
<1>10. InSession => StreamInv'
  BY <1>1 DEF WsServerInv, StreamInv
<1> QED BY <1>1, <1>2, <1>6, <1>8, <1>9, <1>10 DEF WsServerInv

(* The inductive invariant says what SessionFaithful does.                 *)
LEMMA InvIsFaithful ==
    WsServerInv => SessionFaithful
<1> SUFFICES ASSUME WsServerInv PROVE SessionFaithful
  OBVIOUS
<1>1. ~ broken /\ \A i \in 1..Len(got) : got[i] = session
  BY DEF WsServerInv, Heard
<1>2. PICK f \in 0..Len(said) : Delivered(f)
  BY DEF WsServerInv, Standing
<1>3. nodeHeard \in Seq(Nat) /\ said \in Seq(MessageKinds) /\ Ascending(nodeHeard)
      /\ Orderly(nodeHeard, node_rx, session)
  BY DEF WsServerInv, WsTypes, Orderly
<1>4. \A k \in 1..Len(nodeHeard) : nodeHeard[k] \in Nat
  BY <1>3
<1>5. \A k \in 1..Len(nodeHeard) : nodeHeard[k] \in 1..f /\ said[nodeHeard[k]] = "classic"
  BY <1>2, <1>4 DEF Delivered, Passed
<1>6. \A i \in 1..f : i \in 1..Len(said)
  BY <1>3
<1>7. ASSUME NEW k \in 1..Len(nodeHeard), NEW i \in 1..Len(said), i < nodeHeard[k], said[i] = "classic"
      PROVE  \E j \in 1..Len(nodeHeard) : nodeHeard[j] = i
  <2>1. i \in 1..f /\ i \in Nat
    BY <1>4, <1>5, <1>7, <1>3
  <2>2. Passed(i, nodeHeard, node_rx, session)
    BY <2>1, <1>2, <1>7 DEF Delivered
  <2>3. \A q \in Queued(node_rx, session) : nodeHeard[k] < MessageOf(node_rx[q])
    BY <1>3 DEF Orderly
  <2>4. \A q \in Queued(node_rx, session) : MessageOf(node_rx[q]) # i
    BY <2>1, <2>3, <1>4, <1>7
  <2> QED BY <2>2, <2>4 DEF Passed
<1> QED BY <1>1, <1>3, <1>5, <1>6, <1>7 DEF SessionFaithful, Ascending

(* The WebSocket server of the F767 boards, for every capacity of the      *)
(* channels and any number of connections and messages: the node takes the *)
(* classic frames of the client in the order they were sent and skips none *)
(* before the last it took, no slow header puts the two out of step, and   *)
(* the client gets only what the node queued in this session.              *)
THEOREM SessionIsFaithful == WsServerSpec => []SessionFaithful
<1>1. WsServerInit => WsServerInv
  BY ServerStart
<1>2. WsServerInv /\ [WsServerNext]_wsServerVars => WsServerInv'
  <2> SUFFICES ASSUME WsServerInv, [WsServerNext]_wsServerVars PROVE WsServerInv'
    OBVIOUS
  <2>1. CASE ServeOther
    BY <2>1, EndKeeps DEF ServeOther
  <2>2. CASE ClientGone
    BY <2>2, EndKeeps DEF ClientGone
  <2>3. CASE UNCHANGED wsServerVars
    BY <2>3 DEF wsServerVars, WsServerInv, WsTypes, Heard, InSession, StreamInv, Standing, Stands,
                Begun, Delivered
  <2> QED BY <2>1, <2>2, <2>3, AcceptKeeps, OpenKeeps, ForwardKeeps, TimeoutKeeps, HeaderKeeps,
             BodyKeeps, SendKeeps, TakeKeeps, SpeakKeeps DEF WsServerNext
<1> QED BY <1>1, <1>2, InvIsFaithful, PTL DEF WsServerSpec
=============================================================================
