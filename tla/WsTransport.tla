---------------------------- MODULE WsTransport ----------------------------
(***************************************************************************)
(* The WebSocket CAN transport of canopen-linux                            *)
(* (canopen-linux/src/websocket_transport.rs): a handle with nb::Can       *)
(* transmit and receive, a bounded transmit queue whose frames age, a      *)
(* background thread that owns the WebSocket, a bounded receive queue, and *)
(* a Drop that joins the thread.                                           *)
(*                                                                         *)
(* Time is a count of ticks; a tick is not allowed to pass a timer that is *)
(* due, nor, if the thread is Prompt, a step of it that is ready.  A       *)
(* queued frame is its age.                                                *)
(***************************************************************************)
EXTENDS Integers, Sequences

CONSTANTS
  TxCapacity, RxCapacity, \* transmit_queue_capacity, receive_queue_capacity
  MaxTransmitAge,         \* max_transmit_age, in ticks
  CloseTimeout,           \* close_timeout, in ticks
  Prompt,                 \* whether the thread runs as soon as it can
  MaxWsMessages           \* bound: messages the server sends

\* connect_with_config refuses zero for these three.
ASSUME WsConfig ==
  /\ TxCapacity \in Nat \ {0} /\ RxCapacity \in Nat \ {0} /\ MaxTransmitAge \in Nat \ {0}
  /\ CloseTimeout \in Nat /\ Prompt \in BOOLEAN

VARIABLES
  handle,    \* connecting, failed, open, dropping or dropped
  thread,    \* connecting, loop, sending, closing or exited
  txq,       \* ages of the frames in the transmit queue
  age,       \* age of the frame being written; ticks spent on the close
  rxq,       \* frames in the receive queue
  counters,  \* dropped, undecodable
  arrived,   \* binary messages so far
  delivered, \* history: frames handed to receive
  oldest,    \* history: the greatest age of a frame whose write completed
  waited     \* history: ticks Drop has been blocked

wsVars == <<handle, thread, txq, age, rxq, counters, arrived, delivered, oldest, waited>>

WsInit ==
  /\ handle = "connecting" /\ thread = "connecting"
  /\ txq = <<>> /\ age = 0 /\ rxq = 0 /\ counters = [dropped |-> 0, undecodable |-> 0]
  /\ arrived = 0 /\ delivered = 0 /\ oldest = 0 /\ waited = 0

\* connect_async returns, and ready_rx hands the outcome to the caller.
Connect ==
  /\ thread = "connecting"
  /\ \/ thread' = "loop" /\ handle' = "open"
     \/ thread' = "exited" /\ handle' = "failed"
  /\ UNCHANGED <<txq, age, rxq, counters, arrived, delivered, oldest, waited>>

\* transmit / enqueue_frame: a full queue is WouldBlock and a thread that has
\* exited is BusError, both without a change.
WsTransmit ==
  /\ handle = "open" /\ thread # "exited" /\ Len(txq) < TxCapacity
  /\ txq' = Append(txq, 0)
  /\ UNCHANGED <<handle, thread, age, rxq, counters, arrived, delivered, oldest, waited>>

\* receive: an empty queue is WouldBlock, or BusError once the thread exited.
WsReceive ==
  /\ handle = "open" /\ rxq > 0
  /\ rxq' = rxq - 1 /\ delivered' = delivered + 1
  /\ UNCHANGED <<handle, thread, txq, age, counters, arrived, oldest, waited>>

\* Mutated form of TakeQueued: the time spent in the queue is not looked at.
TakeQueuedAnyAge ==
  /\ thread = "loop" /\ txq # <<>>
  /\ txq' = Tail(txq) /\ thread' = "sending" /\ age' = Head(txq)
  /\ UNCHANGED <<handle, rxq, counters, arrived, delivered, oldest, waited>>

\* The tx_rx.recv() branch: a frame past its lifetime is Expired and skipped,
\* any other is written with the lifetime that remains as the timeout.
TakeQueued ==
  /\ thread = "loop" /\ txq # <<>>
  /\ txq' = Tail(txq)
  /\ IF Head(txq) > MaxTransmitAge
     THEN UNCHANGED <<thread, age>>
     ELSE thread' = "sending" /\ age' = Head(txq)
  /\ UNCHANGED <<handle, rxq, counters, arrived, delivered, oldest, waited>>

\* The same branch once the producer is gone and the queue is drained:
\* close_before_timeout.
BeginClose ==
  /\ thread = "loop" /\ txq = <<>> /\ handle = "dropping"
  /\ thread' = "closing" /\ age' = 0
  /\ UNCHANGED <<handle, txq, rxq, counters, arrived, delivered, oldest, waited>>

\* SendOutcome::Sent
WsSent ==
  /\ thread = "sending" /\ thread' = "loop"
  /\ oldest' = IF age > oldest THEN age ELSE oldest
  /\ UNCHANGED <<handle, txq, age, rxq, counters, arrived, delivered, waited>>

\* SendOutcome::Failed, or TimedOut once the lifetime is over, ends the thread.
WsSendEnds ==
  /\ thread = "sending" /\ thread' = "exited"
  /\ UNCHANGED <<handle, txq, age, rxq, counters, arrived, delivered, oldest, waited>>

\* The close was written, failed, or close_timeout passed: the thread ends.
Closed ==
  /\ thread = "closing" /\ thread' = "exited"
  /\ UNCHANGED <<handle, txq, age, rxq, counters, arrived, delivered, oldest, waited>>

\* The ws_rx.next() branch with a binary message: a frame is queued, or counted
\* as dropped when the queue is full; flags and malformed messages are counted
\* as undecodable.  The receiver outlives the thread, so it is never
\* Disconnected.
BinaryMessage(decodes) ==
  /\ thread = "loop" /\ arrived < MaxWsMessages
  /\ arrived' = arrived + 1
  /\ LET room == decodes /\ rxq < RxCapacity
     IN /\ rxq' = IF room THEN rxq + 1 ELSE rxq
        /\ counters' = [dropped |-> counters.dropped + (IF decodes /\ ~room THEN 1 ELSE 0),
                        undecodable |-> counters.undecodable + (IF decodes THEN 0 ELSE 1)]
  /\ UNCHANGED <<handle, thread, txq, age, delivered, oldest, waited>>

\* The same branch with a Close message, the end of the stream or an error.
ServerCloses ==
  /\ thread = "loop" /\ thread' = "exited"
  /\ UNCHANGED <<handle, txq, age, rxq, counters, arrived, delivered, oldest, waited>>

\* Drop: the producer is closed, then the thread is joined.
Drop ==
  /\ handle = "open" /\ handle' = "dropping"
  /\ UNCHANGED <<thread, txq, age, rxq, counters, arrived, delivered, oldest, waited>>

Joined ==
  /\ handle = "dropping" /\ thread = "exited" /\ handle' = "dropped"
  /\ UNCHANGED <<thread, txq, age, rxq, counters, arrived, delivered, oldest, waited>>

\* timeout(remaining, ..) of the write and timeout(close_timeout, ..) are due.
WriteTimedOut == thread = "sending" /\ age >= MaxTransmitAge
CloseTimedOut == thread = "closing" /\ age >= CloseTimeout

\* The thread has something to do at once.
ThreadReady == thread = "loop" /\ (txq # <<>> \/ handle = "dropping")

\* Time passes: every frame ages, the one being written too.
WsTick ==
  /\ thread \notin {"connecting", "exited"} /\ ~WriteTimedOut /\ ~CloseTimedOut
  /\ Prompt => ~ThreadReady
  /\ txq' = [i \in DOMAIN txq |-> IF txq[i] > MaxTransmitAge THEN txq[i] ELSE txq[i] + 1]
  /\ age' = IF thread \in {"sending", "closing"} THEN age + 1 ELSE 0
  /\ waited' = IF handle = "dropping" /\ waited <= MaxTransmitAge + CloseTimeout THEN waited + 1 ELSE waited
  /\ UNCHANGED <<handle, thread, rxq, counters, arrived, delivered, oldest>>

WsNext ==
  \/ Connect \/ WsTransmit \/ WsReceive \/ TakeQueued \/ BeginClose \/ WsSent \/ WsSendEnds
  \/ Closed \/ \E decodes \in BOOLEAN : BinaryMessage(decodes)
  \/ ServerCloses \/ Drop \/ Joined \/ WsTick

WsSpec == WsInit /\ [][WsNext]_wsVars

-----------------------------------------------------------------------------
\* max_transmit_age is the "maximum time from transmit accepting a frame until
\* the WebSocket write completes": no write completes for an older frame, the
\* time spent in the queue counted (send_before_expiry).
NothingStale == oldest <= MaxTransmitAge

\* Drop is bounded: at most one frame is still written, with what remains of its
\* lifetime, the frames behind it are written or skipped in the same span, and
\* then comes the close (Drop, send_before_expiry, close_before_timeout).  A
\* thread that is not scheduled adds its delay.
DropBounded == Prompt => waited <= MaxTransmitAge + CloseTimeout

\* The comment in Drop and the type's documentation: dropping "costs at most
\* close_timeout".
DropCostsCloseTimeout == waited <= CloseTimeout
=============================================================================
