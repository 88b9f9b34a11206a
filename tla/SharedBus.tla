------------------------------ MODULE SharedBus ------------------------------
(* The shared CAN bus of canopen-core/src/bus.rs: SharedCanBus::publish, the *)
(* subscriptions, the transmit queue and run_pump, with the threads and the  *)
(* asynchronous tasks that wait on them.                                     *)
(*                                                                           *)
(* A channel is a subscription's queue or the transmit queue.  Its users are *)
(* threads, which wait on the channel's condition variable, and tasks, which *)
(* leave a waker and are polled again.  Both kinds of channel wait in the    *)
(* same way: for a frame to take, or for space to put one.  One step is one  *)
(* critical section of one mutex, so that everything the code does between   *)
(* two of them interleaves.  A published frame is its number in the order of *)
(* publication; a frame to transmit has none.                                *)
EXTENDS Naturals, Sequences, FiniteSets

CONSTANTS
    Subs,         \* subscriptions
    Tx,           \* the transmit queue
    Threads,      \* users that block
    Tasks,        \* users that are polled by an executor
    Channel,      \* the channel of each user
    Ways,         \* the capacities and overflow policies subscriptions are made with
    TxCapacity,   \* capacity of the transmit queue
    Pump,         \* the thread in run_pump
    Apps,         \* other threads that publish
    NoOne,        \* holds no lock
    MaxFrames     \* bound on the frames published

Channels == Subs \cup {Tx}
Users == Threads \cup Tasks
Publishers == {Pump} \cup Apps

ASSUME SharedBusAssumption ==
    /\ Tx \notin Subs /\ Threads \cap Tasks = {} /\ IsFiniteSet(Threads)
    /\ NoOne \notin Publishers
    /\ Channel \in [Users -> Channels]
    /\ Ways \subseteq [capacity : Nat \ {0}, policy : {"DropOldest", "DropNewest"}]
    /\ TxCapacity \in Nat \ {0}
    /\ MaxFrames \in Nat

VARIABLES
    live,       \* subscriptions that exist
    made,       \* the way each was made
    overflow,   \* frames dropped at a full queue and not yet reported
    queue,      \* the frames of each channel
    owed,       \* history: frames accepted, and neither received nor reported lost
    last,       \* history: the last frame received
    use,        \* where each user is in its receive or send
    wakers,     \* the tasks in each channel's WakerSet
    scheduled,  \* tasks their executor will poll, because they were woken
    lock,       \* the publisher that holds the list of subscribers
    at,         \* where each publisher is
    frame,      \* what it publishes
    todo,       \* the subscribers it has yet to serve
    on,         \* the channel it served last
    wake,       \* the wakers it has taken and not woken
    published,  \* the number of the last frame published
    pump        \* where run_pump is

settings == <<live, made>>
frames == <<queue, owed, last>>
users == <<use, wakers, scheduled>>
fanout == <<lock, frame, todo, published>>
places == <<at, on, wake>>
vars == <<settings, overflow, frames, users, fanout, places, pump>>

DropsOldest(s) == made[s].policy = "DropOldest"

Capacity(c) == IF c = Tx THEN TxCapacity ELSE made[c].capacity

(* Where a user is: a thread "asleep" in the condition variable or "awake"    *)
(* after it was notified; a task that has "checked" once in its poll, one     *)
(* that is "registered" and about to check again, one left "pending".  A      *)
(* publisher is in its "fanout", about to "take" the wakers of the channel it *)
(* served last, or at the loop that has taken them and will "wake" them.      *)
ThreadPlaces == {"idle", "asleep", "awake"}
TaskPlaces == {"idle", "checked", "registered", "pending"}

(* Each state component has the values its declaration in bus.rs allows, and  *)
(* no queue is ever longer than its capacity.                                 *)
TypeOK ==
    /\ live \subseteq Subs /\ made \in [Subs -> Ways] /\ overflow \in [Subs -> Nat]
    /\ queue \in [Channels -> Seq(Nat)]
    /\ \A c \in Channels : Len(queue[c]) <= Capacity(c)
    /\ owed \in [Subs -> Nat] /\ last \in [Subs -> Nat]
    /\ use \in [Users -> ThreadPlaces \cup TaskPlaces]
    /\ \A k \in Threads : use[k] \in ThreadPlaces
    /\ \A k \in Tasks : use[k] \in TaskPlaces
    /\ wakers \in [Channels -> SUBSET Tasks] /\ scheduled \subseteq Tasks
    /\ lock \in Publishers \cup {NoOne}
    /\ at \in [Publishers -> {"idle", "fanout", "take", "wake"}]
    /\ frame \in [Publishers -> Nat] /\ todo \in [Publishers -> SUBSET Subs]
    /\ on \in [Publishers -> Channels] /\ wake \in [Publishers -> SUBSET Tasks]
    /\ published \in Nat /\ pump \in {"rx", "tx", "transmit", "ended", "failed"}

Init ==
    /\ live = Subs /\ made \in [Subs -> Ways] /\ overflow = [s \in Subs |-> 0]
    /\ queue = [c \in Channels |-> <<>>]
    /\ owed = [s \in Subs |-> 0] /\ last = [s \in Subs |-> 0]
    /\ use = [k \in Users |-> "idle"] /\ wakers = [c \in Channels |-> {}]
    /\ scheduled = {}
    /\ lock = NoOne /\ at = [p \in Publishers |-> "idle"]
    /\ frame = [p \in Publishers |-> 0] /\ todo = [p \in Publishers |-> {}]
    /\ on = [p \in Publishers |-> Tx] /\ wake = [p \in Publishers |-> {}]
    /\ published = 0 /\ pump = "rx"

-----------------------------------------------------------------------------
(* Waiting: recv, recv_timeout and recv_async, send and send_async.           *)

Full(c) == Len(queue[c]) >= Capacity(c)

(* A user of the channel need not wait: there is a frame, or there is space.  *)
Available(c) == IF c = Tx THEN ~ Full(Tx) ELSE queue[c] # <<>>

(* The user's frame, taken out of the channel or put into it.                 *)
Obtain(k) ==
    LET c == Channel[k]
    IN  IF c = Tx
          THEN /\ queue' = [queue EXCEPT ![Tx] = Append(@, 0)]
               /\ UNCHANGED <<owed, last>>
          ELSE /\ queue' = [queue EXCEPT ![c] = Tail(@)]
               /\ owed' = [owed EXCEPT ![c] = @ - 1]
               /\ last' = [last EXCEPT ![c] = Head(queue[c])]

Move(k, place) == use' = [use EXCEPT ![k] = place]

(* One try under the channel's lock, which leaves the user idle when it gets  *)
(* what it wants and at another place when not.                               *)
Try(k, otherwise) ==
    \/ Available(Channel[k]) /\ Obtain(k) /\ Move(k, "idle")
    \/ ~ Available(Channel[k]) /\ Move(k, otherwise) /\ UNCHANGED <<queue, owed, last>>

Open(k) == Channel[k] = Tx \/ Channel[k] \in live

(* A turn of the loop in recv, recv_timeout or send.  A thread asleep takes   *)
(* one, too, when its wait ends by itself.                                    *)
ThreadTry(k) ==
    /\ Open(k) /\ use[k] \in {"idle", "asleep", "awake"}
    /\ Try(k, "asleep")
    /\ UNCHANGED <<settings, overflow, wakers, scheduled, fanout, places, pump>>

(* recv_timeout finds no frame at its deadline.                               *)
ThreadGivesUp(k) ==
    /\ use[k] \in {"asleep", "awake"} /\ Channel[k] # Tx /\ ~ Available(Channel[k])
    /\ Move(k, "idle")
    /\ UNCHANGED <<settings, overflow, frames, wakers, scheduled, fanout, places, pump>>

(* The first try of a poll: of a new future, of one that was woken, or of one *)
(* whose task was woken for another reason.                                   *)
TaskPoll(k) ==
    /\ Open(k) /\ use[k] \in {"idle", "pending"}
    /\ Try(k, "checked")
    /\ scheduled' = scheduled \ {k}
    /\ UNCHANGED <<settings, overflow, wakers, fanout, places, pump>>

(* WakerSet::register.                                                        *)
Register(k) ==
    /\ use[k] = "checked" /\ Move(k, "registered")
    /\ wakers' = [wakers EXCEPT ![Channel[k]] = @ \cup {k}]
    /\ UNCHANGED <<settings, overflow, frames, scheduled, fanout, places, pump>>

(* Mutated form of SecondTry: the task waits as soon as it is registered.     *)
NoSecondTry(k) == Move(k, "pending") /\ UNCHANGED <<queue, owed, last>>

SecondTry(k) == Try(k, "pending")

TaskRecheck(k) ==
    /\ use[k] = "registered" /\ SecondTry(k)
    /\ UNCHANGED <<settings, overflow, wakers, scheduled, fanout, places, pump>>

(* The future is dropped, by a timeout for example; its waker stays behind.   *)
TaskCancel(k) ==
    /\ use[k] = "pending" /\ Move(k, "idle")
    /\ UNCHANGED <<settings, overflow, frames, wakers, scheduled, fanout, places, pump>>

(* Condvar::notify_one.                                                       *)
Sleepers(c) == {k \in Threads : Channel[k] = c /\ use[k] = "asleep"}
NotifyOne(c) ==
    \/ Sleepers(c) = {} /\ UNCHANGED use
    \/ \E k \in Sleepers(c) : Move(k, "awake")

-----------------------------------------------------------------------------
(* Publishing.                                                                *)

MayPublish == lock = NoOne

(* publish locks the list; the filters accept the frame for some of the       *)
(* subscribers, which the fanout visits in some order.                        *)
Publish(p) ==
    /\ at[p] = "idle" /\ MayPublish /\ published < MaxFrames
    /\ p = Pump => pump = "rx"
    /\ lock' = p /\ published' = published + 1
    /\ at' = [at EXCEPT ![p] = "fanout"] /\ frame' = [frame EXCEPT ![p] = published + 1]
    /\ \E accepted \in SUBSET live : todo' = [todo EXCEPT ![p] = accepted]
    /\ UNCHANGED <<settings, overflow, frames, users, on, wake, pump>>

(* Mutated form of Notified: only the first frame of a queue wakes a thread.  *)
NotifiedWhenEmpty(s) == IF queue[s] = <<>> THEN NotifyOne(s) ELSE UNCHANGED use

Notified(s) == NotifyOne(s)

(* Mutated form of Counted: a frame that is not queued is not counted.        *)
CountedWhenEvicted(s) ==
    overflow' = IF Full(s) /\ DropsOldest(s)
                  THEN [overflow EXCEPT ![s] = @ + 1] ELSE overflow

Counted(s) == overflow' = IF Full(s) THEN [overflow EXCEPT ![s] = @ + 1] ELSE overflow

(* SubscriptionShared::push.  A dropped subscription is passed over, and a    *)
(* full one that drops the newest wakes nobody.                               *)
Push(p, s) ==
    /\ at[p] = "fanout" /\ s \in todo[p]
    /\ todo' = [todo EXCEPT ![p] = @ \ {s}]
    /\ IF s \in live /\ (~ Full(s) \/ DropsOldest(s))
         THEN /\ queue' = [queue EXCEPT ![s] =
                             Append(IF Full(s) THEN Tail(@) ELSE @, frame[p])]
              /\ Notified(s)
              /\ at' = [at EXCEPT ![p] = "take"] /\ on' = [on EXCEPT ![p] = s]
         ELSE UNCHANGED <<queue, use, at, on>>
    /\ IF s \in live
         THEN Counted(s) /\ owed' = [owed EXCEPT ![s] = @ + 1]
         ELSE UNCHANGED <<overflow, owed>>
    /\ UNCHANGED <<settings, last, wakers, scheduled, lock, frame, published, wake, pump>>

(* WakerSet::take, by a publisher after a push or by the pump after a pop.    *)
TakeWakers(p) ==
    /\ at[p] = "take"
    /\ at' = [at EXCEPT ![p] = IF on[p] = Tx THEN "wake" ELSE "fanout"]
    /\ wake' = [wake EXCEPT ![p] = @ \cup wakers[on[p]]]
    /\ wakers' = [wakers EXCEPT ![on[p]] = {}]
    /\ UNCHANGED <<settings, overflow, frames, use, scheduled, fanout, on, pump>>

(* The end of the fanout, where the list is unlocked.                         *)
Unlock(p) ==
    /\ at[p] = "fanout" /\ todo[p] = {}
    /\ lock' = NoOne /\ at' = [at EXCEPT ![p] = "wake"]
    /\ UNCHANGED <<settings, overflow, frames, users, frame, todo, published, on, wake,
                   pump>>

(* The loop over the wakers taken.                                            *)
Wake(p) ==
    /\ at[p] = "wake"
    /\ \/ /\ wake[p] = {} /\ at' = [at EXCEPT ![p] = "idle"]
          /\ frame' = [frame EXCEPT ![p] = 0] /\ on' = [on EXCEPT ![p] = Tx]
          /\ UNCHANGED <<scheduled, wake>>
       \/ \E k \in wake[p] :
            /\ scheduled' = scheduled \cup {k} /\ wake' = [wake EXCEPT ![p] = @ \ {k}]
            /\ UNCHANGED <<at, frame, on>>
    /\ UNCHANGED <<settings, overflow, frames, use, wakers, lock, todo, published, pump>>

-----------------------------------------------------------------------------
(* Subscribing and unsubscribing, and the overflow count.                     *)

Subscribe(s) ==
    /\ s \notin live /\ lock = NoOne
    /\ live' = live \cup {s}
    /\ \E way \in Ways : made' = [made EXCEPT ![s] = way]
    /\ wakers' = [wakers EXCEPT ![s] = {}]
    /\ UNCHANGED <<overflow, frames, use, scheduled, fanout, places, pump>>

(* The handle is dropped, which no user of it can still be using, and the     *)
(* queue with it.  A publisher may still hold the wakers.                     *)
Unsubscribe(s) ==
    /\ s \in live /\ \A k \in Users : Channel[k] = s => use[k] = "idle"
    /\ live' = live \ {s}
    /\ queue' = [queue EXCEPT ![s] = <<>>] /\ overflow' = [overflow EXCEPT ![s] = 0]
    /\ owed' = [owed EXCEPT ![s] = 0] /\ last' = [last EXCEPT ![s] = 0]
    /\ UNCHANGED <<made, users, fanout, places, pump>>

(* take_overflow_count reports the frames lost.                               *)
TakeOverflowCount(s) ==
    /\ s \in live
    /\ overflow' = [overflow EXCEPT ![s] = 0]
    /\ owed' = [owed EXCEPT ![s] = @ - overflow[s]]
    /\ UNCHANGED <<settings, queue, last, users, fanout, places, pump>>

-----------------------------------------------------------------------------
(* run_pump.  Its receive is Publish(Pump).                                   *)

PumpMoves(from, to) ==
    /\ pump = from /\ at[Pump] = "idle" /\ pump' = to
    /\ UNCHANGED <<settings, overflow, frames, users, fanout, places>>

(* try_pop: a frame leaves the queue, one thread is notified under the lock,  *)
(* the wakers follow.                                                         *)
PumpPops ==
    /\ pump = "tx" /\ at[Pump] = "idle" /\ queue[Tx] # <<>>
    /\ queue' = [queue EXCEPT ![Tx] = Tail(@)]
    /\ NotifyOne(Tx)
    /\ at' = [at EXCEPT ![Pump] = "take"] /\ on' = [on EXCEPT ![Pump] = Tx]
    /\ pump' = "transmit"
    /\ UNCHANGED <<settings, overflow, owed, last, wakers, scheduled, fanout, wake>>

PumpTransmits == PumpMoves("transmit", "tx")

(* A driver error, or a frame refused until TX_STUCK_TIMEOUT.                 *)
PumpFails == PumpMoves("rx", "failed") \/ PumpMoves("transmit", "failed")

(* Nothing more to receive; nothing more to send, and the stop flag is read.  *)
PumpTurns ==
    \/ PumpMoves("rx", "tx")
    \/ queue[Tx] = <<>> /\ (PumpMoves("tx", "rx") \/ PumpMoves("tx", "ended"))

-----------------------------------------------------------------------------
UserStep(k) ==
    \/ k \in Threads /\ (ThreadTry(k) \/ ThreadGivesUp(k))
    \/ k \in Tasks /\ (TaskPoll(k) \/ Register(k) \/ TaskRecheck(k) \/ TaskCancel(k))

PublisherStep(p) ==
    TakeWakers(p) \/ Unlock(p) \/ Wake(p) \/ \E s \in Subs : Push(p, s)

Next ==
    \/ \E k \in Users : UserStep(k)
    \/ \E p \in Publishers : Publish(p) \/ PublisherStep(p)
    \/ \E s \in Subs : Subscribe(s) \/ Unsubscribe(s) \/ TakeOverflowCount(s)
    \/ PumpPops \/ PumpTransmits \/ PumpFails \/ PumpTurns

Spec == Init /\ [][Next]_vars

(* Threads that run and tasks that were woken go on, and so do publishers;    *)
(* a thread asleep or a task not woken is owed nothing, nor is the pump.      *)
Fairness ==
    /\ \A k \in Threads : WF_vars(use[k] = "awake" /\ ThreadTry(k))
    /\ \A k \in Tasks : WF_vars(Register(k)) /\ WF_vars(TaskRecheck(k))
                          /\ WF_vars(use[k] = "pending" /\ k \in scheduled /\ TaskPoll(k))
    /\ \A p \in Publishers : WF_vars(PublisherStep(p))

FairSpec == Spec /\ Fairness

-----------------------------------------------------------------------------
(* Properties.                                                                *)

Awake(c) == {k \in Threads : Channel[k] = c /\ use[k] = "awake"}
Units(c) == IF c = Tx THEN TxCapacity - Len(queue[Tx]) ELSE Len(queue[c])

(* While a thread sleeps in recv or send, there are never more frames (or     *)
(* free places) than threads already notified: one notify_one for each is     *)
(* enough, although tasks and other threads may take what it was sent for.    *)
NoThreadForgotten ==
    \A c \in Channels : Sleepers(c) # {} => Units(c) <= Cardinality(Awake(c))

(* A task suspended in recv_async or send_async while its channel has what it *)
(* waits for has been woken, or a publisher (or the pump) holds its waker or  *)
(* is about to take it: the second try closes the gap between the first one   *)
(* and the registration.                                                      *)
NoTaskForgotten ==
    \A k \in Tasks :
      use[k] = "pending" /\ Available(Channel[k]) =>
        \/ k \in scheduled
        \/ \E p \in Publishers :
             \/ k \in wake[p]
             \/ at[p] = "take" /\ on[p] = Channel[k] /\ k \in wakers[Channel[k]]

(* Every subscriber sees the frames in the order of publication, whoever      *)
(* publishes them and whatever its queue had to drop ("Per-subscriber FIFO in *)
(* publish order is an API guarantee", bus.rs:19).                            *)
InPublishOrder ==
    \A s \in Subs :
      /\ \A i \in 1..Len(queue[s]) : queue[s][i] > last[s]
      /\ \A i, j \in 1..Len(queue[s]) : i < j => queue[s][i] < queue[s][j]

(* A frame a subscription's filter accepted is received, queued, or counted   *)
(* as lost exactly once, under both policies and whenever the count is taken. *)
LossesCounted == \A s \in Subs : owed[s] = Len(queue[s]) + overflow[s]

(* Nobody waits for ever for what is there: a receiver with frames queued, or *)
(* a sender with space, does not stay suspended.                              *)
WaitersServed ==
    \A k \in Users :
      ~ <>[](use[k] \in {"asleep", "pending"} /\ Available(Channel[k]))
=============================================================================
