--------------------------- MODULE SharedBusProofs ---------------------------
(* Proofs about SharedBus, for any number of subscriptions, users, publishers *)
(* and frames.                                                                *)
EXTENDS SharedBus, FiniteSetTheorems, TLAPS

(* The publisher has the list of subscribers locked.                          *)
Holds(p) == at[p] = "fanout" \/ (at[p] = "take" /\ on[p] # Tx)

(* A dropped subscription is empty and nobody uses it, an idle publisher has  *)
(* nobody to wake, and the lock is held by the publisher in its fanout.       *)
Structure ==
    /\ \A k \in Users : Channel[k] # Tx /\ Channel[k] \notin live => use[k] = "idle"
    /\ \A s \in Subs \ live : queue[s] = <<>>
    /\ \A p \in Publishers : at[p] = "idle" => wake[p] = {}
    /\ \A p \in Publishers : lock = p <=> Holds(p)

(* What every subscriber has is older than the frame that is on its way to it. *)
Older(s, n) == last[s] < n /\ \A i \in 1..Len(queue[s]) : queue[s][i] < n
Ordered ==
    /\ InPublishOrder
    /\ \A s \in Subs : Older(s, published + 1)
    /\ \A p \in Publishers :
         Holds(p) => frame[p] = published /\ \A s \in todo[p] : Older(s, published)

(* A task is woken or in the hands of somebody who will wake it; somebody is   *)
(* about to take the wakers of its channel; its waker is in the channel.      *)
Woken(k) == k \in scheduled \/ \E p \in Publishers : k \in wake[p]
Coming(k) == \E p \in Publishers : at[p] = "take" /\ on[p] = Channel[k]
Listed(k) == k \in wakers[Channel[k]]

(* The waker of a task that is about to wait, or waits, is in somebody's hands. *)
Reachable ==
    \A k \in Tasks : use[k] \in {"registered", "pending"} => Woken(k) \/ Listed(k)

-----------------------------------------------------------------------------
USE SharedBusAssumption

(* Next, action by action.                                                    *)
LEMMA StepCases ==
    ASSUME [Next]_vars
    PROVE  \/ \E k \in Threads : ThreadTry(k) \/ ThreadGivesUp(k)
           \/ \E k \in Tasks : TaskPoll(k) \/ Register(k) \/ TaskRecheck(k) \/ TaskCancel(k)
           \/ \E p \in Publishers : Publish(p) \/ TakeWakers(p) \/ Unlock(p) \/ Wake(p)
           \/ \E p \in Publishers, s \in Subs : Push(p, s)
           \/ \E s \in Subs : Subscribe(s) \/ Unsubscribe(s) \/ TakeOverflowCount(s)
           \/ PumpPops
           \/ \E a, b \in {"rx", "tx", "transmit", "ended", "failed"} : PumpMoves(a, b)
           \/ UNCHANGED vars
  BY DEF Next, UserStep, PublisherStep, PumpTransmits, PumpFails, PumpTurns

(* A try keeps the types and the balance of frames.                           *)
LEMMA TryTyped ==
    ASSUME TypeOK, LossesCounted, NEW k \in Users, NEW place, Try(k, place),
           UNCHANGED <<made, overflow>>
    PROVE  /\ queue' \in [Channels -> Seq(Nat)]
           /\ \A c \in Channels : Len(queue'[c]) <= Capacity(c)'
           /\ owed' \in [Subs -> Nat] /\ last' \in [Subs -> Nat]
           /\ LossesCounted'
  <1> DEFINE c == Channel[k]
  <1>1. c \in Channels
    BY DEF SharedBusAssumption
  <1>2. CASE ~ Available(c)
    BY <1>2 DEF Try, Obtain, TypeOK, LossesCounted, Capacity
  <1>3. CASE Available(c) /\ c = Tx
    <2>1. queue' = [queue EXCEPT ![Tx] = Append(@, 0)] /\ UNCHANGED <<owed, last>>
      BY <1>3 DEF Try, Obtain
    <2>2. queue[Tx] \in Seq(Nat) /\ Len(queue[Tx]) < Capacity(Tx) /\ Tx \notin Subs
      BY <1>3, <1>1 DEF Available, Full, TypeOK, SharedBusAssumption, Channels, Capacity
    <2> QED
      BY <2>1, <2>2, <1>1 DEF TypeOK, LossesCounted, Capacity, Channels
  <1>4. CASE Available(c) /\ c # Tx
    <2>1. /\ queue' = [queue EXCEPT ![c] = Tail(@)]
          /\ owed' = [owed EXCEPT ![c] = @ - 1]
          /\ last' = [last EXCEPT ![c] = Head(queue[c])]
      BY <1>4 DEF Try, Obtain
    <2>2. queue[c] \in Seq(Nat) /\ queue[c] # <<>> /\ c \in Subs
      BY <1>4, <1>1 DEF Available, TypeOK, Channels
    <2>3. /\ Tail(queue[c]) \in Seq(Nat) /\ Len(Tail(queue[c])) = Len(queue[c]) - 1
          /\ Len(queue[c]) \in Nat \ {0} /\ Head(queue[c]) \in Nat
      BY <2>2
    <2>4. owed[c] = Len(queue[c]) + overflow[c] /\ overflow[c] \in Nat
      BY <2>2 DEF LossesCounted, TypeOK
    <2>5. /\ queue' \in [Channels -> Seq(Nat)]
          /\ owed' \in [Subs -> Nat] /\ last' \in [Subs -> Nat]
      <3>1. queue' \in [Channels -> Seq(Nat)]
        BY <2>1, <2>3 DEF TypeOK
      <3>2. owed[c] - 1 \in Nat
        BY <2>3, <2>4
      <3> QED
        BY Zenon, <2>1, <2>3, <3>1, <3>2 DEF TypeOK
    <2>6. ASSUME NEW d \in Channels
          PROVE  Len(queue'[d]) <= Capacity(d)'
      <3>1. Len(queue[d]) \in Nat /\ Len(queue[d]) <= Capacity(d) /\ Capacity(d) \in Nat
        BY DEF TypeOK, Capacity, SharedBusAssumption, Channels
      <3>2. queue'[d] = (IF d = c THEN Tail(queue[c]) ELSE queue[d]) /\ Capacity(d)' = Capacity(d)
        BY <2>1, <1>1 DEF TypeOK, Capacity
      <3> QED
        BY <3>1, <3>2, <2>3
    <2>7. ASSUME NEW s \in Subs
          PROVE  owed'[s] = Len(queue'[s]) + overflow'[s]
      <3>1. /\ queue'[s] = IF s = c THEN Tail(queue[c]) ELSE queue[s]
            /\ owed'[s] = IF s = c THEN owed[c] - 1 ELSE owed[s]
        BY <2>1, <1>1 DEF TypeOK, Channels
      <3>2. owed[s] = Len(queue[s]) + overflow[s]
        BY DEF LossesCounted
      <3> QED
        BY <3>1, <3>2, <2>3, <2>4
    <2> QED
      BY <2>5, <2>6, <2>7 DEF LossesCounted
  <1> QED
    BY <1>2, <1>3, <1>4

(* Condvar::notify_one keeps the places typed.                                *)
LEMMA NotifyTyped ==
    ASSUME TypeOK, NEW c \in Channels, NotifyOne(c) \/ UNCHANGED use
    PROVE  /\ use' \in [Users -> ThreadPlaces \cup TaskPlaces]
           /\ \A k \in Threads : use'[k] \in ThreadPlaces
           /\ \A k \in Tasks : use'[k] \in TaskPlaces
  BY Zenon DEF NotifyOne, Sleepers, Move, TypeOK, ThreadPlaces, TaskPlaces, Users, SharedBusAssumption

(* Every step keeps the types and the count of losses.                        *)
LEMMA TypeStep ==
    ASSUME TypeOK, Structure, LossesCounted, [Next]_vars
    PROVE  TypeOK' /\ LossesCounted'
  <1> USE DEF Users, SharedBusAssumption, settings, frames, users, fanout, places
  <1>1. ASSUME NEW k \in Threads, ThreadTry(k)
        PROVE  TypeOK' /\ LossesCounted'
    <2>1. /\ Try(k, "asleep")
          /\ UNCHANGED <<settings, overflow, wakers, scheduled, fanout, places, pump>>
      BY <1>1 DEF ThreadTry
    <2>2. Move(k, "asleep") \/ Move(k, "idle")
      BY <2>1 DEF Try
    <2> QED
      BY Zenon, <2>1, <2>2, TryTyped DEF TypeOK, Move, ThreadPlaces, TaskPlaces
  <1>2. ASSUME NEW k \in Threads, ThreadGivesUp(k)
        PROVE  TypeOK' /\ LossesCounted'
    BY <1>2 DEF ThreadGivesUp, TypeOK, LossesCounted, Capacity, Move, ThreadPlaces, TaskPlaces
  <1>3. ASSUME NEW k \in Tasks, TaskPoll(k) \/ TaskRecheck(k)
        PROVE  TypeOK' /\ LossesCounted'
    <2>1. /\ Try(k, "checked") \/ Try(k, "pending")
          /\ scheduled' \subseteq scheduled
          /\ UNCHANGED <<settings, overflow, wakers, fanout, places, pump>>
      BY <1>3 DEF TaskPoll, TaskRecheck, SecondTry
    <2>2. Move(k, "checked") \/ Move(k, "pending") \/ Move(k, "idle")
      BY <2>1 DEF Try
    <2>3. /\ queue' \in [Channels -> Seq(Nat)]
          /\ \A c \in Channels : Len(queue'[c]) <= Capacity(c)'
          /\ owed' \in [Subs -> Nat] /\ last' \in [Subs -> Nat]
          /\ LossesCounted'
      BY <2>1, TryTyped
    <2> QED
      BY Zenon, <2>1, <2>2, <2>3 DEF TypeOK, Move, ThreadPlaces, TaskPlaces
  <1>4. ASSUME NEW k \in Tasks, Register(k)
        PROVE  TypeOK' /\ LossesCounted'
    <2>1. /\ use' = [use EXCEPT ![k] = "registered"]
          /\ wakers' = [wakers EXCEPT ![Channel[k]] = @ \cup {k}] /\ Channel[k] \in Channels
          /\ UNCHANGED <<settings, overflow, frames, scheduled, fanout, places, pump>>
      BY <1>4 DEF Register, Move
    <2>2. wakers' \in [Channels -> SUBSET Tasks]
      BY <2>1 DEF TypeOK
    <2> QED
      BY <2>1, <2>2 DEF TypeOK, LossesCounted, Capacity, ThreadPlaces, TaskPlaces
  <1>14. ASSUME NEW k \in Tasks, TaskCancel(k)
         PROVE  TypeOK' /\ LossesCounted'
    BY <1>14 DEF TaskCancel, TypeOK, LossesCounted, Capacity, Move, ThreadPlaces, TaskPlaces
  <1>5. ASSUME NEW p \in Publishers, Publish(p)
        PROVE  TypeOK' /\ LossesCounted'
    <2>1. todo' \in [Publishers -> SUBSET Subs]
      BY <1>5 DEF Publish, TypeOK
    <2> QED
      BY <1>5, <2>1 DEF Publish, TypeOK, LossesCounted, Capacity
  <1>6. ASSUME NEW p \in Publishers, TakeWakers(p)
        PROVE  TypeOK' /\ LossesCounted'
    <2>1. on[p] \in Channels
      BY DEF TypeOK
    <2>2. wakers' \in [Channels -> SUBSET Tasks] /\ wake' \in [Publishers -> SUBSET Tasks]
      BY <1>6, <2>1 DEF TakeWakers, TypeOK
    <2> QED
      BY <1>6, <2>2 DEF TakeWakers, TypeOK, LossesCounted, Capacity
  <1>7. ASSUME NEW p \in Publishers, Unlock(p)
        PROVE  TypeOK' /\ LossesCounted'
    BY <1>7 DEF Unlock, TypeOK, LossesCounted, Capacity
  <1>8. ASSUME NEW p \in Publishers, Wake(p)
        PROVE  TypeOK' /\ LossesCounted'
    <2>1. wake[p] \subseteq Tasks /\ Tx \in Channels
      BY DEF TypeOK, Channels
    <2>2. /\ \/ wake' = wake /\ scheduled' = scheduled
             \/ \E k \in wake[p] : /\ scheduled' = scheduled \cup {k}
                                    /\ wake' = [wake EXCEPT ![p] = @ \ {k}]
          /\ at' = [at EXCEPT ![p] = "idle"] \/ at' = at
          /\ frame' = [frame EXCEPT ![p] = 0] \/ frame' = frame
          /\ on' = [on EXCEPT ![p] = Tx] \/ on' = on
          /\ UNCHANGED <<settings, overflow, frames, use, wakers, lock, todo, published, pump>>
      BY <1>8 DEF Wake
    <2>3. wake' \in [Publishers -> SUBSET Tasks] /\ scheduled' \subseteq Tasks
      <3>1. CASE wake' = wake /\ scheduled' = scheduled
        BY <3>1 DEF TypeOK
      <3>2. ASSUME NEW k \in wake[p], scheduled' = scheduled \cup {k},
                   wake' = [wake EXCEPT ![p] = @ \ {k}]
            PROVE  wake' \in [Publishers -> SUBSET Tasks] /\ scheduled' \subseteq Tasks
        BY <2>1, <3>2 DEF TypeOK
      <3> QED
        BY <2>2, <3>1, <3>2
    <2>4. at' \in [Publishers -> {"idle", "fanout", "take", "wake"}]
      <3>1. at \in [Publishers -> {"idle", "fanout", "take", "wake"}]
        BY DEF TypeOK
      <3>2. at' = [at EXCEPT ![p] = "idle"] \/ at' = at
        BY <2>2
      <3> QED
        BY <3>1, <3>2
    <2>5. frame' \in [Publishers -> Nat]
      <3>1. frame \in [Publishers -> Nat]
        BY DEF TypeOK
      <3>2. frame' = [frame EXCEPT ![p] = 0] \/ frame' = frame
        BY <2>2
      <3> QED
        BY <3>1, <3>2
    <2>6. on' \in [Publishers -> Channels]
      BY Zenon, <2>1, <2>2 DEF TypeOK
    <2> QED
      BY <2>2, <2>3, <2>4, <2>5, <2>6 DEF TypeOK, LossesCounted, Capacity
  <1>9. ASSUME NEW p \in Publishers, NEW s \in Subs, Push(p, s)
        PROVE  TypeOK' /\ LossesCounted'
    <2> DEFINE kept == s \in live /\ (~ Full(s) \/ DropsOldest(s))
               q == IF Full(s) THEN Tail(queue[s]) ELSE queue[s]
    <2>1. frame[p] \in Nat /\ s \in Channels /\ s # Tx
      BY DEF TypeOK, Channels
    <2>2. UNCHANGED <<settings, last, wakers, scheduled, lock, frame, published, wake, pump>>
      BY <1>9 DEF Push
    <2>3. /\ at' \in [Publishers -> {"idle", "fanout", "take", "wake"}]
          /\ on' \in [Publishers -> Channels] /\ todo' \in [Publishers -> SUBSET Subs]
      <3>1. /\ todo' = [todo EXCEPT ![p] = @ \ {s}]
            /\ at' = [at EXCEPT ![p] = "take"] \/ at' = at
            /\ on' = [on EXCEPT ![p] = s] \/ on' = on
        BY <1>9 DEF Push
      <3> QED
        BY Zenon, <3>1, <2>1 DEF TypeOK
    <2>4. /\ use' \in [Users -> ThreadPlaces \cup TaskPlaces]
          /\ \A k \in Threads : use'[k] \in ThreadPlaces
          /\ \A k \in Tasks : use'[k] \in TaskPlaces
      <3>1. NotifyOne(s) \/ UNCHANGED use
        BY <1>9 DEF Push, Notified
      <3> QED
        BY <3>1, <2>1, NotifyTyped
    <2>5. /\ queue[s] \in Seq(Nat) /\ Len(queue[s]) \in Nat /\ Len(queue[s]) <= Capacity(s)
          /\ Capacity(s) \in Nat \ {0}
      BY <2>1 DEF TypeOK, Capacity
    <2>6. q \in Seq(Nat) /\ Len(q) = IF Full(s) THEN Len(queue[s]) - 1 ELSE Len(queue[s])
      BY <2>5 DEF Full
    <2>7. /\ Append(q, frame[p]) \in Seq(Nat)
          /\ Len(Append(q, frame[p])) = IF Full(s) THEN Len(queue[s]) ELSE Len(queue[s]) + 1
      BY <2>1, <2>5, <2>6
    <2>8. queue' = IF kept THEN [queue EXCEPT ![s] = Append(q, frame[p])] ELSE queue
      BY <1>9 DEF Push
    <2>9. /\ overflow' = IF s \in live /\ Full(s) THEN [overflow EXCEPT ![s] = @ + 1] ELSE overflow
          /\ owed' = IF s \in live THEN [owed EXCEPT ![s] = @ + 1] ELSE owed
      BY <1>9 DEF Push, Counted
    <2>10. queue' \in [Channels -> Seq(Nat)]
      BY Zenon, <2>7, <2>8 DEF TypeOK
    <2>11. overflow' \in [Subs -> Nat] /\ owed' \in [Subs -> Nat]
      BY <2>9 DEF TypeOK
    <2>12. \A c \in Channels : Len(queue'[c]) <= Capacity(c)'
      BY <2>1, <2>2, <2>5, <2>7, <2>8 DEF TypeOK, Capacity, Full
    <2>13. ASSUME NEW d \in Subs
           PROVE  owed'[d] = Len(queue'[d]) + overflow'[d]
      <3>1. owed[d] = Len(queue[d]) + overflow[d] /\ owed[d] \in Nat /\ overflow[d] \in Nat
            /\ d \in Channels /\ Len(queue[d]) \in Nat
        BY DEF LossesCounted, TypeOK, Channels
      <3>2. CASE d # s
        BY <3>1, <3>2, <2>8, <2>9 DEF TypeOK
      <3>3. CASE d = s
        <4>1. owed'[s] = (IF s \in live THEN owed[s] + 1 ELSE owed[s])
          BY <2>9 DEF TypeOK
        <4>2. overflow'[s] = (IF s \in live /\ Full(s) THEN overflow[s] + 1 ELSE overflow[s])
          BY <2>9 DEF TypeOK
        <4>3. queue'[s] = (IF kept THEN Append(q, frame[p]) ELSE queue[s])
          BY <2>8, <2>1 DEF TypeOK
        <4>4. CASE kept
          <5>1. s \in live /\ owed'[s] = owed[s] + 1
            BY <4>1, <4>4
          <5>2. /\ Len(queue'[s]) = IF Full(s) THEN Len(queue[s]) ELSE Len(queue[s]) + 1
                /\ overflow'[s] = IF Full(s) THEN overflow[s] + 1 ELSE overflow[s]
            BY <4>2, <4>3, <4>4, <2>7, <5>1
          <5> QED
            BY <3>1, <3>3, <5>1, <5>2
        <4>5. CASE ~ kept
          BY <3>1, <3>3, <4>1, <4>2, <4>3, <4>5
        <4> QED
          BY <4>4, <4>5
      <3> QED
        BY <3>2, <3>3
    <2> QED
      BY Zenon, <2>2, <2>3, <2>4, <2>10, <2>11, <2>12, <2>13 DEF TypeOK, LossesCounted
  <1>10. ASSUME NEW s \in Subs, Subscribe(s)
         PROVE  TypeOK' /\ LossesCounted'
    <2>1. PICK way \in Ways : made' = [made EXCEPT ![s] = way]
      BY Zenon, <1>10 DEF Subscribe
    <2>2. wakers' \in [Channels -> SUBSET Tasks]
      BY <1>10 DEF Subscribe, TypeOK, Channels
    <2>3. /\ s \notin live /\ live' = live \cup {s}
          /\ UNCHANGED <<overflow, frames, use, scheduled, fanout, places, pump>>
      BY <1>10 DEF Subscribe
    <2>4. ASSUME NEW c \in Channels
          PROVE  Len(queue'[c]) <= Capacity(c)'
      <3>1. CASE c = s
        <4>1. queue'[c] = <<>> /\ Capacity(c)' = way.capacity /\ way.capacity \in Nat
          BY <2>1, <2>3, <3>1 DEF Structure, Capacity, TypeOK
        <4> QED
          BY <4>1
      <3>2. CASE c # s
        BY <2>1, <2>3, <3>2 DEF TypeOK, Capacity
      <3> QED
        BY <3>1, <3>2
    <2> QED
      BY <2>1, <2>2, <2>3, <2>4 DEF TypeOK, LossesCounted
  <1>15. ASSUME NEW s \in Subs, Unsubscribe(s)
         PROVE  TypeOK' /\ LossesCounted'
    <2>1. Len(<<>>) = 0 /\ <<>> \in Seq(Nat) /\ s \in Channels /\ s # Tx
      BY DEF Channels
    <2>2. \A c \in Channels : Capacity(c)' = Capacity(c) /\ Capacity(c) \in Nat
      BY <1>15 DEF Unsubscribe, Capacity, TypeOK, Channels
    <2> QED
      BY <1>15, <2>1, <2>2 DEF Unsubscribe, TypeOK, LossesCounted
  <1>16. ASSUME NEW s \in Subs, TakeOverflowCount(s)
         PROVE  TypeOK' /\ LossesCounted'
    BY <1>16 DEF TakeOverflowCount, TypeOK, LossesCounted, Capacity, Channels
  <1>11. ASSUME PumpPops
         PROVE  TypeOK' /\ LossesCounted'
    <2>1. /\ queue[Tx] \in Seq(Nat) /\ queue[Tx] # <<>> /\ Tx \in Channels /\ Tx \notin Subs
          /\ Pump \in Publishers
      BY <1>11 DEF PumpPops, TypeOK, Channels, Publishers
    <2>2. Tail(queue[Tx]) \in Seq(Nat) /\ Len(Tail(queue[Tx])) = Len(queue[Tx]) - 1
      BY <2>1
    <2>3. \A c \in Channels : Len(queue'[c]) <= Capacity(c)'
      <3>1. Len(queue[Tx]) \in Nat /\ Len(queue[Tx]) <= Capacity(Tx) /\ Capacity(Tx) \in Nat
        BY <2>1 DEF TypeOK, Capacity
      <3>2. \A c \in Channels : queue'[c] = IF c = Tx THEN Tail(queue[Tx]) ELSE queue[c]
        BY <1>11 DEF PumpPops, TypeOK
      <3>3. \A c \in Channels : Capacity(c)' = Capacity(c)
        BY <1>11 DEF PumpPops, Capacity
      <3>4. ASSUME NEW c \in Channels
            PROVE  Len(queue'[c]) <= Capacity(c)
        <4>1. CASE c = Tx
          <5>1. queue'[Tx] = Tail(queue[Tx])
            BY <2>1, <3>2
          <5> QED
            BY <4>1, <5>1, <2>2, <3>1
        <4>2. CASE c # Tx
          BY <4>2, <3>2 DEF TypeOK
        <4> QED
          BY <4>1, <4>2
      <3> QED
        BY <3>3, <3>4
    <2>4. queue' \in [Channels -> Seq(Nat)] /\ LossesCounted'
      BY <1>11, <2>1, <2>2 DEF PumpPops, TypeOK, LossesCounted, Channels
    <2>5. NotifyOne(Tx)
      BY <1>11 DEF PumpPops
    <2> QED
      BY Zenon, <1>11, <2>1, <2>3, <2>4, <2>5, NotifyTyped DEF PumpPops, TypeOK
  <1>12. ASSUME \E a, b \in {"rx", "tx", "transmit", "ended", "failed"} : PumpMoves(a, b)
         PROVE  TypeOK' /\ LossesCounted'
    BY <1>12 DEF PumpMoves, TypeOK, LossesCounted, Capacity
  <1>13. ASSUME UNCHANGED vars
         PROVE  TypeOK' /\ LossesCounted'
    BY <1>13 DEF vars, TypeOK, LossesCounted, Capacity
  <1> QED
    BY <1>1, <1>2, <1>3, <1>4, <1>5, <1>6, <1>7, <1>8, <1>9, <1>10, <1>11, <1>12, <1>13,
       <1>14, <1>15, <1>16, StepCases

(* Every step keeps Structure.                                                *)
LEMMA StructureStep ==
    ASSUME TypeOK, Structure, [Next]_vars
    PROVE  Structure'
  <1> USE DEF Users, SharedBusAssumption, settings, frames, users, fanout, places
  <1>1. ASSUME NEW k \in Threads, ThreadTry(k)
        PROVE  Structure'
    BY <1>1 DEF ThreadTry, Try, Obtain, Open, Move, Structure, Holds, TypeOK, Channels
  <1>2. ASSUME NEW k \in Threads, ThreadGivesUp(k)
        PROVE  Structure'
    BY <1>2 DEF ThreadGivesUp, Move, Structure, Holds, TypeOK
  <1>3. ASSUME NEW k \in Tasks, TaskPoll(k) \/ TaskRecheck(k)
        PROVE  Structure'
    BY <1>3 DEF TaskPoll, TaskRecheck, SecondTry, Try, Obtain, Open, Move, Structure, Holds,
                TypeOK, Channels
  <1>4. ASSUME NEW k \in Tasks, Register(k) \/ TaskCancel(k)
        PROVE  Structure'
    BY <1>4 DEF Register, TaskCancel, Move, Structure, Holds, TypeOK
  <1>5. ASSUME NEW p \in Publishers, Publish(p)
        PROVE  Structure'
    BY <1>5 DEF Publish, MayPublish, Structure, Holds, TypeOK
  <1>6. ASSUME NEW p \in Publishers, TakeWakers(p)
        PROVE  Structure'
    BY <1>6 DEF TakeWakers, Structure, Holds, TypeOK
  <1>11. ASSUME NEW p \in Publishers, Unlock(p)
         PROVE  Structure'
    BY <1>11 DEF Unlock, Structure, Holds, TypeOK
  <1>12. ASSUME NEW p \in Publishers, Wake(p)
         PROVE  Structure'
    <2>1. \A r \in Publishers : Holds(r)' <=> Holds(r)
      BY <1>12 DEF Wake, Holds, TypeOK
    <2>2. \A r \in Publishers : at'[r] = "idle" => wake'[r] = {}
      BY Zenon, <1>12 DEF Wake, Structure, TypeOK
    <2>3. UNCHANGED <<live, use, queue, lock>>
      BY <1>12 DEF Wake
    <2> QED
      BY <2>1, <2>2, <2>3 DEF Structure
  <1>7. ASSUME NEW p \in Publishers, NEW s \in Subs, Push(p, s)
        PROVE  Structure'
    <2>1. s \in Channels /\ Tx \notin Subs
      BY DEF Channels
    <2>2. \A k \in Users : use'[k] = "idle" <=> use[k] = "idle"
      BY <1>7 DEF Push, Notified, NotifyOne, Sleepers, Move, TypeOK
    <2>3. \A d \in Subs \ live : queue'[d] = queue[d]
      BY <1>7, <2>1 DEF Push, TypeOK, Channels
    <2>4. \A r \in Publishers : Holds(r)' <=> Holds(r)
      BY <1>7, <2>1 DEF Push, Holds, TypeOK
    <2>5. \A r \in Publishers : at'[r] = "idle" => at[r] = "idle"
      BY <1>7 DEF Push, TypeOK
    <2>6. UNCHANGED <<live, lock, wake>>
      BY <1>7 DEF Push
    <2> QED
      BY <2>2, <2>3, <2>4, <2>5, <2>6 DEF Structure
  <1>8. ASSUME NEW s \in Subs, Subscribe(s) \/ Unsubscribe(s) \/ TakeOverflowCount(s)
        PROVE  Structure'
    BY <1>8 DEF Subscribe, Unsubscribe, TakeOverflowCount, Structure, Holds, TypeOK, Channels
  <1>9. ASSUME PumpPops
        PROVE  Structure'
    BY <1>9 DEF PumpPops, NotifyOne, Sleepers, Move, Structure, Holds, TypeOK, Channels,
                Publishers
  <1>10. ASSUME \/ UNCHANGED vars
                \/ \E a, b \in {"rx", "tx", "transmit", "ended", "failed"} : PumpMoves(a, b)
         PROVE  Structure'
    BY <1>10 DEF vars, PumpMoves, Structure, Holds
  <1> QED
    BY <1>1, <1>2, <1>3, <1>4, <1>5, <1>6, <1>7, <1>8, <1>9, <1>10, <1>11,
       <1>12, StepCases

(* A try takes the oldest frame out of a queue.                               *)
LEMMA TryOrdered ==
    ASSUME TypeOK, Ordered, NEW k \in Users, NEW place, Try(k, place),
           UNCHANGED <<fanout, at, on>>
    PROVE  Ordered'
  <1> DEFINE c == Channel[k]
  <1> USE DEF SharedBusAssumption, fanout
  <1>1. c \in Channels
    OBVIOUS
  <1>2. CASE c = Tx \/ ~ Available(c)
    <2>1. last' = last /\ \A s \in Subs : queue'[s] = queue[s]
      BY <1>1, <1>2 DEF Try, Obtain, TypeOK, Channels
    <2> QED
      BY Zenon, <2>1 DEF Ordered, InPublishOrder, Older, Holds, TypeOK
  <1>3. CASE c # Tx /\ Available(c)
    <2> DEFINE q == queue[c]
    <2>1. /\ queue' = [queue EXCEPT ![c] = Tail(q)]
          /\ last' = [last EXCEPT ![c] = Head(q)]
      BY <1>3 DEF Try, Obtain
    <2>2. c \in Subs /\ q \in Seq(Nat) /\ q # <<>>
      BY <1>1, <1>3 DEF Available, TypeOK, Channels
    <2>3. /\ Len(q) \in Nat \ {0} /\ Len(Tail(q)) = Len(q) - 1 /\ Head(q) = q[1]
          /\ \A i \in 1..Len(Tail(q)) : i + 1 \in 1..Len(q) /\ Tail(q)[i] = q[i + 1]
          /\ \A i \in 1..Len(q) : q[i] \in Nat
      BY <2>2
    <2>4. \A i, j \in 1..Len(q) : i < j => q[i] < q[j]
      BY Zenon, <2>2 DEF Ordered, InPublishOrder
    <2>5. \A i \in 1..Len(Tail(q)) : Tail(q)[i] > Head(q)
      BY <2>3, <2>4
    <2>6. \A i, j \in 1..Len(Tail(q)) : i < j => Tail(q)[i] < Tail(q)[j]
      BY <2>3, <2>4
    <2>7. \A s \in Subs : /\ queue'[s] = IF s = c THEN Tail(q) ELSE queue[s]
                          /\ last'[s] = IF s = c THEN Head(q) ELSE last[s]
      BY <2>1, <2>2 DEF TypeOK, Channels
    <2>8. ASSUME NEW s \in Subs, NEW n \in Nat, Older(s, n)
          PROVE  Older(s, n)'
      <3>1. CASE s = c
        <4>1. /\ \A i \in 1..Len(q) : q[i] < n
              /\ 1 \in 1..Len(q)
          BY <2>3, <2>8, <3>1 DEF Older
        <4>2. Head(q) < n /\ \A i \in 1..Len(Tail(q)) : Tail(q)[i] < n
          BY <2>3, <4>1
        <4> QED
          BY ZenonT(40), <2>7, <3>1, <4>2 DEF Older
      <3>2. CASE s # c
        BY <2>7, <2>8, <3>2 DEF Older
      <3> QED
        BY <3>1, <3>2
    <2>9. InPublishOrder'
      <3>1. ASSUME NEW s \in Subs
            PROVE  /\ \A i \in 1..Len(queue'[s]) : queue'[s][i] > last'[s]
                   /\ \A i, j \in 1..Len(queue'[s]) : i < j => queue'[s][i] < queue'[s][j]
        <4>1. CASE s = c
          BY ZenonT(40), <2>5, <2>6, <2>7, <4>1
        <4>2. CASE s # c
          BY <2>7, <4>2 DEF Ordered, InPublishOrder
        <4> QED
          BY <4>1, <4>2
      <3> QED
        BY <3>1 DEF InPublishOrder
    <2>10. published \in Nat /\ published + 1 \in Nat /\ \A p \in Publishers : todo[p] \subseteq Subs
      BY DEF TypeOK
    <2>11. \A p \in Publishers : Holds(p)' <=> Holds(p)
      BY DEF Holds
    <2> QED
      BY <2>8, <2>9, <2>10, <2>11 DEF Ordered
  <1> QED
    BY <1>2, <1>3

(* Every step keeps the order of the frames.                                  *)
LEMMA OrderStep ==
    ASSUME TypeOK, Structure, Ordered, [Next]_vars
    PROVE  Ordered'
  <1> USE DEF Users, SharedBusAssumption, settings, frames, users, fanout, places
  <1>1. ASSUME NEW k \in Threads, ThreadTry(k)
        PROVE  Ordered'
    BY <1>1, TryOrdered DEF ThreadTry
  <1>2. ASSUME NEW k \in Tasks, TaskPoll(k) \/ TaskRecheck(k)
        PROVE  Ordered'
    BY <1>2, TryOrdered DEF TaskPoll, TaskRecheck, SecondTry
  <1>3. CASE UNCHANGED <<queue, last, fanout, at, on>>
    BY SMTT(30), <1>3 DEF Ordered, InPublishOrder, Older, Holds
  <1>4. ASSUME NEW p \in Publishers, Publish(p)
        PROVE  Ordered'
    <2>1. /\ published' = published + 1 /\ published \in Nat /\ UNCHANGED <<queue, last>>
          /\ frame' = [frame EXCEPT ![p] = published + 1]
          /\ lock = NoOne /\ todo' \in [Publishers -> SUBSET Subs]
          /\ at' = [at EXCEPT ![p] = "fanout"] /\ on' = on
      BY <1>4 DEF Publish, MayPublish, TypeOK
    <2>2. \A r \in Publishers : Holds(r)' => r = p
      BY <2>1 DEF Structure, Holds, TypeOK
    <2>3. frame'[p] = published + 1
      BY <2>1 DEF TypeOK
    <2>4. ASSUME NEW s \in Subs
          PROVE  Older(s, published)' /\ Older(s, published + 1)'
      <3>1. /\ last[s] \in Nat /\ queue[s] \in Seq(Nat)
            /\ \A i \in 1..Len(queue[s]) : queue[s][i] \in Nat
        BY SMTT(30) DEF TypeOK, Channels
      <3>2. last[s] < published + 1 /\ \A i \in 1..Len(queue[s]) : queue[s][i] < published + 1
        BY DEF Ordered, Older
      <3> QED
        BY <2>1, <3>1, <3>2 DEF Older
    <2>5. InPublishOrder'
      BY <2>1 DEF Ordered, InPublishOrder
    <2>6. \A r \in Publishers : todo'[r] \subseteq Subs
      BY SMTT(30), <2>1
    <2> QED
      BY <2>1, <2>2, <2>3, <2>4, <2>5, <2>6 DEF Ordered
  <1>5. ASSUME NEW p \in Publishers, TakeWakers(p) \/ Unlock(p) \/ Wake(p)
        PROVE  Ordered'
    <2>1. /\ UNCHANGED <<queue, last, published, todo>>
          /\ \A r \in Publishers : Holds(r)' => Holds(r) /\ frame'[r] = frame[r]
      BY <1>5 DEF TakeWakers, Unlock, Wake, Holds, TypeOK
    <2> QED
      BY ZenonT(40), <2>1 DEF Ordered, InPublishOrder, Older
  <1>6. ASSUME NEW p \in Publishers, NEW s \in Subs, Push(p, s)
        PROVE  Ordered'
    <2> DEFINE kept == s \in live /\ (~ Full(s) \/ DropsOldest(s))
               q == IF Full(s) THEN Tail(queue[s]) ELSE queue[s]
               new == Append(q, frame[p])
    <2>1. /\ queue' = IF kept THEN [queue EXCEPT ![s] = new] ELSE queue
          /\ UNCHANGED <<last, published, frame, lock>> /\ Holds(p) /\ s \in todo[p]
          /\ todo' = [todo EXCEPT ![p] = @ \ {s}]
      BY SMTT(30), <1>6 DEF Push, Holds
    <2>2. \A r \in Publishers : Holds(r) => r = p
      BY Zenon, <2>1 DEF Structure
    <2>3. \A r \in Publishers : Holds(r)' => r = p
      BY <1>6, <2>2 DEF Push, Holds, TypeOK
    <2>4. /\ frame[p] = published /\ Older(s, published) /\ published \in Nat
          /\ queue[s] \in Seq(Nat) /\ last[s] \in Nat /\ s \in Channels
          /\ Full(s) => queue[s] # <<>>
      BY <2>1 DEF Ordered, TypeOK, Channels, Full, Capacity
    <2>5. /\ q \in Seq(Nat) /\ new \in Seq(Nat) /\ Len(q) \in Nat /\ Len(new) = Len(q) + 1
          /\ \A i \in 1..Len(q) : new[i] = q[i]
          /\ new[Len(q) + 1] = published
      BY <2>4
    <2>6. /\ \A i \in 1..Len(q) : q[i] \in Nat /\ q[i] < published /\ q[i] > last[s]
          /\ \A i, j \in 1..Len(q) : i < j => q[i] < q[j]
      <3> DEFINE z == queue[s]
      <3>1. /\ \A i \in 1..Len(z) : z[i] \in Nat /\ z[i] < published /\ z[i] > last[s]
            /\ \A i, j \in 1..Len(z) : i < j => z[i] < z[j]
        BY <2>4 DEF Ordered, InPublishOrder, Older
      <3>2. CASE Full(s)
        <4>1. /\ Len(q) = Len(z) - 1 /\ Len(z) \in Nat
              /\ \A i \in 1..Len(q) : i + 1 \in 1..Len(z) /\ q[i] = z[i + 1]
          BY <2>4, <3>2
        <4> QED
          BY <3>1, <4>1
      <3> QED
        BY <3>1, <3>2
    <2>7. /\ \A i \in 1..Len(new) : new[i] > last[s] /\ new[i] < published + 1
          /\ \A i, j \in 1..Len(new) : i < j => new[i] < new[j]
      <3> HIDE DEF q, new
      <3>1. \A i \in 1..Len(new) : i \in 1..Len(q) \/ i = Len(q) + 1
        BY <2>5
      <3>2. last[s] < published
        BY <2>4 DEF Older
      <3>3. ASSUME NEW i \in 1..Len(new)
            PROVE  new[i] > last[s] /\ new[i] < published + 1
        <4>1. CASE i \in 1..Len(q)
          <5>1. new[i] = q[i] /\ q[i] \in Nat /\ q[i] < published /\ q[i] > last[s]
            BY <2>5, <2>6, <4>1
          <5> QED
            BY <2>4, <5>1
        <4>2. CASE i = Len(q) + 1
          BY <2>4, <2>5, <3>2, <4>2
        <4> QED
          BY <3>1, <4>1, <4>2
      <3>4. ASSUME NEW i \in 1..Len(new), NEW j \in 1..Len(new), i < j
            PROVE  new[i] < new[j]
        <4>1. i \in 1..Len(q)
          BY <2>5, <3>4
        <4> QED
          BY ZenonT(40), <2>4, <2>5, <2>6, <3>1, <3>4, <4>1
      <3> QED
        BY <3>3, <3>4
    <2>8. \A d \in Subs : queue'[d] = IF kept /\ d = s THEN new ELSE queue[d]
      BY <2>1, <2>4 DEF TypeOK, Channels
    <2>9. InPublishOrder'
      <3> HIDE DEF kept, q, new
      <3>1. last' = last
        BY SMTT(30), <2>1
      <3>2. ASSUME NEW d \in Subs
            PROVE  /\ \A i \in 1..Len(queue'[d]) : queue'[d][i] > last'[d]
                   /\ \A i, j \in 1..Len(queue'[d]) : i < j => queue'[d][i] < queue'[d][j]
        <4>1. CASE kept /\ d = s
          <5>1. queue'[d] = new /\ last'[d] = last[s]
            BY <2>8, <3>1, <4>1
          <5> QED
            BY <2>7, <5>1
        <4>2. CASE ~(kept /\ d = s)
          <5>1. queue'[d] = queue[d] /\ last'[d] = last[d]
            BY <2>8, <3>1, <4>2
          <5> QED
            BY <5>1 DEF Ordered, InPublishOrder
        <4> QED
          BY Zenon, <4>1, <4>2
      <3> QED
        BY <3>2 DEF InPublishOrder
    <2>10. \A d \in Subs : Older(d, published + 1)'
      BY <2>1, <2>4, <2>7, <2>8 DEF Ordered, Older
    <2>11. \A d \in todo'[p] : Older(d, published)'
      <3> HIDE DEF kept, q, new
      <3>1. /\ todo'[p] = todo[p] \ {s} /\ todo[p] \subseteq Subs
            /\ last' = last /\ published' = published
        BY <2>1 DEF TypeOK
      <3>2. ASSUME NEW d \in todo'[p]
            PROVE  Older(d, published)'
        <4>1. d \in todo[p] /\ d # s /\ d \in Subs
          BY <3>1
        <4>2. queue'[d] = queue[d]
          BY <2>8, <4>1
        <4>3. Older(d, published)
          BY SMTT(30), <2>1, <4>1 DEF Ordered
        <4> QED
          BY <3>1, <4>2, <4>3 DEF Older
      <3> QED
        BY <3>2
    <2> QED
      BY <2>1, <2>3, <2>4, <2>9, <2>10, <2>11 DEF Ordered
  <1>7. ASSUME NEW s \in Subs, Unsubscribe(s)
        PROVE  Ordered'
    <2>1. /\ UNCHANGED <<fanout, at, on>>
          /\ \A d \in Subs : /\ queue'[d] = IF d = s THEN <<>> ELSE queue[d]
                             /\ last'[d] = IF d = s THEN 0 ELSE last[d]
      BY <1>7 DEF Unsubscribe, TypeOK, Channels
    <2>2. ASSUME NEW d \in Subs, NEW n \in Nat, Older(d, n)
          PROVE  Older(d, n)'
      <3>1. last[d] \in Nat /\ Len(<<>>) = 0
        BY DEF TypeOK
      <3> QED
        BY <2>1, <2>2, <3>1 DEF Older
    <2>3. InPublishOrder'
      <3>1. ASSUME NEW d \in Subs
            PROVE  /\ \A i \in 1..Len(queue'[d]) : queue'[d][i] > last'[d]
                   /\ \A i, j \in 1..Len(queue'[d]) : i < j => queue'[d][i] < queue'[d][j]
        <4>1. CASE d = s
          BY SMTT(30), <2>1, <4>1
        <4>2. CASE d # s
          BY Zenon, <2>1, <4>2 DEF Ordered, InPublishOrder
        <4> QED
          BY SMTT(30), <4>1, <4>2
      <3> QED
        BY <3>1 DEF InPublishOrder
    <2>4. published \in Nat /\ published + 1 \in Nat /\ \A p \in Publishers : todo[p] \subseteq Subs
      BY DEF TypeOK
    <2>5. \A p \in Publishers : Holds(p)' <=> Holds(p)
      BY SMTT(30), <2>1 DEF Holds
    <2> QED
      BY Zenon, <2>1, <2>2, <2>3, <2>4, <2>5 DEF Ordered
  <1>8. ASSUME PumpPops
        PROVE  Ordered'
    <2>1. /\ UNCHANGED <<last, published, todo, frame>>
          /\ \A s \in Subs : queue'[s] = queue[s]
          /\ \A r \in Publishers : Holds(r)' => Holds(r)
      BY <1>8 DEF PumpPops, Holds, TypeOK, Channels, Publishers
    <2> QED
      BY Zenon, <2>1 DEF Ordered, InPublishOrder, Older, TypeOK
  <1> QED
    BY Zenon, <1>1, <1>2, <1>3, <1>4, <1>5, <1>6, <1>7, <1>8, StepCases
    DEF ThreadGivesUp, Register, TaskCancel, Subscribe, TakeOverflowCount, PumpMoves, vars

(* The threads of a channel that are on their way, as a finite set.           *)
LEMMA AwakeFinite ==
    ASSUME NEW c
    PROVE  IsFiniteSet(Awake(c)) /\ Cardinality(Awake(c)) \in Nat
  <1>1. Awake(c) \subseteq Threads
    BY DEF Awake
  <1> QED
    BY <1>1, FS_Subset, FS_CardinalityType DEF SharedBusAssumption

(* What a channel offers is a number, and none when it is not available.      *)
LEMMA UnitsTyped ==
    ASSUME TypeOK, NEW c \in Channels
    PROVE  Units(c) \in Nat /\ (Units(c) = 0 <=> ~ Available(c))
  <1>1. queue[c] \in Seq(Nat) /\ Len(queue[c]) \in Nat /\ Len(queue[c]) <= Capacity(c)
    BY DEF TypeOK
  <1>2. CASE c = Tx
    BY <1>1, <1>2 DEF Units, Available, Full, Capacity, SharedBusAssumption
  <1>3. CASE c # Tx
    BY <1>1, <1>3 DEF Units, Available
  <1> QED
    BY <1>2, <1>3

(* A thread more is on its way for the frame, or place, that is new.          *)
LEMMA NotifyServes ==
    ASSUME TypeOK, NoThreadForgotten, NEW c \in Channels, NotifyOne(c),
           Units(c)' \in Nat, Units(c)' <= Units(c) + 1,
           \A d \in Channels \ {c} : Units(d)' = Units(d)
    PROVE  NoThreadForgotten'
  <1> USE DEF SharedBusAssumption, Users
  <1>1. Units(c) \in Nat /\ IsFiniteSet(Awake(c)) /\ Cardinality(Awake(c)) \in Nat
    BY UnitsTyped, AwakeFinite
  <1>2. CASE Sleepers(c) = {} /\ UNCHANGED use
    <2>1. \A d \in Channels : Sleepers(d)' = Sleepers(d) /\ Awake(d)' = Awake(d)
      BY <1>2 DEF Sleepers, Awake
    <2> QED
      BY <1>2, <2>1 DEF NoThreadForgotten
  <1>3. ASSUME NEW k \in Sleepers(c), Move(k, "awake")
        PROVE  NoThreadForgotten'
    <2>1. \A d \in Channels \ {c} : Sleepers(d)' = Sleepers(d) /\ Awake(d)' = Awake(d)
      BY <1>3 DEF Sleepers, Awake, Move, TypeOK
    <2>2. Awake(c)' = Awake(c) \cup {k} /\ k \notin Awake(c)
      BY <1>3 DEF Sleepers, Awake, Move, TypeOK
    <2>3. Cardinality(Awake(c)') = Cardinality(Awake(c)) + 1
      BY Zenon, <1>1, <2>2, FS_AddElement
    <2>4. Units(c) <= Cardinality(Awake(c))
      BY <1>3 DEF NoThreadForgotten
    <2>5. Units(c)' <= Cardinality(Awake(c)')
      BY <1>1, <2>3, <2>4
    <2> QED
      BY <2>1, <2>5 DEF NoThreadForgotten
  <1> QED
    BY <1>2, <1>3 DEF NotifyOne

(* What a try does to the units of its channel.                               *)
LEMMA TryUnits ==
    ASSUME TypeOK, NEW k \in Users, NEW place, Try(k, place)
    PROVE  LET c == Channel[k]
           IN  /\ c \in Channels
               /\ \A d \in Channels \ {c} : Units(d)' = Units(d)
               /\ \/ Units(c) > 0 /\ Units(c)' = Units(c) - 1 /\ Move(k, "idle")
                  \/ Units(c) = 0 /\ Units(c)' = 0 /\ Move(k, place)
  <1> DEFINE c == Channel[k]
  <1>1. c \in Channels
    BY DEF SharedBusAssumption
  <1>2. queue[c] \in Seq(Nat) /\ Len(queue[c]) \in Nat /\ Units(c) \in Nat
    BY <1>1, UnitsTyped DEF TypeOK
  <1>3. CASE ~ Available(c)
    <2>1. Units(c) = 0 /\ queue' = queue /\ Move(k, place)
      BY <1>1, <1>3, UnitsTyped DEF Try
    <2> QED
      BY <1>1, <2>1 DEF Units
  <1>4. CASE Available(c)
    <2>1. Units(c) > 0 /\ Move(k, "idle") /\ Obtain(k)
      BY SMTT(30), <1>1, <1>2, <1>4, UnitsTyped DEF Try
    <2>2. CASE c = Tx
      <3>1. queue' = [queue EXCEPT ![c] = Append(@, 0)]
        BY <2>1, <2>2 DEF Obtain
      <3>2. Len(queue'[c]) = Len(queue[c]) + 1 /\ \A d \in Channels \ {c} : queue'[d] = queue[d]
        BY SMTT(30), <1>1, <1>2, <3>1 DEF TypeOK
      <3> QED
        BY <1>1, <1>2, <2>1, <2>2, <3>2 DEF Units, SharedBusAssumption
    <2>3. CASE c # Tx
      <3>1. queue' = [queue EXCEPT ![c] = Tail(@)] /\ queue[c] # <<>>
        BY <1>4, <2>1, <2>3 DEF Obtain, Available
      <3>2. Len(queue'[c]) = Len(queue[c]) - 1 /\ \A d \in Channels \ {c} : queue'[d] = queue[d]
        BY <1>1, <1>2, <3>1 DEF TypeOK
      <3> QED
        BY SMTT(30), <1>1, <1>2, <2>1, <2>3, <3>2 DEF Units
    <2> QED
      BY <2>2, <2>3
  <1> QED
    BY <1>3, <1>4

(* No step forgets a sleeping thread.                                         *)
LEMMA ThreadStep ==
    ASSUME TypeOK, NoThreadForgotten, [Next]_vars
    PROVE  NoThreadForgotten'
  <1> USE DEF Users, SharedBusAssumption, settings, frames, users, fanout, places
  <1>1. ASSUME NEW k \in Threads, ThreadTry(k)
        PROVE  NoThreadForgotten'
    <2> DEFINE c == Channel[k]
    <2>1. /\ c \in Channels
          /\ \A d \in Channels \ {c} : Units(d)' = Units(d)
          /\ \/ Units(c) > 0 /\ Units(c)' = Units(c) - 1 /\ Move(k, "idle")
             \/ Units(c) = 0 /\ Units(c)' = 0 /\ Move(k, "asleep")
      BY <1>1, TryUnits DEF ThreadTry
    <2>2. \A d \in Channels \ {c} : Sleepers(d)' = Sleepers(d) /\ Awake(d)' = Awake(d)
      BY <2>1 DEF Move, Sleepers, Awake, TypeOK
    <2>3. /\ Units(c) \in Nat /\ IsFiniteSet(Awake(c)) /\ Cardinality(Awake(c)) \in Nat
          /\ Cardinality(Awake(c)') \in Nat
      <3>1. Awake(c)' \subseteq Threads
        BY DEF Awake
      <3> QED
        BY <2>1, <3>1, UnitsTyped, AwakeFinite, FS_Subset, FS_CardinalityType
    <2>4. Sleepers(c)' # {} => Units(c)' <= Cardinality(Awake(c)')
      <3>1. CASE Units(c)' = 0
        BY <2>3, <3>1
      <3>2. CASE Units(c)' = Units(c) - 1 /\ Move(k, "idle")
        <4>1. Awake(c)' = Awake(c) \ {k} /\ Sleepers(c)' \subseteq Sleepers(c)
          BY <3>2 DEF Move, Sleepers, Awake, TypeOK
        <4>2. Cardinality(Awake(c)') >= Cardinality(Awake(c)) - 1
          <5>1. CASE k \in Awake(c)
            <6>1. Cardinality(Awake(c) \ {k}) = Cardinality(Awake(c)) - 1
              BY Zenon, <2>3, <5>1, FS_RemoveElement
            <6>2. Cardinality(Awake(c)') = Cardinality(Awake(c)) - 1
              BY <4>1, <6>1
            <6> QED
              BY <2>3, <6>2
          <5>2. CASE k \notin Awake(c)
            <6>1. Awake(c)' = Awake(c)
              BY <4>1, <5>2
            <6> QED
              BY <2>3, <6>1
          <5> QED
            BY <5>1, <5>2
        <4>3. Sleepers(c) # {} => Units(c) <= Cardinality(Awake(c))
          BY <2>1 DEF NoThreadForgotten
        <4> QED
          BY <2>3, <3>2, <4>1, <4>2, <4>3
      <3> QED
        BY <2>1, <3>1, <3>2
    <2> QED
      BY <2>1, <2>2, <2>4 DEF NoThreadForgotten
  <1>2. ASSUME NEW k \in Threads, ThreadGivesUp(k)
        PROVE  NoThreadForgotten'
    <2> DEFINE c == Channel[k]
    <2>1. c \in Channels /\ UNCHANGED queue /\ Move(k, "idle") /\ ~ Available(c)
      BY <1>2 DEF ThreadGivesUp
    <2>2. Units(c)' = 0 /\ \A d \in Channels : Units(d)' = Units(d)
      BY <2>1, UnitsTyped DEF Units
    <2>3. \A d \in Channels \ {c} : Sleepers(d)' = Sleepers(d) /\ Awake(d)' = Awake(d)
      BY <2>1 DEF Move, Sleepers, Awake, TypeOK
    <2>4. Cardinality(Awake(c)') \in Nat
      <3>1. Awake(c)' \subseteq Threads
        BY DEF Awake
      <3> QED
        BY <3>1, FS_Subset, FS_CardinalityType
    <2> QED
      BY <2>2, <2>3, <2>4 DEF NoThreadForgotten
  <1>3. ASSUME NEW k \in Tasks, TaskPoll(k) \/ TaskRecheck(k)
        PROVE  NoThreadForgotten'
    <2>1. PICK place : Try(k, place)
      BY <1>3 DEF TaskPoll, TaskRecheck, SecondTry
    <2>2. \A d \in Channels : Units(d) \in Nat /\ Units(d)' \in Nat /\ Units(d)' <= Units(d)
      BY <2>1, TryUnits, UnitsTyped
    <2>3. \A d \in Channels : Sleepers(d)' = Sleepers(d) /\ Awake(d)' = Awake(d)
      BY <2>1 DEF Try, Move, Sleepers, Awake, TypeOK
    <2>4. \A d \in Channels : Cardinality(Awake(d)) \in Nat
      BY AwakeFinite
    <2> QED
      BY SMTT(30), <2>2, <2>3, <2>4 DEF NoThreadForgotten
  <1>4. ASSUME NEW k \in Tasks, Register(k) \/ TaskCancel(k)
        PROVE  NoThreadForgotten'
    <2>1. \A d \in Channels : /\ Units(d)' = Units(d)
                              /\ Sleepers(d)' = Sleepers(d) /\ Awake(d)' = Awake(d)
      BY Zenon, <1>4 DEF Register, TaskCancel, Move, Units, Sleepers, Awake, TypeOK
    <2> QED
      BY <2>1 DEF NoThreadForgotten
  <1>5. CASE UNCHANGED <<queue, use>>
    BY <1>5 DEF NoThreadForgotten, Units, Sleepers, Awake
  <1>6. ASSUME NEW p \in Publishers, NEW s \in Subs, Push(p, s)
        PROVE  NoThreadForgotten'
    <2>1. CASE s \in live /\ (~ Full(s) \/ DropsOldest(s))
      <3> DEFINE q == IF Full(s) THEN Tail(queue[s]) ELSE queue[s]
      <3>1. /\ NotifyOne(s) /\ s \in Channels /\ s # Tx
            /\ queue' = [queue EXCEPT ![s] = Append(q, frame[p])]
        BY <1>6, <2>1 DEF Push, Notified, Channels
      <3>2. /\ queue[s] \in Seq(Nat) /\ frame[p] \in Nat
            /\ Full(s) => queue[s] # <<>>
        BY <3>1 DEF TypeOK, Full, Capacity
      <3>3. /\ q \in Seq(Nat) /\ Len(queue[s]) \in Nat /\ Len(q) \in Nat
            /\ Len(q) <= Len(queue[s]) /\ Len(Append(q, frame[p])) = Len(q) + 1
        BY <3>2
      <3>4. /\ Units(s)' = Len(q) + 1 /\ Units(s) = Len(queue[s])
            /\ \A d \in Channels \ {s} : Units(d)' = Units(d)
        BY <3>1, <3>3 DEF Units, TypeOK
      <3> QED
        BY <3>1, <3>3, <3>4, NotifyServes
    <2>2. CASE ~ (s \in live /\ (~ Full(s) \/ DropsOldest(s)))
      BY <1>5, <1>6, <2>2 DEF Push
    <2> QED
      BY <2>1, <2>2
  <1>7. ASSUME NEW s \in Subs, Unsubscribe(s)
        PROVE  NoThreadForgotten'
    <2>1. /\ UNCHANGED use /\ s \in Channels /\ s # Tx
          /\ \A d \in Channels : queue'[d] = IF d = s THEN <<>> ELSE queue[d]
      BY <1>7 DEF Unsubscribe, TypeOK, Channels
    <2>2. Units(s)' = 0 /\ \A d \in Channels \ {s} : Units(d)' = Units(d)
      BY <2>1 DEF Units
    <2>3. \A d \in Channels : /\ Sleepers(d)' = Sleepers(d) /\ Awake(d)' = Awake(d)
                              /\ Cardinality(Awake(d)) \in Nat
      BY Zenon, <2>1, AwakeFinite DEF Sleepers, Awake
    <2> QED
      BY <2>2, <2>3 DEF NoThreadForgotten
  <1>8. ASSUME PumpPops
        PROVE  NoThreadForgotten'
    <2>1. /\ NotifyOne(Tx) /\ Tx \in Channels /\ queue[Tx] \in Seq(Nat) /\ queue[Tx] # <<>>
          /\ queue' = [queue EXCEPT ![Tx] = Tail(@)]
      BY <1>8 DEF PumpPops, Channels, TypeOK
    <2>2. /\ Len(Tail(queue[Tx])) = Len(queue[Tx]) - 1 /\ Len(queue[Tx]) \in Nat
          /\ queue'[Tx] = Tail(queue[Tx]) /\ \A d \in Channels \ {Tx} : queue'[d] = queue[d]
      BY <2>1 DEF TypeOK
    <2>3. Len(queue[Tx]) <= TxCapacity
      BY <2>1 DEF TypeOK, Capacity
    <2>4. /\ Units(Tx)' = TxCapacity - (Len(queue[Tx]) - 1) /\ Units(Tx) = TxCapacity - Len(queue[Tx])
          /\ \A d \in Channels \ {Tx} : Units(d)' = Units(d)
      <3>1. Len(queue'[Tx]) = Len(queue[Tx]) - 1
        BY <2>2
      <3>2. /\ Units(Tx)' = TxCapacity - (Len(queue[Tx]) - 1)
            /\ Units(Tx) = TxCapacity - Len(queue[Tx])
        BY <3>1, Zenon DEF Units
      <3>3. \A d \in Channels \ {Tx} : Units(d)' = Units(d)
        BY <2>2 DEF Units
      <3> QED
        BY <3>2, <3>3
    <2>5. Units(Tx)' \in Nat /\ Units(Tx)' <= Units(Tx) + 1
      <3> DEFINE n == Len(queue[Tx])
      <3>1. n \in Nat /\ TxCapacity \in Nat /\ n <= TxCapacity /\ n # 0
        BY <2>1, <2>2, <2>3
      <3> HIDE DEF n
      <3>2. TxCapacity - (n - 1) \in Nat /\ TxCapacity - (n - 1) <= TxCapacity - n + 1
        BY <3>1
      <3> QED
        BY <2>4, <3>2 DEF n
    <2> QED
      BY Zenon, <2>1, <2>4, <2>5, NotifyServes
  <1> QED
    BY ZenonT(40), <1>1, <1>2, <1>3, <1>4, <1>5, <1>6, <1>7, <1>8, StepCases
    DEF Publish, TakeWakers, Unlock, Wake, Subscribe, TakeOverflowCount, PumpMoves, vars

(* NoTaskForgotten in these terms.                                            *)
LEMMA ForgottenTask ==
    NoTaskForgotten <=>
      \A k \in Tasks : use[k] = "pending" /\ Available(Channel[k]) =>
        Woken(k) \/ (Coming(k) /\ Listed(k))
  BY SMTT(30) DEF NoTaskForgotten, Woken, Coming, Listed

(* A step that takes no task's waker away and makes nothing available keeps   *)
(* the tasks reachable and woken.                                             *)
LEMMA TaskQuiet ==
    ASSUME Reachable, NoTaskForgotten, NEW k \in Tasks,
           Woken(k) => Woken(k)', Listed(k) => Listed(k)', Coming(k) => Coming(k)',
           use'[k] \in {"registered", "pending"} =>
             use[k] \in {"registered", "pending"} \/ Listed(k)',
           use'[k] = "pending" /\ Available(Channel[k])' =>
             use[k] = "pending" /\ Available(Channel[k])
    PROVE  /\ use'[k] \in {"registered", "pending"} => Woken(k)' \/ Listed(k)'
           /\ use'[k] = "pending" /\ Available(Channel[k])' =>
                Woken(k)' \/ (Coming(k)' /\ Listed(k)')
  <1>1. use[k] \in {"registered", "pending"} => Woken(k) \/ Listed(k)
    BY DEF Reachable
  <1>2. use[k] = "pending" /\ Available(Channel[k]) => Woken(k) \/ (Coming(k) /\ Listed(k))
    BY ForgottenTask
  <1>3. use'[k] \in {"registered", "pending"} => Woken(k)' \/ Listed(k)'
    BY <1>1, Zenon
  <1>4. use'[k] = "pending" /\ Available(Channel[k])' => Woken(k)' \/ (Coming(k)' /\ Listed(k)')
    BY <1>2, Zenon
  <1> QED
    BY <1>3, <1>4, Zenon

(* What a channel has to give is a number, zero when its users must wait.     *)
UnitsCount ==
    \A d \in Channels : Units(d) \in Nat /\ (Units(d) = 0 <=> ~ Available(d))

(* The same, of all channels.                                                 *)
LEMMA UnitsNow == TypeOK => UnitsCount
  BY UnitsTyped DEF UnitsCount

(* The same, in the next state.                                               *)
LEMMA UnitsNext == TypeOK' => UnitsCount'
  BY UnitsNow, PTL

(* What a try leaves available was available.                                 *)
LEMMA TryAvailable ==
    ASSUME TypeOK, TypeOK', NEW k \in Users, NEW place, Try(k, place)
    PROVE  /\ \A d \in Channels : Available(d)' => Available(d)
           /\ \/ Move(k, "idle")
              \/ Move(k, place) /\ ~ Available(Channel[k])'
  <1>1. UnitsCount /\ UnitsCount'
    BY SMTT(30), UnitsNow, UnitsNext
  <1> QED
    BY <1>1, TryUnits DEF UnitsCount

(* No step forgets a pending task.                                            *)
LEMMA TaskStep ==
    ASSUME TypeOK, TypeOK', Structure, Reachable, NoTaskForgotten, [Next]_vars
    PROVE  Reachable' /\ NoTaskForgotten'
  <1> USE DEF Users, SharedBusAssumption, settings, frames, users, fanout, places
  <1> DEFINE Kept(j) == /\ use'[j] \in {"registered", "pending"} => Woken(j)' \/ Listed(j)'
                        /\ use'[j] = "pending" /\ Available(Channel[j])' =>
                             Woken(j)' \/ (Coming(j)' /\ Listed(j)')
  <1>1. SUFFICES ASSUME NEW j \in Tasks
                 PROVE  Kept(j)
    BY Zenon DEF Reachable, NoTaskForgotten, Woken, Coming, Listed
  <1>a. Channel[j] \in Channels /\ j \in Users /\ j \notin Threads
    BY SMTT(30)
  <1> HIDE DEF Kept
  <1>b. ASSUME Woken(j) => Woken(j)', Listed(j) => Listed(j)', Coming(j) => Coming(j)',
               use'[j] \in {"registered", "pending"} =>
                 use[j] \in {"registered", "pending"} \/ Listed(j)',
               use'[j] = "pending" /\ Available(Channel[j])' =>
                 use[j] = "pending" /\ Available(Channel[j])
        PROVE  Kept(j)
    BY ZenonT(40), <1>b, TaskQuiet DEF Kept
  <1>c. CASE UNCHANGED <<queue, use, wakers, scheduled, at, on, wake>>
    <2>1. /\ Available(Channel[j])' = Available(Channel[j]) /\ Woken(j)' = Woken(j)
          /\ Listed(j)' = Listed(j) /\ Coming(j)' = Coming(j) /\ use'[j] = use[j]
      BY SMTT(30), <1>c DEF Available, Full, Capacity, Woken, Listed, Coming
    <2> QED
      BY ZenonT(40), <1>b, <2>1
  <1>2. ASSUME NEW k \in Threads, ThreadTry(k) \/ ThreadGivesUp(k)
        PROVE  Kept(j)
    <2>1. UNCHANGED <<wakers, scheduled, at, on, wake>>
      BY SMTT(30), <1>2 DEF ThreadTry, ThreadGivesUp
    <2>2. Woken(j)' = Woken(j) /\ Listed(j)' = Listed(j) /\ Coming(j)' = Coming(j)
      BY ZenonT(40), <2>1 DEF Woken, Listed, Coming
    <2>3. use'[j] = use[j]
      BY <1>2 DEF ThreadTry, ThreadGivesUp, Try, Move, TypeOK
    <2>4. Available(Channel[j])' => Available(Channel[j])
      <3>1. CASE ThreadTry(k)
        BY SMTT(30), <1>a, <3>1, TryAvailable DEF ThreadTry
      <3>2. CASE ThreadGivesUp(k)
        BY <3>2 DEF ThreadGivesUp, Available, Full, Capacity
      <3> QED
        BY <1>2, <3>1, <3>2
    <2> QED
      BY ZenonT(40), <1>b, <2>2, <2>3, <2>4
  <1>3. ASSUME NEW k \in Tasks, TaskPoll(k)
        PROVE  Kept(j)
    <2>1. /\ Try(k, "checked") /\ scheduled' = scheduled \ {k}
          /\ UNCHANGED <<wakers, at, on, wake>>
      BY <1>3 DEF TaskPoll
    <2>2. /\ \A d \in Channels : Available(d)' => Available(d)
          /\ Move(k, "idle") \/ Move(k, "checked")
      BY <2>1, TryAvailable
    <2>3. CASE k = j
      <3>1. use'[j] \in {"idle", "checked"}
        BY SMTT(30), <2>2, <2>3 DEF Move, TypeOK
      <3> QED
        BY <3>1 DEF Kept
    <2>4. CASE k # j
      <3>1. use'[j] = use[j]
        BY <1>a, <2>2, <2>4 DEF Move, TypeOK
      <3>2. (Woken(j) => Woken(j)') /\ Listed(j)' = Listed(j) /\ Coming(j)' = Coming(j)
        BY SMTT(30), <2>1, <2>4 DEF Woken, Listed, Coming
      <3> QED
        BY ZenonT(40), <1>a, <1>b, <2>2, <3>1, <3>2
    <2> QED
      BY SMTT(30), <2>3, <2>4
  <1>4. ASSUME NEW k \in Tasks, Register(k)
        PROVE  Kept(j)
    <2>1. /\ wakers' = [wakers EXCEPT ![Channel[k]] = @ \cup {k}]
          /\ Move(k, "registered") /\ UNCHANGED <<queue, scheduled, at, on, wake>>
      BY <1>4 DEF Register
    <2>2. /\ Woken(j)' = Woken(j) /\ Coming(j)' = Coming(j)
          /\ Available(Channel[j])' = Available(Channel[j])
      BY <2>1 DEF Woken, Coming, Available, Full, Capacity
    <2>3. (Listed(j) => Listed(j)') /\ (j = k => Listed(j)')
      BY SMTT(30), <1>a, <2>1 DEF Listed, TypeOK
    <2>4. use'[j] = IF j = k THEN "registered" ELSE use[j]
      BY ZenonT(40), <1>a, <2>1 DEF Move, TypeOK
    <2> QED
      BY ZenonT(40), <1>b, <2>2, <2>3, <2>4
  <1>5. ASSUME NEW k \in Tasks, TaskRecheck(k)
        PROVE  Kept(j)
    <2>1. /\ Try(k, "pending") /\ use[k] = "registered"
          /\ UNCHANGED <<scheduled, wakers, at, on, wake>>
      BY <1>5 DEF TaskRecheck, SecondTry
    <2>2. /\ \A d \in Channels : Available(d)' => Available(d)
          /\ Move(k, "idle") \/ (Move(k, "pending") /\ ~ Available(Channel[k])')
      BY <2>1, TryAvailable
    <2>3. Woken(j)' = Woken(j) /\ Listed(j)' = Listed(j) /\ Coming(j)' = Coming(j)
      BY SMTT(30), <2>1 DEF Woken, Listed, Coming
    <2>4. CASE k = j
      <3>1. use'[j] = "idle" \/ (use'[j] = "pending" /\ ~ Available(Channel[j])')
        BY SMTT(30), <2>2, <2>4 DEF Move, TypeOK
      <3> QED
        BY ZenonT(40), <1>b, <2>1, <2>3, <2>4, <3>1
    <2>5. CASE k # j
      <3>1. use'[j] = use[j]
        BY SMTT(30), <1>a, <2>2, <2>5 DEF Move, TypeOK
      <3> QED
        BY ZenonT(40), <1>a, <1>b, <2>2, <2>3, <3>1
    <2> QED
      BY <2>4, <2>5
  <1>6. ASSUME NEW k \in Tasks, TaskCancel(k)
        PROVE  Kept(j)
    <2>1. Move(k, "idle") /\ UNCHANGED <<queue, wakers, scheduled, at, on, wake>>
      BY SMTT(30), <1>6 DEF TaskCancel
    <2>2. /\ Woken(j)' = Woken(j) /\ Listed(j)' = Listed(j) /\ Coming(j)' = Coming(j)
          /\ Available(Channel[j])' = Available(Channel[j])
      BY ZenonT(40), <2>1 DEF Woken, Listed, Coming, Available, Full, Capacity
    <2>3. use'[j] \in {"idle", use[j]}
      BY ZenonT(40), <1>a, <2>1 DEF Move, TypeOK
    <2> QED
      BY ZenonT(40), <1>b, <2>2, <2>3
  <1>7. ASSUME NEW p \in Publishers, Publish(p) \/ Unlock(p)
        PROVE  Kept(j)
    <2>1. /\ at[p] # "take" /\ UNCHANGED <<queue, use, wakers, scheduled, on, wake>>
          /\ \E place \in {"fanout", "wake"} : at' = [at EXCEPT ![p] = place]
      BY <1>7 DEF Publish, Unlock
    <2>2. /\ Woken(j)' = Woken(j) /\ Listed(j)' = Listed(j) /\ use'[j] = use[j]
          /\ Available(Channel[j])' = Available(Channel[j])
      BY <2>1 DEF Woken, Listed, Available, Full, Capacity
    <2>3. Coming(j) => Coming(j)'
      BY SMTT(30), <2>1 DEF Coming, TypeOK
    <2> QED
      BY Zenon, <1>b, <2>2, <2>3
  <1>8. ASSUME NEW p \in Publishers, TakeWakers(p)
        PROVE  Kept(j)
    <2>1. /\ wake' = [wake EXCEPT ![p] = @ \cup wakers[on[p]]]
          /\ wakers' = [wakers EXCEPT ![on[p]] = {}] /\ at[p] = "take"
          /\ at' = [at EXCEPT ![p] = IF on[p] = Tx THEN "wake" ELSE "fanout"]
          /\ UNCHANGED <<queue, use, scheduled, on>>
      BY SMTT(30), <1>8 DEF TakeWakers
    <2>2. use'[j] = use[j] /\ Available(Channel[j])' = Available(Channel[j])
      BY <2>1 DEF Available, Full, Capacity
    <2>3. Woken(j) => Woken(j)'
      BY <2>1 DEF Woken, TypeOK
    <2>4. Listed(j) => Woken(j)' \/ (Listed(j)' /\ on[p] # Channel[j])
      BY <1>a, <2>1 DEF Woken, Listed, TypeOK
    <2>5. Coming(j) /\ on[p] # Channel[j] => Coming(j)'
      BY <2>1 DEF Coming, TypeOK
    <2>6. use[j] \in {"registered", "pending"} => Woken(j) \/ Listed(j)
      BY DEF Reachable
    <2>7. use[j] = "pending" /\ Available(Channel[j]) => Woken(j) \/ (Coming(j) /\ Listed(j))
      BY SMTT(30), ForgottenTask
    <2> QED
      BY ZenonT(40), <2>2, <2>3, <2>4, <2>5, <2>6, <2>7 DEF Kept
  <1>9. ASSUME NEW p \in Publishers, Wake(p)
        PROVE  Kept(j)
    <2>1. at[p] = "wake" /\ UNCHANGED <<queue, use, wakers>>
      BY <1>9 DEF Wake
    <2>2. /\ Listed(j)' = Listed(j) /\ use'[j] = use[j]
          /\ Available(Channel[j])' = Available(Channel[j])
      BY <2>1 DEF Listed, Available, Full, Capacity
    <2>3. Woken(j) => Woken(j)'
      <3>1. CASE UNCHANGED <<scheduled, wake>>
        BY <3>1 DEF Woken
      <3>2. ASSUME NEW k \in wake[p], scheduled' = scheduled \cup {k},
                   wake' = [wake EXCEPT ![p] = @ \ {k}]
            PROVE  Woken(j) => Woken(j)'
        BY <3>2 DEF Woken, TypeOK
      <3> QED
        BY <1>9, <3>1, <3>2 DEF Wake
    <2>4. Coming(j) => Coming(j)'
      <3>1. \A r \in Publishers : at[r] = "take" => at'[r] = "take" /\ on'[r] = on[r]
        <4>1. CASE UNCHANGED <<at, on>>
          BY <4>1
        <4>2. CASE at' = [at EXCEPT ![p] = "idle"] /\ on' = [on EXCEPT ![p] = Tx]
          BY SMTT(30), <2>1, <4>2 DEF TypeOK
        <4> QED
          BY <1>9, <4>1, <4>2 DEF Wake
      <3> QED
        BY <3>1 DEF Coming
    <2> QED
      BY Zenon, <1>b, <2>2, <2>3, <2>4
  <1> DEFINE Announces(p, c) ==
        /\ at[p] # "take" /\ at' = [at EXCEPT ![p] = "take"] /\ on' = [on EXCEPT ![p] = c]
        /\ NotifyOne(c) /\ UNCHANGED <<wakers, scheduled, wake>>
        /\ Channel[j] # c /\ Available(Channel[j])' => Available(Channel[j])
  <1>d. ASSUME NEW p \in Publishers, NEW c \in Channels, Announces(p, c)
        PROVE  Kept(j)
    <2>1. use'[j] = use[j]
      BY SMTT(30), <1>a, <1>d DEF NotifyOne, Sleepers, Move, TypeOK
    <2>2. Woken(j)' = Woken(j) /\ Listed(j)' = Listed(j)
      BY <1>d DEF Woken, Listed
    <2>3. (Coming(j) => Coming(j)') /\ (Channel[j] = c => Coming(j)')
      BY <1>d DEF Coming, TypeOK
    <2>4. use[j] \in {"registered", "pending"} => Woken(j) \/ Listed(j)
      BY DEF Reachable
    <2>5. use[j] = "pending" /\ Available(Channel[j]) => Woken(j) \/ (Coming(j) /\ Listed(j))
      BY ForgottenTask
    <2> QED
      BY ZenonT(40), <1>d, <2>1, <2>2, <2>3, <2>4, <2>5 DEF Kept
  <1>10. ASSUME NEW p \in Publishers, NEW s \in Subs, Push(p, s)
         PROVE  Kept(j)
    <2>1. at[p] = "fanout" /\ UNCHANGED <<wakers, scheduled, wake>> /\ s \in Channels
      BY <1>10 DEF Push, Channels
    <2>2. CASE s \in live /\ (~ Full(s) \/ DropsOldest(s))
      <3> DEFINE q == Append(IF Full(s) THEN Tail(queue[s]) ELSE queue[s], frame[p])
      <3>1. /\ at' = [at EXCEPT ![p] = "take"] /\ on' = [on EXCEPT ![p] = s]
            /\ queue' = [queue EXCEPT ![s] = q] /\ NotifyOne(s)
        BY SMTT(30), <1>10, <2>2 DEF Push, Notified
      <3> HIDE DEF q
      <3>2. Channel[j] # s /\ Available(Channel[j])' => Available(Channel[j])
        <4>1. queue'[Tx] = queue[Tx] /\ (Channel[j] # s => queue'[Channel[j]] = queue[Channel[j]])
          BY <1>a, <3>1 DEF TypeOK, Channels
        <4> QED
          BY ZenonT(40), <4>1 DEF Available, Full, Capacity
      <3> QED
        <4>1. Announces(p, s)
          BY <2>1, <3>1, <3>2
        <4> HIDE DEF Announces
        <4> QED
          BY <1>d, <2>1, <4>1
    <2>3. CASE ~ (s \in live /\ (~ Full(s) \/ DropsOldest(s)))
      BY <1>10, <1>c, <2>1, <2>3 DEF Push
    <2> QED
      BY <2>2, <2>3
  <1>11. ASSUME NEW s \in Subs, Subscribe(s)
         PROVE  Kept(j)
    <2>1. /\ s \notin live /\ wakers' = [wakers EXCEPT ![s] = {}] /\ s # Tx
          /\ UNCHANGED <<queue, use, scheduled, at, on, wake>>
      BY SMTT(30), <1>11 DEF Subscribe
    <2>2. CASE Channel[j] = s
      BY ZenonT(40), <1>a, <2>1, <2>2 DEF Kept, Structure
    <2>3. CASE Channel[j] # s
      <3>1. /\ Available(Channel[j])' = Available(Channel[j]) /\ Woken(j)' = Woken(j)
            /\ Coming(j)' = Coming(j) /\ use'[j] = use[j]
        BY <2>1 DEF Available, Full, Capacity, Woken, Coming
      <3>2. Listed(j)' = Listed(j)
        BY SMTT(30), <2>1, <2>3, <1>a DEF Listed, TypeOK
      <3> QED
        BY ZenonT(40), <1>b, <3>1, <3>2
    <2> QED
      BY <2>2, <2>3
  <1>12. ASSUME NEW s \in Subs, Unsubscribe(s)
         PROVE  Kept(j)
    <2>1. /\ queue' = [queue EXCEPT ![s] = <<>>] /\ s # Tx
          /\ UNCHANGED <<use, wakers, scheduled, at, on, wake>>
      BY SMTT(30), <1>12 DEF Unsubscribe
    <2>2. /\ Woken(j)' = Woken(j) /\ Listed(j)' = Listed(j) /\ Coming(j)' = Coming(j)
          /\ use'[j] = use[j]
      BY Zenon, <2>1 DEF Woken, Listed, Coming
    <2>3. Available(Channel[j])' => Available(Channel[j])
      <3>1. /\ queue'[Tx] = queue[Tx] /\ queue'[s] = <<>>
            /\ Channel[j] # s => queue'[Channel[j]] = queue[Channel[j]]
        BY <1>a, <2>1 DEF TypeOK, Channels
      <3> QED
        BY SMTT(30), <2>1, <3>1 DEF Available, Full, Capacity
    <2> QED
      BY Zenon, <1>b, <2>2, <2>3
  <1>13. ASSUME PumpPops
         PROVE  Kept(j)
    <2>1. /\ at' = [at EXCEPT ![Pump] = "take"] /\ on' = [on EXCEPT ![Pump] = Tx]
          /\ at[Pump] # "take" /\ queue' = [queue EXCEPT ![Tx] = Tail(@)] /\ NotifyOne(Tx)
          /\ UNCHANGED <<wakers, scheduled, wake>> /\ Pump \in Publishers /\ Tx \in Channels
      BY SMTT(30), <1>13 DEF PumpPops, Publishers, Channels
    <2>2. Channel[j] # Tx /\ Available(Channel[j])' => Available(Channel[j])
      BY <1>a, <2>1 DEF Available, TypeOK
    <2>3. Announces(Pump, Tx)
      BY <2>1, <2>2
    <2> HIDE DEF Announces
    <2> QED
      BY <1>d, <2>1, <2>3
  <1> QED
    BY ZenonT(40), <1>c, <1>2, <1>3, <1>4, <1>5, <1>6, <1>7, <1>8, <1>9, <1>10, <1>11, <1>12, <1>13, StepCases
    DEF TakeOverflowCount, PumpMoves, vars

-----------------------------------------------------------------------------
(* The inductive invariant.                                                   *)
BusInv ==
    /\ TypeOK /\ Structure /\ LossesCounted /\ Ordered
    /\ NoThreadForgotten /\ Reachable /\ NoTaskForgotten

(* A bus that was just created.                                               *)
LEMMA BusInit == Init => BusInv
  <1> SUFFICES ASSUME Init
               PROVE  BusInv
    OBVIOUS
  <1> USE DEF SharedBusAssumption, Users
  <1>1. TypeOK
    BY DEF Init, TypeOK, Capacity, Channels, ThreadPlaces, TaskPlaces
  <1>2. Structure
    BY DEF Init, Structure, Holds
  <1>3. LossesCounted
    BY DEF Init, LossesCounted, Channels
  <1>4. Ordered
    BY DEF Init, Ordered, InPublishOrder, Older, Holds, Channels
  <1>5. NoThreadForgotten
    BY DEF Init, NoThreadForgotten, Sleepers
  <1>6. Reachable /\ NoTaskForgotten
    BY DEF Init, Reachable, NoTaskForgotten
  <1> QED
    BY <1>1, <1>2, <1>3, <1>4, <1>5, <1>6 DEF BusInv

(* Every step keeps BusInv.                                                   *)
LEMMA BusStep == BusInv /\ [Next]_vars => BusInv'
  BY TypeStep, StructureStep, OrderStep, ThreadStep, TaskStep DEF BusInv

(* BusInv holds always.                                                       *)
LEMMA BusInvariant == Spec => []BusInv
  BY BusInit, BusStep, PTL DEF Spec

(* The values of the state components keep their types and no queue of the    *)
(* bus outgrows its capacity, for every number of users and publishers.       *)
THEOREM BusTyped == Spec => []TypeOK
  <1>1. BusInv => TypeOK
    BY DEF BusInv
  <1> QED
    BY <1>1, BusInvariant, PTL

(* notify_one once for each frame pushed, and once for each frame popped from *)
(* the transmit queue, never leaves a thread of recv or send asleep beside    *)
(* something nobody was woken for.                                            *)
THEOREM BusForgetsNoThread == Spec => []NoThreadForgotten
  <1>1. BusInv => NoThreadForgotten
    BY DEF BusInv
  <1> QED
    BY <1>1, BusInvariant, PTL

(* Try, register, try again in recv_async and send_async never leaves a task  *)
(* suspended with its waker in nobody's hands.                                *)
THEOREM BusForgetsNoTask == Spec => []NoTaskForgotten
  <1>1. BusInv => NoTaskForgotten
    BY DEF BusInv
  <1> QED
    BY <1>1, BusInvariant, PTL

(* Publishing under the lock of the list gives every subscriber the frames in *)
(* the order of publication, for any number of publishers.                    *)
THEOREM BusKeepsOrder == Spec => []InPublishOrder
  <1>1. BusInv => InPublishOrder
    BY DEF BusInv, Ordered
  <1> QED
    BY <1>1, BusInvariant, PTL

(* Every frame accepted for a subscription is received, queued or counted.    *)
THEOREM BusCountsLosses == Spec => []LossesCounted
  <1>1. BusInv => LossesCounted
    BY DEF BusInv
  <1> QED
    BY <1>1, BusInvariant, PTL
=============================================================================
