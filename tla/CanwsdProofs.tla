---------------------------- MODULE CanwsdProofs ----------------------------
(***************************************************************************)
(* What a client of canwsd is promised about the frames it receives, for   *)
(* every set of identifiers, filter list, kernel limit and buffer size:    *)
(* the filter is exact, and losses are announced with their size and in    *)
(* their place.  The latter also of both directions of attach.             *)
(***************************************************************************)
EXTENDS MCProgress, TLAPS

\* An item with its attributes: X is what canwsd buffers of a frame.
Item(X) == [n : Nat, x : X]
Attributes == [id : CanIds \cup {"error"}, fresh : BOOLEAN]
BufferOf(S) ==
  [items : S, dropped : Nat, closed : BOOLEAN, permit : BOOLEAN,
   at : {"check", "await", "asleep", "woken"}, pushed : Nat, taken : Nat, reported : Nat,
   last : Nat]
Buffer(X) == BufferOf(Seq(Item(X)))

\* The numbers of the buffered items are the last ones that were given out, so
\* what was handed out or lost is what came before them.
Counted(b) ==
  /\ b.pushed = b.taken + b.reported + b.dropped + Len(b.items)
  /\ \A i \in 1..Len(b.items) : b.items[i].n = b.taken + b.reported + b.dropped + i
  /\ b.last <= b.taken + b.reported

\* The kernel lets in every frame the client asked for, and what it lets in
\* beyond that is caught in userspace.
KernelInv ==
  \A id \in CanIds :
    /\ Accepts(filter, id) => id \in kernel
    /\ id \in kernel /\ ~userspace => Accepts(filter, id)

\* A fresh frame in the buffer was let in by the kernel filter in force.
FreshInv ==
  \A i \in 1..Len(buffer.items) :
    LET x == buffer.items[i].x
    IN  x.fresh /\ x.id # "error" => x.id \in kernel

-----------------------------------------------------------------------------
(* The buffer.                                                             *)

\* A buffer whose items, counts and history are those of another.
Same(b, c) ==
  /\ c.items = b.items /\ c.dropped = b.dropped /\ c.pushed = b.pushed
  /\ c.taken = b.taken /\ c.reported = b.reported /\ c.last = b.last

(* A buffer with the same items and counters counts the same.              *)
LEMMA SameCounted == ASSUME NEW b, NEW c, Same(b, c), Counted(b) PROVE Counted(c)
BY DEF Same, Counted

(* A notification changes no item.                                         *)
LEMMA Notified == ASSUME NEW X, NEW b \in Buffer(X) PROVE NotifyOne(b) \in Buffer(X) /\ Same(b, NotifyOne(b))
BY Zenon DEF NotifyOne, Buffer, BufferOf, Same

(* A cancelled wait changes no item.                                       *)
LEMMA Cancelled == ASSUME NEW X, NEW b \in Buffer(X) PROVE CancelNext(b) \in Buffer(X) /\ Same(b, CancelNext(b))
BY Zenon DEF CancelNext, Buffer, BufferOf, Same

(* close() changes no item.                                                *)
LEMMA Closing == ASSUME NEW X, NEW b \in Buffer(X) PROVE CloseBuffer(b) \in Buffer(X) /\ Same(b, CloseBuffer(b))
<1> DEFINE c == [b EXCEPT !.closed = TRUE]
<1>1. c \in Buffer(X) /\ Same(b, c)
  BY Zenon DEF Buffer, BufferOf, Same
<1>2. NotifyOne(c) \in Buffer(X) /\ Same(c, NotifyOne(c))
  BY <1>1, Notified
<1> QED BY <1>1, <1>2 DEF CloseBuffer, Same

(* Waiting and waking change no item.                                      *)
LEMMA Waiting ==
    ASSUME NEW X, NEW b \in Buffer(X)
    PROVE  /\ PollNotified(b) \in Buffer(X) /\ Same(b, PollNotified(b))
           /\ WakeUp(b) \in Buffer(X) /\ Same(b, WakeUp(b))
           /\ EventOf(b) = "none" => AfterEvent(b) \in Buffer(X) /\ Same(b, AfterEvent(b))
<1>1. PollNotified(b) \in Buffer(X) /\ Same(b, PollNotified(b))
  BY Zenon DEF PollNotified, Buffer, BufferOf, Same
<1>2. WakeUp(b) \in Buffer(X) /\ Same(b, WakeUp(b))
  BY DEF WakeUp, Buffer, BufferOf, Same
<1>3. ASSUME EventOf(b) = "none" PROVE AfterEvent(b) \in Buffer(X) /\ Same(b, AfterEvent(b))
  <2>1. AfterEvent(b) = [b EXCEPT !.at = "await"]
    BY <1>3 DEF AfterEvent
  <2> QED BY <2>1 DEF Buffer, BufferOf, Same
<1> QED BY <1>1, <1>2, <1>3

\* A push keeps the numbers consecutive, whether or not the buffer was cleared.
LEMMA Pushing ==
    ASSUME NEW X, NEW b \in Buffer(X), Counted(b), NEW x \in X, NEW cap
    PROVE  LET c == PushItem(b, x, cap)
           IN  /\ c \in Buffer(X) /\ Counted(c)
               /\ \A i \in 1..Len(c.items) : c.items[i].x = x
                                              \/ \E j \in 1..Len(b.items) : c.items[i] = b.items[j]
<1> DEFINE S == Seq(Item(X))
           full == Len(b.items) >= cap
           item == [n |-> b.pushed + 1, x |-> x]
           kept == IF full THEN <<>> ELSE b.items
           lost == IF full THEN b.dropped + Len(b.items) ELSE b.dropped
           q == Append(kept, item)
           c == [b EXCEPT !.items = q, !.dropped = lost, !.pushed = b.pushed + 1]
<1>1. b.items \in Seq(Item(X)) /\ Len(b.items) \in Nat /\ b.pushed \in Nat /\ b.dropped \in Nat
      /\ b.taken \in Nat /\ b.reported \in Nat /\ b.last \in Nat
  BY DEF Buffer, BufferOf
<1>2. item \in Item(X)
  BY <1>1 DEF Item
<1>3. kept \in Seq(Item(X)) /\ lost \in Nat /\ Len(kept) \in Nat
  BY <1>1
<1>4. lost + Len(kept) = b.dropped + Len(b.items)
  BY <1>1
<1>5. \A i \in 1..Len(kept) : kept[i] = b.items[i] /\ i \in 1..Len(b.items) /\ lost = b.dropped
  BY <1>1
<1>6. PushItem(b, x, cap) = NotifyOne(c)
  BY DEF PushItem, Buffer, BufferOf
<1> HIDE DEF item, kept, lost
<1>7. /\ q \in Seq(Item(X)) /\ Len(q) = Len(kept) + 1 /\ q[Len(kept) + 1] = item
      /\ \A i \in 1..Len(kept) : q[i] = kept[i]
  BY <1>2, <1>3
<1> HIDE DEF q
<1>8. /\ c.items = q /\ c.dropped = lost /\ c.pushed = b.pushed + 1
      /\ c.taken = b.taken /\ c.reported = b.reported /\ c.last = b.last /\ c \in Buffer(X)
  <2>1. q \in S /\ b \in BufferOf(S) /\ Buffer(X) = BufferOf(S)
    BY <1>7 DEF Buffer
  <2>2. lost \in Nat /\ b.pushed + 1 \in Nat
    BY <1>1, <1>3
  <2> HIDE DEF S
  <2> QED BY Zenon, <2>1, <2>2 DEF BufferOf
<1> HIDE DEF c, S
<1>9. (b.taken + b.reported + b.dropped + Len(b.items)) + 1
        = b.taken + b.reported + lost + (Len(kept) + 1)
  <2> DEFINE t == b.taken  r == b.reported  d == b.dropped  m == Len(b.items)
  <2>1. t \in Nat /\ r \in Nat /\ d \in Nat /\ m \in Nat /\ lost + Len(kept) = d + m
    BY <1>1, <1>4
  <2> HIDE DEF t, r, d, m
  <2>2. (t + r + d + m) + 1 = t + r + lost + (Len(kept) + 1)
    BY <2>1, <1>3
  <2> QED BY <2>2, Zenon DEF t, r, d, m
<1>10. \A i \in 1..Len(q) : q[i] = item \/ (i \in 1..Len(kept) /\ q[i] = b.items[i])
  BY <1>3, <1>5, <1>7
<1>11. \A i \in 1..Len(q) : q[i].n = b.taken + b.reported + lost + i
  <2> SUFFICES ASSUME NEW i \in 1..Len(q) PROVE q[i].n = b.taken + b.reported + lost + i
    OBVIOUS
  <2>1. CASE i = Len(kept) + 1
    <3>1. q[i].n = b.pushed + 1
      BY <2>1, <1>7 DEF item
    <3>2. b.pushed = b.taken + b.reported + b.dropped + Len(b.items)
      BY DEF Counted
    <3> QED BY <2>1, <3>1, <3>2, <1>9, Zenon
  <2>2. CASE i \in 1..Len(kept)
    BY <2>2, <1>5, <1>7 DEF Counted
  <2> QED BY <2>1, <2>2, <1>3, <1>7
<1>12. Counted(c)
  <2>1. b.pushed = b.taken + b.reported + b.dropped + Len(b.items) /\ b.last <= b.taken + b.reported
    BY DEF Counted
  <2>2. b.pushed + 1 = b.taken + b.reported + lost + Len(q)
    BY <2>1, <1>7, <1>9, Zenon
  <2> QED BY <2>1, <2>2, <1>8, <1>11 DEF Counted
<1>13. \A i \in 1..Len(c.items) : c.items[i].x = x \/ \E j \in 1..Len(b.items) : c.items[i] = b.items[j]
  BY <1>5, <1>8, <1>10 DEF item
<1>14. NotifyOne(c) \in Buffer(X) /\ Same(c, NotifyOne(c))
  BY <1>8, Notified
<1> QED BY <1>6, <1>12, <1>13, <1>14, SameCounted DEF Same

\* next() reports a loss before the items behind it, and takes the first item.
LEMMA Taking ==
    ASSUME NEW X, NEW b \in Buffer(X), Counted(b), EventOf(b) # "none"
    PROVE  LET c == AfterEvent(b)
           IN  /\ c \in Buffer(X) /\ Counted(c)
               /\ \A i \in 1..Len(c.items) : \E j \in 1..Len(b.items) : c.items[i] = b.items[j]
               /\ EventOf(b) = "item" => Len(b.items) >= 1 /\ Head(b.items) = b.items[1]
<1>1. b.items \in Seq(Item(X)) /\ Len(b.items) \in Nat /\ b.pushed \in Nat /\ b.dropped \in Nat
      /\ b.taken \in Nat /\ b.reported \in Nat /\ b.last \in Nat
  BY DEF Buffer, BufferOf
<1> DEFINE S == Seq(Item(X))
           c == AfterEvent(b)
<1>2. CASE EventOf(b) = "overflow"
  <2>1. c = [b EXCEPT !.reported = b.reported + b.dropped, !.dropped = 0]
    BY <1>2 DEF AfterEvent, Buffer, BufferOf
  <2>2. /\ c \in Buffer(X) /\ c.items = b.items /\ c.dropped = 0 /\ c.pushed = b.pushed
        /\ c.taken = b.taken /\ c.reported = b.reported + b.dropped /\ c.last = b.last
    <3>1. b.reported + b.dropped \in Nat
      BY <1>1
    <3>2. b \in BufferOf(S) /\ Buffer(X) = BufferOf(S)
      BY DEF Buffer
    <3> DEFINE r == b.reported + b.dropped
    <3> HIDE DEF S, r
    <3> DEFINE e == [b EXCEPT !.reported = r, !.dropped = 0]
    <3>3. /\ e \in BufferOf(S) /\ e.items = b.items /\ e.dropped = 0 /\ e.pushed = b.pushed
          /\ e.taken = b.taken /\ e.reported = r /\ e.last = b.last
      BY Zenon, <3>1, <3>2 DEF BufferOf, r
    <3> QED BY <2>1, <3>2, <3>3 DEF r
  <2> HIDE DEF c
  <2>3. Counted(c)
    BY <1>1, <2>2 DEF Counted
  <2> QED BY <1>2, <2>2, <2>3 DEF c
<1>3. CASE EventOf(b) = "item"
  <2>1. b.dropped = 0 /\ b.items # <<>>
    BY <1>3, <1>1 DEF EventOf
  <2>2. /\ Len(b.items) >= 1 /\ Head(b.items) = b.items[1] /\ b.items[1] \in Item(X)
        /\ Tail(b.items) \in Seq(Item(X)) /\ Len(Tail(b.items)) = Len(b.items) - 1
        /\ \A i \in 1..Len(Tail(b.items)) : Tail(b.items)[i] = b.items[i + 1]
    BY <1>1, <2>1
  <2>3. c = [b EXCEPT !.items = Tail(b.items), !.taken = b.taken + 1, !.last = Head(b.items).n]
    BY <1>3 DEF AfterEvent, Buffer, BufferOf
  <2>4. Head(b.items).n = b.taken + b.reported + 1
    BY <1>1, <2>1, <2>2 DEF Counted
  <2> DEFINE q == Tail(b.items)
  <2> HIDE DEF q
  <2>5. /\ c \in Buffer(X) /\ c.items = q /\ c.dropped = b.dropped /\ c.pushed = b.pushed
        /\ c.taken = b.taken + 1 /\ c.reported = b.reported /\ c.last = b.taken + b.reported + 1
    <3>1. b.taken + 1 \in Nat /\ b.taken + b.reported + 1 \in Nat
      BY <1>1
    <3>2. b \in BufferOf(S) /\ Buffer(X) = BufferOf(S) /\ q \in S
      BY <2>2 DEF Buffer, q
    <3>3. c = [b EXCEPT !.items = q, !.taken = b.taken + 1, !.last = b.taken + b.reported + 1]
      BY Zenon, <2>3, <2>4 DEF q
    <3> HIDE DEF S, c
    <3> QED BY Zenon, <3>1, <3>2, <3>3 DEF BufferOf
  <2> HIDE DEF c
  <2>6. q \in Seq(Item(X)) /\ Len(q) \in Nat /\ Len(q) = Len(b.items) - 1 /\ \A i \in 1..Len(q) : q[i] = b.items[i + 1]
    BY <2>2 DEF q
  <2>7. \A i \in 1..Len(q) : i + 1 \in 1..Len(b.items)
    BY <1>1, <2>2, <2>6
  <2>8. Counted(c)
    <3>1. \A i \in 1..Len(q) : q[i].n = b.taken + 1 + b.reported + b.dropped + i
      <4> SUFFICES ASSUME NEW i \in 1..Len(q)
                   PROVE  q[i].n = b.taken + 1 + b.reported + b.dropped + i
        OBVIOUS
      <4>1. q[i].n = b.taken + b.reported + b.dropped + (i + 1)
        BY <2>6, <2>7 DEF Counted
      <4>2. i \in Nat
        BY <2>6
      <4>3. b.taken + b.reported + b.dropped + (i + 1) = b.taken + 1 + b.reported + b.dropped + i
        <5> DEFINE t == b.taken  r == b.reported  d == b.dropped  m == Len(b.items)
        <5>1. t \in Nat /\ r \in Nat /\ d \in Nat
          BY <1>1
        <5> HIDE DEF t, r, d, m
        <5>2. t + r + d + (i + 1) = t + 1 + r + d + i
          BY <5>1, <4>2
        <5> QED BY <5>2, Zenon DEF t, r, d
      <4> QED BY <4>1, <4>3, Zenon
    <3>2. b.pushed = b.taken + b.reported + b.dropped + Len(b.items)
      BY DEF Counted
    <3>3. b.pushed = b.taken + 1 + b.reported + b.dropped + Len(q)
      <4>1. b.taken + b.reported + b.dropped + Len(b.items) = b.taken + 1 + b.reported + b.dropped + Len(q)
        <5> DEFINE t == b.taken  r == b.reported  d == b.dropped  m == Len(b.items)
        <5>1. t \in Nat /\ r \in Nat /\ d \in Nat /\ m \in Nat /\ Len(q) = m - 1
          BY <1>1, <2>6
        <5> HIDE DEF t, r, d, m
        <5>2. t + r + d + m = t + 1 + r + d + Len(q)
          BY <5>1
        <5> QED BY <5>2, Zenon DEF t, r, d, m
      <4> QED BY <3>2, <4>1, Zenon
    <3>4. b.taken + b.reported + 1 <= b.taken + 1 + b.reported
      BY <1>1
    <3> QED BY <2>5, <3>1, <3>3, <3>4 DEF Counted
  <2> QED BY <2>2, <2>5, <2>6, <2>7, <2>8 DEF c
<1>4. CASE EventOf(b) = "closed"
  <2>1. c = [b EXCEPT !.closed = FALSE]
    BY <1>4 DEF AfterEvent
  <2>2. c \in Buffer(X) /\ Same(b, c)
    BY Zenon, <2>1 DEF Buffer, BufferOf, Same
  <2> HIDE DEF c
  <2> QED BY <1>4, <2>2, SameCounted DEF Same, c
<1>5. EventOf(b) \in {"overflow", "item", "closed", "none"}
  BY DEF EventOf
<1> QED BY <1>2, <1>3, <1>4, <1>5

(* An item that was buffered under an earlier filter keeps its number.     *)
LEMMA Marked ==
    ASSUME NEW m \in Item(Attributes)
    PROVE  Aged(m) \in Item(Attributes) /\ Aged(m).n = m.n /\ ~Aged(m).x.fresh
<1> DEFINE y == [id |-> m.x.id, fresh |-> FALSE]
           c == [m EXCEPT !.x = y]
<1>1. y \in Attributes /\ ~y.fresh
  BY DEF Item, Attributes
<1> HIDE DEF y
<1>2. c \in Item(Attributes) /\ c.n = m.n /\ c.x = y
  BY <1>1 DEF Item
<1>3. Aged(m) = c
  BY DEF Aged, y
<1> HIDE DEF c
<1> QED BY <1>1, <1>2, <1>3

\* A filter change only marks the items.
LEMMA Marking ==
    ASSUME NEW b \in Buffer(Attributes), Counted(b)
    PROVE  /\ Stale(b) \in Buffer(Attributes) /\ Counted(Stale(b))
           /\ \A i \in 1..Len(Stale(b).items) : ~Stale(b).items[i].x.fresh
<1> DEFINE q == [i \in DOMAIN b.items |-> Aged(b.items[i])]
           c == [b EXCEPT !.items = q]
<1>1. b.items \in Seq(Item(Attributes)) /\ Len(b.items) \in Nat /\ DOMAIN b.items = 1..Len(b.items)
      /\ \A i \in 1..Len(b.items) : b.items[i] \in Item(Attributes)
  BY DEF Buffer, BufferOf
<1>2. \A i \in 1..Len(b.items) : q[i] \in Item(Attributes) /\ q[i].n = b.items[i].n /\ ~q[i].x.fresh
  <2> SUFFICES ASSUME NEW i \in 1..Len(b.items)
               PROVE  q[i] \in Item(Attributes) /\ q[i].n = b.items[i].n /\ ~q[i].x.fresh
    OBVIOUS
  <2>1. q[i] = Aged(b.items[i]) /\ b.items[i] \in Item(Attributes)
    BY <1>1
  <2> QED BY <2>1, Marked
<1>3. q \in [1..Len(b.items) -> Item(Attributes)]
  BY Zenon, <1>1, <1>2
<1>4. q \in Seq(Item(Attributes)) /\ Len(q) = Len(b.items)
  BY <1>1, <1>3
<1>5. Stale(b) = c
  BY DEF Stale
<1> HIDE DEF q
<1>6. /\ c \in Buffer(Attributes) /\ c.items = q /\ c.dropped = b.dropped /\ c.pushed = b.pushed
      /\ c.taken = b.taken /\ c.reported = b.reported /\ c.last = b.last
  BY <1>4 DEF Buffer, BufferOf
<1> HIDE DEF c
<1>7. Counted(c)
  BY <1>2, <1>4, <1>6 DEF Counted
<1> QED BY <1>2, <1>4, <1>5, <1>6, <1>7

-----------------------------------------------------------------------------
(* The filter.                                                             *)

\* Whatever becomes of the calls of apply_filter, kernel and userspace filter
\* together are exact, if the filter that accepts everything can be set.
LEMMA Exact ==
    ASSUME "accept_all" \notin FailingCalls,
           NEW f \in {NoFilter} \cup SUBSET CanIds, NEW old, NEW k, NEW u \in BOOLEAN,
           ApplyFilter(f, old, k, u), NEW id \in CanIds
    PROVE  (Accepts(f, id) => id \in k) /\ (id \in k /\ ~u => Accepts(f, id))
<1> USE NoFilterAssumption
<1>1. PICK all \in Outcomes("accept_all"), none \in Outcomes("drop_all"), pairs \in Outcomes("filters") :
        LET acceptAll == IF all THEN CanIds ELSE old
        IN CASE f = NoFilter -> k = acceptAll /\ u = FALSE
             [] f = {} -> k = (IF none THEN {} ELSE old) /\ u = ~none
             [] OTHER -> IF Cardinality(f) <= KernelLimit /\ pairs
                         THEN k = f /\ u = FALSE
                         ELSE k = acceptAll /\ u = TRUE
  BY DEF ApplyFilter
<1>2. all = TRUE
  BY DEF Outcomes
<1>3. CASE f = NoFilter
  <2>1. k = CanIds /\ u = FALSE
    BY <1>1, <1>2, <1>3
  <2> QED BY <2>1, <1>3 DEF Accepts
<1>4. CASE f = {}
  <2>1. k = (IF none THEN {} ELSE old) /\ u = ~none
    BY <1>1, <1>4
  <2> QED BY Zenon, <2>1, <1>4 DEF Accepts
<1>5. CASE f # NoFilter /\ f # {}
  <2>1. (k = f /\ u = FALSE) \/ (k = CanIds /\ u = TRUE)
    BY <1>1, <1>2, <1>5
  <2> QED BY <2>1, <1>5 DEF Accepts
<1> QED BY <1>3, <1>4, <1>5

-----------------------------------------------------------------------------
(* The connection.                                                         *)

BufferInv == buffer \in Buffer(Attributes) /\ Counted(buffer)
ExactInv == KernelInv /\ FreshInv /\ FilterExact
CanwsdInv ==
  /\ BufferInv
  /\ filter \in {NoFilter} \cup SUBSET CanIds
  /\ userspace \in BOOLEAN
  /\ "accept_all" \notin FailingCalls => ExactInv

\* Steps that leave the items of the buffer, the filters and the verdict alone.
LEMMA QuietStep ==
    ASSUME CanwsdInv, buffer' \in Buffer(Attributes), Same(buffer, buffer'),
           UNCHANGED <<filter, userspace, kernel, verdict>>
    PROVE  CanwsdInv'
<1>1. BufferInv'
  BY SameCounted DEF CanwsdInv, BufferInv
<1>2. KernelInv => KernelInv'
  BY DEF KernelInv
<1>3. FreshInv => FreshInv'
  BY DEF FreshInv, Same
<1>4. FilterExact => FilterExact'
  BY DEF FilterExact
<1> QED BY <1>1, <1>2, <1>3, <1>4 DEF CanwsdInv, ExactInv

(* A frame of the bus is buffered, or the oldest one makes room for it.    *)
LEMMA ArriveStep ==
    ASSUME CanwsdInv, NEW id \in CanIds \cup {"error"}, Arrive(id)
    PROVE  CanwsdInv'
<1> DEFINE let_in == IF id = "error" THEN wantErrors ELSE id \in kernel
           x == [id |-> id, fresh |-> TRUE]
<1>1. UNCHANGED <<filter, userspace, kernel>>
  BY DEF Arrive
<1>2. CASE let_in
  <2>1. buffer' = PushItem(buffer, x, FrameBuffer) /\ verdict' = verdict
    BY <1>2 DEF Arrive
  <2>2. x \in Attributes
    BY DEF Attributes
  <2>3. /\ buffer' \in Buffer(Attributes) /\ Counted(buffer')
        /\ \A i \in 1..Len(buffer'.items) : buffer'.items[i].x = x
             \/ \E j \in 1..Len(buffer.items) : buffer'.items[i] = buffer.items[j]
    <3>1. buffer \in Buffer(Attributes) /\ Counted(buffer)
      BY DEF CanwsdInv, BufferInv
    <3> HIDE DEF x
    <3> QED BY <2>1, <2>2, <3>1, Pushing
  <2>4. id # "error" => id \in kernel
    BY <1>2
  <2>5. FreshInv => FreshInv'
    <3> SUFFICES ASSUME FreshInv, NEW i \in 1..Len(buffer'.items),
                        buffer'.items[i].x.fresh, buffer'.items[i].x.id # "error"
                 PROVE  buffer'.items[i].x.id \in kernel
      BY <1>1 DEF FreshInv
    <3>1. CASE buffer'.items[i].x = x
      BY <3>1, <2>4
    <3>2. CASE \E j \in 1..Len(buffer.items) : buffer'.items[i] = buffer.items[j]
      BY <3>2 DEF FreshInv
    <3> QED BY <2>3, <3>1, <3>2
  <2>6. KernelInv /\ FilterExact => KernelInv' /\ FilterExact'
    BY <1>1, <2>1 DEF KernelInv, FilterExact
  <2> QED BY <1>1, <2>3, <2>5, <2>6 DEF CanwsdInv, ExactInv, BufferInv
<1>3. CASE ~let_in
  <2>1. buffer' = buffer
    BY <1>3 DEF Arrive
  <2>2. ASSUME ExactInv PROVE FilterExact'
    <3>1. CASE id = "error"
      BY <1>3, <2>2, <3>1 DEF Arrive, ExactInv, FilterExact
    <3>2. CASE id # "error"
      <4>1. verdict' = [wanted |-> Accepts(filter, id), forwarded |-> FALSE]
        BY <1>3, <3>2 DEF Arrive
      <4>2. Accepts(filter, id) = FALSE
        BY <1>3, <2>2, <3>2 DEF ExactInv, KernelInv, Accepts
      <4> QED BY Zenon, <4>1, <4>2 DEF FilterExact
    <3> QED BY <3>1, <3>2
  <2>3. ExactInv => KernelInv' /\ FreshInv'
    BY <1>1, <2>1 DEF ExactInv, KernelInv, FreshInv
  <2> QED BY <1>1, <2>1, <2>2, <2>3 DEF CanwsdInv, ExactInv, BufferInv
<1> QED BY <1>2, <1>3

(* The client is handed the next item, or the number of those lost.        *)
LEMMA EventStep ==
    ASSUME CanwsdInv, BufferEvent
    PROVE  CanwsdInv'
<1> DEFINE item == Head(buffer.items).x
<1>1. buffer' = AfterEvent(buffer) /\ UNCHANGED <<filter, userspace, kernel>>
  BY SMTT(30) DEF BufferEvent
<1>2. /\ buffer' \in Buffer(Attributes) /\ Counted(buffer')
      /\ \A i \in 1..Len(buffer'.items) : \E j \in 1..Len(buffer.items) : buffer'.items[i] = buffer.items[j]
      /\ EventOf(buffer) = "item" => Len(buffer.items) >= 1 /\ Head(buffer.items) = buffer.items[1]
  BY SMTT(30), <1>1, Taking DEF BufferEvent, CanwsdInv, BufferInv
<1>3. FreshInv => FreshInv'
  BY SMTT(30), <1>1, <1>2 DEF FreshInv
<1>4. KernelInv => KernelInv'
  BY <1>1 DEF KernelInv
<1>5. ASSUME ExactInv PROVE FilterExact'
  <2>1. CASE EventOf(buffer) = "item" /\ item.fresh /\ item.id # "error"
    <3>1. verdict' = [wanted |-> Accepts(filter, item.id), forwarded |-> Passes(item.id)]
      BY <2>1 DEF BufferEvent
    <3>2. 1 \in 1..Len(buffer.items) /\ item = buffer.items[1].x
      BY <1>2, <2>1 DEF CanwsdInv, BufferInv, Buffer, BufferOf
    <3>3. buffer.items[1] \in Item(Attributes)
      BY <3>2 DEF CanwsdInv, BufferInv, Buffer, BufferOf
    <3>4. item.id \in kernel /\ item.id \in CanIds
      BY SMTT(30), <1>5, <2>1, <3>2, <3>3 DEF ExactInv, FreshInv, Item, Attributes
    <3>5. Accepts(filter, item.id) = Passes(item.id)
      BY <1>5, <2>1, <3>4 DEF ExactInv, KernelInv, Passes, Accepts
    <3> QED BY <3>1, <3>5 DEF FilterExact
  <2>2. CASE ~(EventOf(buffer) = "item" /\ item.fresh /\ item.id # "error")
    <3>1. verdict' = verdict
      BY <2>2 DEF BufferEvent
    <3> QED BY <1>5, <3>1 DEF ExactInv, FilterExact
  <2> QED BY <2>1, <2>2
<1> QED BY SMTT(30), <1>1, <1>2, <1>3, <1>4, <1>5 DEF CanwsdInv, ExactInv, BufferInv

(* A command of the client replaces the filter.                            *)
LEMMA CommandStep ==
    ASSUME CanwsdInv, NEW f \in {NoFilter} \cup SUBSET CanIds, ClientCommand(f)
    PROVE  CanwsdInv'
<1>1. /\ filter' = f /\ userspace' \in BOOLEAN /\ verdict' = verdict
      /\ ApplyFilter(f, kernel, kernel', userspace')
      /\ buffer' = Stale(CancelNext(buffer))
  BY DEF ClientCommand
<1>2. CancelNext(buffer) \in Buffer(Attributes) /\ Counted(CancelNext(buffer))
  BY Cancelled, SameCounted DEF CanwsdInv, BufferInv
<1>3. buffer' \in Buffer(Attributes) /\ Counted(buffer') /\ \A i \in 1..Len(buffer'.items) : ~buffer'.items[i].x.fresh
  BY <1>1, <1>2, Marking
<1>4. ASSUME "accept_all" \notin FailingCalls PROVE KernelInv'
  BY SMTT(30), <1>1, <1>4, Exact DEF KernelInv
<1>5. FreshInv'
  BY <1>3 DEF FreshInv
<1>6. FilterExact => FilterExact'
  BY <1>1 DEF FilterExact
<1> QED BY SMTT(30), <1>1, <1>3, <1>4, <1>5, <1>6 DEF CanwsdInv, ExactInv, BufferInv

(* Every step of a connection keeps CanwsdInv.                             *)
LEMMA CanwsdStep ==
    ASSUME CanwsdInv, [CanwsdNext]_canwsdVars
    PROVE  CanwsdInv'
<1>1. buffer \in Buffer(Attributes) /\ Same(buffer, buffer)
  BY DEF CanwsdInv, BufferInv, Same
<1>2. ASSUME \/ Sent \/ SendFails \/ WriteReturns \/ ClientCloses \/ ClientVanishes
             \/ UNCHANGED canwsdVars
      PROVE  CanwsdInv'
  <2>1. UNCHANGED <<buffer, filter, userspace, kernel, verdict>>
    BY <1>2 DEF Sent, SendFails, WriteReturns, ClientCloses, ClientVanishes, canwsdVars
  <2> QED BY SMTT(30), <1>1, <2>1, QuietStep
<1>3. ASSUME \/ ClientOther \/ PingTick \/ \E m \in ClientMessages : ClientFrame(m)
      PROVE  CanwsdInv'
  <2>1. buffer' = CancelNext(buffer) /\ UNCHANGED <<filter, userspace, kernel, verdict>>
    BY SMTT(30), <1>3 DEF ClientOther, PingTick, ClientFrame
  <2> QED BY <1>1, <2>1, Cancelled, QuietStep
<1>4. ASSUME BusFails PROVE CanwsdInv'
  <2>1. buffer' = CloseBuffer(buffer) /\ UNCHANGED <<filter, userspace, kernel, verdict>>
    BY <1>4 DEF BusFails
  <2> QED BY <1>1, <2>1, Closing, QuietStep
<1>5. ASSUME BufferWait PROVE CanwsdInv'
  <2>1. /\ UNCHANGED <<filter, userspace, kernel, verdict>>
        /\ \/ EventOf(buffer) = "none" /\ buffer' = AfterEvent(buffer)
           \/ buffer' = PollNotified(buffer) \/ buffer' = WakeUp(buffer)
    BY <1>5 DEF BufferWait
  <2>2. buffer' \in Buffer(Attributes) /\ Same(buffer, buffer')
    BY <1>1, <2>1, Waiting
  <2> QED BY <2>1, <2>2, QuietStep
<1>6. ASSUME NEW id \in CanIds \cup {"error"}, Arrive(id) PROVE CanwsdInv'
  BY <1>6, ArriveStep
<1>7. ASSUME BufferEvent PROVE CanwsdInv'
  BY <1>7, EventStep
<1>8. ASSUME NEW f \in {NoFilter} \cup SUBSET CanIds, ClientCommand(f) PROVE CanwsdInv'
  BY <1>8, CommandStep
<1> QED BY SMTT(30), <1>2, <1>3, <1>4, <1>5, <1>6, <1>7, <1>8 DEF CanwsdNext

(* A new connection.                                                       *)
LEMMA CanwsdStart == CanwsdInit => CanwsdInv
<1> SUFFICES ASSUME CanwsdInit PROVE CanwsdInv
  OBVIOUS
<1>1. buffer \in Buffer(Attributes) /\ Counted(buffer) /\ buffer.items = <<>>
  BY DEF CanwsdInit, NewBuffer, Buffer, BufferOf, Counted
<1>2. ASSUME "accept_all" \notin FailingCalls PROVE KernelInv
  <2>1. ApplyFilter(filter, CanIds, kernel, userspace) /\ userspace \in BOOLEAN
        /\ filter \in {NoFilter} \cup SUBSET CanIds
    BY DEF CanwsdInit
  <2> QED BY <1>2, <2>1, Exact DEF KernelInv
<1>3. FreshInv
  BY <1>1 DEF FreshInv
<1>4. FilterExact
  BY DEF CanwsdInit, FilterExact
<1> QED BY <1>1, <1>2, <1>3, <1>4 DEF CanwsdInit, CanwsdInv, BufferInv, ExactInv

\* The filter a client set is exact for every frame that arrived since, if the
\* kernel filter that accepts everything can be set (apply_filter, Item::pass).
THEOREM CanwsdFilterExact == CanwsdSpec => []("accept_all" \notin FailingCalls => FilterExact)
<1>1. CanwsdInv => ("accept_all" \notin FailingCalls => FilterExact)
  BY DEF CanwsdInv, ExactInv
<1> QED BY <1>1, CanwsdStart, CanwsdStep, PTL DEF CanwsdSpec

\* A client is told of a loss, with its size, before the first item behind it,
\* and no frame is lost untold (DropBuffer::push, DropBuffer::next).
THEOREM CanwsdLossInOrder == CanwsdSpec => []LossInOrder(buffer)
<1>1. CanwsdInv => LossInOrder(buffer)
  BY DEF CanwsdInv, BufferInv, Counted, LossInOrder
<1> QED BY <1>1, CanwsdStart, CanwsdStep, PTL DEF CanwsdSpec

-----------------------------------------------------------------------------
(* canwsd attach: one buffer in each direction.                            *)

Whole(b) == b \in Buffer({"frame"}) /\ Counted(b)

\* Every step of either side of a buffer keeps its count.
LEMMA WholeStep ==
    ASSUME NEW b, Whole(b), NEW cap
    PROVE  /\ Whole(PushItem(b, "frame", cap))
           /\ Whole(CloseBuffer(b))
           /\ Whole(AfterEvent(b))
           /\ Whole(PollNotified(b))
           /\ Whole(WakeUp(b))
<1> DEFINE X == {"frame"}
<1>1. b \in Buffer(X) /\ Counted(b) /\ "frame" \in X
  BY DEF Whole
<1> HIDE DEF X
<1>2. PushItem(b, "frame", cap) \in Buffer(X) /\ Counted(PushItem(b, "frame", cap))
  BY <1>1, Pushing
<1>3. CloseBuffer(b) \in Buffer(X) /\ Counted(CloseBuffer(b))
  BY <1>1, Closing, SameCounted
<1>4. PollNotified(b) \in Buffer(X) /\ Counted(PollNotified(b))
      /\ WakeUp(b) \in Buffer(X) /\ Counted(WakeUp(b))
  BY <1>1, Waiting, SameCounted
<1>5. AfterEvent(b) \in Buffer(X) /\ Counted(AfterEvent(b))
  <2>1. CASE EventOf(b) = "none"
    BY SMTT(30), <1>1, <2>1, Waiting, SameCounted
  <2>2. CASE EventOf(b) # "none"
    BY SMTT(30), <1>1, <2>2, Taking
  <2> QED BY <2>1, <2>2
<1> QED BY <1>2, <1>3, <1>4, <1>5 DEF Whole, X

AttachInv == Whole(outbound) /\ Whole(inbound)

(* The two buffers of attach start empty.                                  *)
LEMMA AttachStart == AttachInit => AttachInv
BY DEF AttachInit, AttachInv, Whole, NewBuffer, Buffer, BufferOf, Counted

(* Every step of attach keeps AttachInv.                                   *)
LEMMA AttachStepKeeps == AttachInv /\ [AttachNext]_attachVars => AttachInv'
<1> SUFFICES ASSUME AttachInv, [AttachNext]_attachVars PROVE AttachInv'
  OBVIOUS
<1>1. Whole(outbound) /\ Whole(inbound)
  BY DEF AttachInv
<1>2. ASSUME NEW b, NEW c, Whole(b), WaitStep(b, c) PROVE Whole(c)
  BY <1>2, WholeStep DEF WaitStep
<1>3. CASE LocalFrame
  BY <1>1, <1>3, WholeStep DEF LocalFrame, AttachInv
<1>4. CASE LocalFails
  BY SMTT(30), <1>1, <1>4, WholeStep DEF LocalFails, AttachInv
<1>5. CASE SendRemote
  BY SMTT(30), <1>1, <1>2, <1>5, WholeStep DEF SendRemote, AttachInv
<1>6. CASE RemoteFrame
  BY SMTT(30), <1>1, <1>6, WholeStep DEF RemoteFrame, AttachInv
<1>7. CASE WriteLocal
  BY SMTT(30), <1>1, <1>2, <1>7, WholeStep DEF WriteLocal, AttachInv
<1>8. CASE SendRemoteReturns \/ RemoteCloses \/ WriteLocalReturns \/ UNCHANGED attachVars
  BY <1>1, <1>8 DEF SendRemoteReturns, RemoteCloses, WriteLocalReturns, attachVars, AttachInv
<1> QED BY SMTT(30), <1>3, <1>4, <1>5, <1>6, <1>7, <1>8 DEF AttachNext

\* Both commands of canwsd, for every size of their buffers: whoever reads one
\* of the three DropBuffers sees its items in order, and is told of each loss,
\* with its size, before the first item behind it (DropBuffer::push and next).
THEOREM LossesAnnounced ==
    CanwsdSpec /\ AttachInit /\ [][AttachNext]_attachVars => []LossAnnounced
<1>1. CanwsdInv /\ AttachInv => LossAnnounced
  BY DEF CanwsdInv, BufferInv, AttachInv, Whole, Counted, LossInOrder, LossAnnounced
<1>2. CanwsdInv /\ [CanwsdNext]_canwsdVars => CanwsdInv'
  BY CanwsdStep
<1> QED BY <1>1, <1>2, CanwsdStart, AttachStart, AttachStepKeeps, PTL DEF CanwsdSpec
=============================================================================
