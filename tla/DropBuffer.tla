----------------------------- MODULE DropBuffer -----------------------------
(***************************************************************************)
(* The clear-on-overflow buffer of the canwsd daemon                       *)
(* (tools/canwsd/src/drop_buffer.rs), as operators on one record, because  *)
(* the daemon has three of them: CAN to WebSocket in `expose`, and one in  *)
(* each direction in `attach`.                                             *)
(*                                                                         *)
(*   items, dropped, closed   the fields of State, under the mutex         *)
(*   permit                   the stored permit of the Notify              *)
(*   at                       where the one consumer is in next(): before  *)
(*                            the state check, between the check and the   *)
(*                            await, registered as a waiter, or woken      *)
(*   pushed, taken,           history: items pushed, items handed out,     *)
(*   reported, last           losses reported, number of the item handed   *)
(*                            out last                                     *)
(*                                                                         *)
(* An item carries its number in the order of the pushes.                  *)
(***************************************************************************)
EXTENDS Integers, Sequences

\* DropBuffer::new
NewBuffer ==
  [items |-> <<>>, dropped |-> 0, closed |-> FALSE, permit |-> FALSE,
   at |-> "check", pushed |-> 0, taken |-> 0, reported |-> 0, last |-> 0]

\* Mutant: the wake-up is left out.
NotifyNobody(b) == b

\* Notify::notify_one: a registered waiter is woken, otherwise the permit is
\* stored, once however often it is given.
NotifyOne(b) ==
  IF b.at = "asleep" THEN [b EXCEPT !.at = "woken"] ELSE [b EXCEPT !.permit = TRUE]

\* DropBuffer::push of an item with attributes x: a full buffer is cleared
\* whole, and counted, before the item goes in.
PushItem(b, x, cap) ==
  LET full == Len(b.items) >= cap
      item == [n |-> b.pushed + 1, x |-> x]
  IN NotifyOne([b EXCEPT !.items = Append(IF full THEN <<>> ELSE @, item),
                         !.dropped = IF full THEN @ + Len(b.items) ELSE @,
                         !.pushed = @ + 1])

\* DropBuffer::close
CloseBuffer(b) == NotifyOne([b EXCEPT !.closed = TRUE])

\* Mutant: an item is handed out before the loss in front of it is reported.
EventOfItemFirst(b) ==
  CASE b.items # <<>> -> "item"
    [] b.items = <<>> /\ b.dropped > 0 -> "overflow"
    [] b.items = <<>> /\ b.dropped = 0 /\ b.closed -> "closed"
    [] OTHER -> "none"

\* What the state check in next() finds, in the code's order.
EventOf(b) ==
  CASE b.dropped > 0 -> "overflow"
    [] b.dropped = 0 /\ b.items # <<>> -> "item"
    [] b.dropped = 0 /\ b.items = <<>> /\ b.closed -> "closed"
    [] OTHER -> "none"

\* The buffer after next() returned that event.
AfterEvent(b) ==
  CASE EventOf(b) = "overflow" -> [b EXCEPT !.reported = @ + b.dropped, !.dropped = 0]
    [] EventOf(b) = "item" -> [b EXCEPT !.items = Tail(@), !.taken = @ + 1,
                                        !.last = Head(b.items).n]
    [] EventOf(b) = "closed" -> [b EXCEPT !.closed = FALSE]
    [] OTHER -> [b EXCEPT !.at = "await"]

\* One poll of `notified.await`: a stored permit sends the loop back to the
\* check, otherwise the consumer registers and sleeps.
PollNotified(b) ==
  IF b.permit THEN [b EXCEPT !.permit = FALSE, !.at = "check"] ELSE [b EXCEPT !.at = "asleep"]

\* The loop goes round once the waiter was woken.
WakeUp(b) == [b EXCEPT !.at = "check"]

\* The next() future is dropped because another branch of the select! won: a
\* wake-up it had already received is passed on, which stores it.
CancelNext(b) == [b EXCEPT !.at = "check", !.permit = @ \/ b.at = "woken"]

\* The consumer has not been told of everything pushed so far.
Unread(b) == b.pushed > b.taken + b.reported

\* No item is handed out before the losses in front of it are reported, and
\* what is reported is exactly what was lost.
LossInOrder(b) ==
  /\ b.taken > 0 => b.last <= b.taken + b.reported
  /\ b.pushed = b.taken + b.reported + b.dropped + Len(b.items)
=============================================================================
