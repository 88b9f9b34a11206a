----------------------------- MODULE MCSharedBus -----------------------------
(* The instance of SharedBus for TLC: a subscription with two threads and a  *)
(* task, and a transmit queue with one thread.                               *)
EXTENDS SharedBus

CONSTANTS t1, t2, t3, k1, s1

MCChannel == [k \in Users |-> IF k = t3 THEN Tx ELSE s1]
MCWays == {[capacity |-> 1, policy |-> "DropOldest"],
           [capacity |-> 1, policy |-> "DropNewest"],
           [capacity |-> 2, policy |-> "DropOldest"]}
=============================================================================
