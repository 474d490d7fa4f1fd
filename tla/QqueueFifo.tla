----------------------------- MODULE QqueueFifo -----------------------------
(* What Qqueue promises its two cores: a bounded FIFO.  The consumer takes  *)
(* the oldest value, or reads some of the oldest values and drops as many   *)
(* or more: those that were there when it was called.                       *)
EXTENDS Integers, Sequences

CONSTANTS Values, Capacity

VARIABLES
  queue,   \* enqueued and not yet taken, oldest first
  got      \* what the last operation of the consumer delivered

fifoVars == <<queue, got>>

FifoInit == queue = <<>> /\ got = <<>>

Put(v) ==
  /\ Len(queue) < Capacity
  /\ queue' = Append(queue, v)
  /\ UNCHANGED got

\* The oldest n values are delivered, k >= n of them leave the queue.
Take(k, n) ==
  /\ got' = [i \in 1..n |-> queue[i]]
  /\ queue' = [i \in 1..(Len(queue) - k) |-> queue[i + k]]

FifoNext ==
  \/ \E v \in Values : Put(v)
  \/ \E k \in 0..Len(queue) : \E n \in 0..k : Take(k, n)

FifoSpec == FifoInit /\ [][FifoNext]_fifoVars
=============================================================================
