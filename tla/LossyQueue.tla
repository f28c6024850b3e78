------------------------------ MODULE LossyQueue ------------------------------
(***************************************************************************)
(* What packetql/capture/ringbuffer.py promises, without slots, pointers,  *)
(* condition variable or waiting: a FIFO queue of at most Capacity items   *)
(* that makes room by dropping its oldest item.  A call that takes items   *)
(* is one step; `batch' holds what each consumer's last call returned.     *)
(***************************************************************************)
EXTENDS Integers, Sequences

CONSTANTS Capacity,     \* the number of items the queue holds at most
          Items,        \* what producers put
          Consumers,    \* the threads that take
          Timed,        \* the consumers that call with a timeout
          BatchSizes,   \* the max_items a consumer may ask for
          MaxPuts       \* bound on the number of puts

VARIABLES queue, closed, dropped, enqueued, batch

vars == <<queue, closed, dropped, enqueued, batch>>

Init ==
  /\ queue = <<>>
  /\ closed = FALSE
  /\ dropped = 0
  /\ enqueued = 0
  /\ batch = [c \in Consumers |-> <<>>]

Overflows == Len(queue) = Capacity

Put(item) ==
  /\ enqueued < MaxPuts
  /\ enqueued' = enqueued + 1
  /\ IF Overflows
     THEN /\ queue' = Append(Tail(queue), item)
          /\ dropped' = dropped + 1
     ELSE /\ queue' = Append(queue, item)
          /\ UNCHANGED dropped
  /\ UNCHANGED <<closed, batch>>

\* The call returns the oldest items, n of them when there are as many, and
\* an empty batch only from a closed queue.
Take(c, n) ==
  LET k == IF n < Len(queue) THEN n ELSE Len(queue)
  IN  /\ queue # <<>> \/ closed
      /\ batch' = [batch EXCEPT ![c] = SubSeq(queue, 1, k)]
      /\ queue' = SubSeq(queue, k + 1, Len(queue))
      /\ UNCHANGED <<closed, dropped, enqueued>>

\* A call with a timeout may return an empty batch whatever the queue holds.
GiveUp(c) ==
  /\ c \in Timed
  /\ batch' = [batch EXCEPT ![c] = <<>>]
  /\ UNCHANGED <<queue, closed, dropped, enqueued>>

Close ==
  /\ closed' = TRUE
  /\ UNCHANGED <<queue, dropped, enqueued, batch>>

Next ==
  \/ \E item \in Items : Put(item)
  \/ \E c \in Consumers : GiveUp(c) \/ \E n \in BatchSizes : Take(c, n)
  \/ Close

Spec == Init /\ [][Next]_vars
===============================================================================
