------------------------------ MODULE RingBuffer ------------------------------
(***************************************************************************)
(* packetql/capture/ringbuffer.py: preallocated slots, a head and a tail   *)
(* pointer, one threading.Condition.  Each method body runs under the      *)
(* condition's lock, so it is one action; a consumer that finds nothing    *)
(* waits, which splits get_batch at the wait.                              *)
(*                                                                         *)
(* threading.Condition is modelled from its use: `waiters' is its FIFO of  *)
(* sleeping threads, notify removes the first of them, and a wait that     *)
(* times out leaves its entry there until the thread holds the lock again  *)
(* -- so a notify can be spent on a thread that has already given up.      *)
(***************************************************************************)
EXTENDS Integers, SequencesExt

CONSTANTS Capacity,     \* RingBuffer.capacity
          Items,        \* the records producers put
          NoItem,       \* None, in an empty slot
          Consumers,    \* threads that call get_batch
          Timed,        \* those of them that pass a timeout
          BatchSizes,   \* the max_items they pass
          MaxPuts       \* bound on the number of puts

ASSUME CapacityAssumption == Capacity \in Nat \ {0}
ASSUME ItemsAssumption == NoItem \notin Items
ASSUME ConsumersAssumption == Consumers # {} /\ Timed \subseteq Consumers
ASSUME BatchSizesAssumption == BatchSizes \subseteq Nat \ {0}
ASSUME MaxPutsAssumption == MaxPuts \in Nat

VARIABLES
  slots, head, tail, size,    \* _slots, _head, _tail, _size
  closed,                     \* _closed
  dropped, enqueued,          \* the public counters
  waiters,                    \* the condition's sleeping threads, oldest first
  phase,                      \* where each consumer is in get_batch
  want,                       \* max_items of a consumer's current call, else 0
  batch                       \* what each consumer's last call returned

ring == <<slots, head, tail, size>>
calls == <<phase, want, batch>>
vars == <<slots, head, tail, size, closed, dropped, enqueued, waiters,
          phase, want, batch>>

Indices == 0 .. Capacity - 1

Init ==
  /\ slots = [i \in Indices |-> NoItem]
  /\ head = 0
  /\ tail = 0
  /\ size = 0
  /\ closed = FALSE
  /\ dropped = 0
  /\ enqueued = 0
  /\ waiters = <<>>
  /\ phase = [c \in Consumers |-> "out"]
  /\ want = [c \in Consumers |-> 0]
  /\ batch = [c \in Consumers |-> <<>>]

-------------------------------------------------------------------------------

Full == size = Capacity

\* A pointer moved k slots ahead.  (Faulty variant: it wraps one slot late.)
AheadLate(i, k) == (i + k) % (Capacity + 1)
Ahead(i, k) == (i + k) % Capacity

Queued(c) == \E i \in 1 .. Len(waiters) : waiters[i] = c
Notified(c) == phase[c] = "waiting" /\ ~Queued(c)

\* (Faulty variant of Notify: nobody is woken.)
NotifyNobody(w) == w
Notify(w) == IF w = <<>> THEN w ELSE Tail(w)
NotifyAll(w) == <<>>

\* Put writes at head; when the ring is full the oldest item's slot is the
\* one written and tail moves past it.
Put(item) ==
  /\ enqueued < MaxPuts
  /\ IF Full
     THEN /\ tail' = Ahead(tail, 1)
          /\ dropped' = dropped + 1
          /\ UNCHANGED size
     ELSE /\ size' = size + 1
          /\ UNCHANGED <<tail, dropped>>
  /\ slots' = [slots EXCEPT ![head] = item]
  /\ head' = Ahead(head, 1)
  /\ enqueued' = enqueued + 1
  /\ waiters' = Notify(waiters)
  /\ UNCHANGED <<closed, calls>>

Ready == size > 0 \/ closed

Sleep(c, n) ==
  /\ ~Ready
  /\ phase' = [phase EXCEPT ![c] = "waiting"]
  /\ want' = [want EXCEPT ![c] = n]
  /\ waiters' = Append(waiters, c)
  /\ UNCHANGED <<ring, closed, dropped, enqueued, batch>>

\* How many items a call for n gets.  (Faulty variant: whatever there is.)
TakenUnbounded(n) == size
Taken(n) == IF n < size THEN n ELSE size

\* The slots of the k oldest items.  (Faulty variant: one slot too far.)
OldestOffByOne(k) == {Ahead(tail, j) : j \in 1 .. k}
Oldest(k) == {Ahead(tail, j) : j \in 0 .. k - 1}

Pop(c, n) ==
  LET k == Taken(n)
  IN  /\ Ready
      /\ batch' = [batch EXCEPT ![c] = [j \in 1 .. k |-> slots[Ahead(tail, j - 1)]]]
      /\ slots' = [i \in Indices |-> IF i \in Oldest(k) THEN NoItem ELSE slots[i]]
      /\ tail' = Ahead(tail, k)
      /\ size' = size - k
      /\ phase' = [phase EXCEPT ![c] = "out"]
      /\ want' = [want EXCEPT ![c] = 0]
      /\ UNCHANGED <<head, closed, dropped, enqueued, waiters>>

GetBatch(c, n) ==
  /\ phase[c] = "out"
  /\ Sleep(c, n) \/ Pop(c, n)

\* A notified thread holds the lock again and repeats the loop's test.
Resume(c) ==
  /\ Notified(c)
  /\ Sleep(c, want[c]) \/ Pop(c, want[c])

\* The timeout of a thread nobody has notified: it no longer sleeps, but has
\* yet to take the lock and leave the condition's list.
Expire(c) ==
  /\ c \in Timed
  /\ phase[c] = "waiting"
  /\ Queued(c)
  /\ phase' = [phase EXCEPT ![c] = "expired"]
  /\ UNCHANGED <<ring, closed, dropped, enqueued, waiters, want, batch>>

\* wait() returned False: get_batch returns [] without looking at the ring.
ReturnEmpty(c) ==
  /\ phase[c] = "expired"
  /\ phase' = [phase EXCEPT ![c] = "out"]
  /\ \/ ~Queued(c) /\ UNCHANGED waiters
     \/ \E i \in 1 .. Len(waiters) : waiters[i] = c /\ waiters' = RemoveAt(waiters, i)
  /\ want' = [want EXCEPT ![c] = 0]
  /\ batch' = [batch EXCEPT ![c] = <<>>]
  /\ UNCHANGED <<ring, closed, dropped, enqueued>>

Close ==
  /\ closed' = TRUE
  /\ waiters' = NotifyAll(waiters)
  /\ UNCHANGED <<ring, dropped, enqueued, calls>>

Next ==
  \/ \E item \in Items : Put(item)
  \/ \E c \in Consumers :
       \/ \E n \in BatchSizes : GetBatch(c, n)
       \/ Resume(c)
       \/ Expire(c)
       \/ ReturnEmpty(c)
  \/ Close

\* The condition's lock is held for a bounded time, so a thread that wants it
\* gets it, and a timer that is set fires.  Nothing makes anybody call.
Fairness ==
  \A c \in Consumers :
    WF_vars(Resume(c)) /\ WF_vars(Expire(c)) /\ WF_vars(ReturnEmpty(c))

Spec == Init /\ [][Next]_vars /\ Fairness

-------------------------------------------------------------------------------

\* Every variable keeps the type the class gives it.
TypeOK ==
  /\ slots \in [Indices -> Items \cup {NoItem}]
  /\ head \in Indices
  /\ tail \in Indices
  /\ size \in 0 .. Capacity
  /\ closed \in BOOLEAN
  /\ dropped \in Nat
  /\ enqueued \in Nat
  /\ waiters \in Seq(Consumers)
  /\ phase \in [Consumers -> {"out", "waiting", "expired"}]
  /\ want \in [Consumers -> BatchSizes \cup {0}]
  /\ batch \in [Consumers -> Seq(Items)]

\* How far index i lies ahead of tail around the ring.
Distance(i) == IF i >= tail THEN i - tail ELSE i - tail + Capacity

\* The three pointers never disagree with the slots: head is size slots ahead
\* of tail, the slots between them hold items and all the others None -- so
\* neither a wrap-around, an overwrite nor a partial get leaves a gap, a
\* record that is never read, or a None that get_batch would return.
RingShape ==
  /\ Distance(head) = IF Full THEN 0 ELSE size
  /\ \A i \in Indices : slots[i] # NoItem <=> Distance(i) < size

\* No lost wakeup: the consumers are never all asleep while there is something
\* to take or the ring is closed, even when a notify was spent on a consumer
\* whose timeout had just fired (put and close notify under the lock).
Asleep(c) == phase[c] = "waiting" /\ Queued(c)
NeverAllAsleep == (\A c \in Consumers : Asleep(c)) => size = 0 /\ ~closed

\* The ring as the abstract queue sees it: the items from tail on.
Contents == [j \in 1 .. size |-> slots[Ahead(tail, j - 1)]]
LQ == INSTANCE LossyQueue WITH queue <- Contents

\* The class implements the lossy queue: items leave in the order they came,
\* each at most once, only the oldest is ever dropped and exactly when the
\* ring is full, and an untimed get_batch returns [] only once closed.
ImplementsLossyQueue == LQ!Spec

\* Closing releases every consumer that is inside get_batch, including one
\* whose wakeup another consumer's notify might have consumed.
CloseReleases ==
  \A c \in Consumers : (closed /\ phase[c] # "out") ~> (phase[c] = "out")
===============================================================================
