--------------------------- MODULE RingBufferProofs ---------------------------
(***************************************************************************)
(* The ring's pointers and slots never disagree and the consumers are      *)
(* never all asleep while there is something to take, for every capacity,  *)
(* set of items, set of consumers and choice of who uses a timeout; and    *)
(* the ring implements the lossy queue.                                    *)
(***************************************************************************)
EXTENDS RingBuffer, SequenceTheorems, TLAPS

\* What NeverAllAsleep needs besides itself: the condition's list holds each
\* consumer at most once, and only consumers that are inside get_batch.
WaitersOK ==
  /\ \A i, j \in 1 .. Len(waiters) : waiters[i] = waiters[j] => i = j
  /\ \A i \in 1 .. Len(waiters) : phase[waiters[i]] # "out"

IInv == TypeOK /\ RingShape /\ WaitersOK /\ NeverAllAsleep

\* A pointer moved at most once around the ring wraps at most once.
LEMMA AheadWraps ==
  ASSUME NEW i \in Indices, NEW k \in 0 .. Capacity
  PROVE  /\ Ahead(i, k) \in Indices
         /\ Ahead(i, k) = IF i + k < Capacity THEN i + k ELSE i + k - Capacity
  BY CapacityAssumption, SMTT(30) DEF Ahead, Indices

\* The index d slots ahead of tail is at distance d, and conversely.
LEMMA DistanceOfAhead ==
  ASSUME tail \in Indices, NEW d \in 0 .. Capacity - 1
  PROVE  Ahead(tail, d) \in Indices /\ Distance(Ahead(tail, d)) = d
<1>1. d \in 0 .. Capacity
  BY CapacityAssumption
<1>2. Ahead(tail, d) \in Indices
  BY <1>1, AheadWraps
<1>3. Ahead(tail, d) = IF tail + d < Capacity THEN tail + d ELSE tail + d - Capacity
  BY <1>1, AheadWraps
<1> QED
  BY <1>2, <1>3, CapacityAssumption DEF Distance, Indices

LEMMA AheadOfDistance ==
  ASSUME tail \in Indices, NEW i \in Indices
  PROVE  /\ Distance(i) \in 0 .. Capacity - 1
         /\ Ahead(tail, Distance(i)) = i
<1>1. Distance(i) \in 0 .. Capacity - 1
  BY CapacityAssumption DEF Distance, Indices
<1>2. Distance(i) \in 0 .. Capacity
  BY <1>1, CapacityAssumption
<1>3. Ahead(tail, Distance(i))
        = IF tail + Distance(i) < Capacity
          THEN tail + Distance(i) ELSE tail + Distance(i) - Capacity
  BY <1>2, AheadWraps
<1> QED
  BY <1>1, <1>3, CapacityAssumption DEF Distance, Indices

\* The slots Pop empties are those closer than k to tail.
LEMMA OldestAreClose ==
  ASSUME tail \in Indices, NEW k \in 0 .. Capacity, NEW i \in Indices
  PROVE  i \in Oldest(k) <=> Distance(i) < k
<1>1. ASSUME i \in Oldest(k) PROVE Distance(i) < k
  <2>1. PICK j \in 0 .. k - 1 : i = Ahead(tail, j)
    BY <1>1 DEF Oldest
  <2> QED
    BY <2>1, DistanceOfAhead, CapacityAssumption
<1>2. ASSUME Distance(i) < k PROVE i \in Oldest(k)
  <2>1. Distance(i) \in 0 .. k - 1 /\ Ahead(tail, Distance(i)) = i
    BY <1>2, AheadOfDistance, CapacityAssumption
  <2> QED
    BY <2>1 DEF Oldest
<1> QED
  BY <1>1, <1>2

-------------------------------------------------------------------------------

LEMMA InitIInv == Init => IInv
<1> SUFFICES ASSUME Init PROVE IInv
  OBVIOUS
<1>1. TypeOK
  <2>1. \A S : <<>> \in Seq(S)
    BY EmptySeq
  <2>2. 0 \in Indices /\ 0 \in 0 .. Capacity
    BY CapacityAssumption DEF Indices
  <2> QED
    BY <2>1, <2>2 DEF Init, TypeOK
<1>2. RingShape
  BY CapacityAssumption DEF Init, RingShape, Distance, Full, Indices
<1>3. WaitersOK
  BY DEF Init, WaitersOK
<1>4. NeverAllAsleep
  BY DEF Init, NeverAllAsleep
<1> QED
  BY <1>1, <1>2, <1>3, <1>4 DEF IInv

\* put overwrites the oldest slot or fills the first free one.
LEMMA PutKeepsRing ==
  ASSUME TypeOK, RingShape, NEW item \in Items, Put(item)
  PROVE  TypeOK' /\ RingShape'
<1>1. /\ Ahead(head, 1) \in Indices
      /\ Ahead(head, 1) = IF head + 1 < Capacity THEN head + 1 ELSE head + 1 - Capacity
      /\ Ahead(tail, 1) \in Indices
      /\ Ahead(tail, 1) = IF tail + 1 < Capacity THEN tail + 1 ELSE tail + 1 - Capacity
  BY CapacityAssumption, AheadWraps DEF TypeOK
<1>2. TypeOK'
  <2>1. Notify(waiters) \in Seq(Consumers)
    BY DEF Notify, TypeOK
  <2> QED
    BY <1>1, <2>1, CapacityAssumption DEF Put, TypeOK, Full, calls
<1> DEFINE C == Capacity
<1>p. /\ C \in Nat \ {0} /\ head \in 0 .. C - 1 /\ tail \in 0 .. C - 1 /\ size \in 0 .. C
      /\ Distance(head) = IF size = C THEN 0 ELSE size
      /\ head' = IF head + 1 < C THEN head + 1 ELSE head + 1 - C
      /\ IF size = C
         THEN tail' = (IF tail + 1 < C THEN tail + 1 ELSE tail + 1 - C) /\ size' = size
         ELSE tail' = tail /\ size' = size + 1
  BY <1>1, CapacityAssumption DEF Put, TypeOK, RingShape, Full, Indices
<1>3. Distance(head)' = IF Full' THEN 0 ELSE size'
  BY <1>p, SMTT(30) DEF Distance, Full
<1>4. ASSUME NEW i \in Indices
      PROVE  slots'[i] # NoItem <=> Distance(i)' < size'
  <2>1. CASE i = head
    <3>1. slots'[i] = item
      BY <2>1 DEF Put, TypeOK
    <3>2. Distance(i)' < size'
      BY <1>p, <2>1, SMTT(30) DEF Distance
    <3> QED
      BY <3>1, <3>2, ItemsAssumption
  <2>2. CASE i # head
    <3>1. slots'[i] = slots[i]
      BY <2>2 DEF Put, TypeOK
    <3>2. Distance(i)' < size' <=> Distance(i) < size
      <4>1. i \in 0 .. C - 1
        BY DEF Indices
      <4> QED
        BY <1>p, <2>2, <4>1, SMTT(30) DEF Distance
    <3> QED
      BY <3>1, <3>2 DEF RingShape
  <2> QED
    BY <2>1, <2>2
<1> QED
  BY <1>2, <1>3, <1>4 DEF RingShape, Indices

\* get_batch empties the slots closest to tail and moves tail past them; what
\* it returns are items, never an empty slot.
LEMMA PopKeepsRing ==
  ASSUME TypeOK, RingShape, NEW c \in Consumers, NEW n \in Nat, Pop(c, n)
  PROVE  TypeOK' /\ RingShape'
<1> DEFINE C == Capacity
           k == Taken(n)
           out == [j \in 1 .. k |-> slots[Ahead(tail, j - 1)]]
<1>1. k \in 0 .. size /\ k \in 0 .. C /\ size \in 0 .. C /\ C \in Nat \ {0}
  BY CapacityAssumption DEF Taken, TypeOK
<1>2. /\ Ahead(tail, k) \in Indices
      /\ Ahead(tail, k) = IF tail + k < C THEN tail + k ELSE tail + k - C
  BY <1>1, AheadWraps DEF TypeOK
<1>3. /\ slots' = [i \in Indices |-> IF i \in Oldest(k) THEN NoItem ELSE slots[i]]
      /\ tail' = Ahead(tail, k) /\ size' = size - k /\ head' = head
      /\ batch' = [batch EXCEPT ![c] = out]
  BY DEF Pop
<1>4. out \in Seq(Items)
  <2>1. ASSUME NEW j \in 1 .. k PROVE slots[Ahead(tail, j - 1)] \in Items
    <3>1. j - 1 \in 0 .. C - 1 /\ j - 1 < size
      BY <1>1
    <3>2. Ahead(tail, j - 1) \in Indices /\ Distance(Ahead(tail, j - 1)) = j - 1
      BY <3>1, DistanceOfAhead DEF TypeOK
    <3>3. slots[Ahead(tail, j - 1)] # NoItem
      BY <3>1, <3>2 DEF RingShape
    <3> QED
      BY <3>2, <3>3 DEF TypeOK
  <2>2. out \in [1 .. k -> Items]
    BY <2>1
  <2>3. k \in Nat
    BY <1>1
  <2> QED
    BY <2>2, <2>3, SeqDef
<1>5. TypeOK'
  <2>1. size' \in 0 .. C
    BY <1>1, <1>3
  <2>2. batch' \in [Consumers -> Seq(Items)]
    BY <1>3, <1>4 DEF TypeOK
  <2> QED
    BY <1>2, <1>3, <2>1, <2>2 DEF Pop, TypeOK
<1>p. /\ C \in Nat \ {0} /\ head \in 0 .. C - 1 /\ tail \in 0 .. C - 1
      /\ size \in 0 .. C /\ k \in 0 .. size
      /\ Distance(head) = IF size = C THEN 0 ELSE size
      /\ head' = head /\ size' = size - k
      /\ tail' = IF tail + k < C THEN tail + k ELSE tail + k - C
  BY <1>1, <1>2, <1>3 DEF TypeOK, RingShape, Full, Indices
<1>6. Distance(head)' = IF Full' THEN 0 ELSE size'
  <2> HIDE DEF k
  <2> QED
    BY <1>p, SMTT(30) DEF Distance, Full
<1>7. ASSUME NEW i \in Indices
      PROVE  slots'[i] # NoItem <=> Distance(i)' < size'
  <2>1. i \in 0 .. C - 1
    BY DEF Indices
  <2>2. i \in Oldest(k) <=> Distance(i) < k
    BY <1>1, OldestAreClose DEF TypeOK
  <2>3. slots'[i] # NoItem <=> k <= Distance(i) /\ Distance(i) < size
    <3>1. Distance(i) \in Int
      BY <1>p, <2>1 DEF Distance
    <3>2. slots'[i] = IF i \in Oldest(k) THEN NoItem ELSE slots[i]
      BY <1>3
    <3>3. slots[i] # NoItem <=> Distance(i) < size
      BY DEF RingShape
    <3> HIDE DEF k
    <3>4. k \in Int
      BY <1>p
    <3> QED
      BY <2>2, <3>1, <3>2, <3>3, <3>4
  <2>4. Distance(i)' < size' <=> k <= Distance(i) /\ Distance(i) < size
    <3> HIDE DEF k
    <3> QED
      BY <1>p, <2>1, SMTT(30) DEF Distance
  <2> QED
    BY <2>3, <2>4
<1> QED
  BY <1>5, <1>6, <1>7 DEF RingShape, Indices

\* The other actions leave the ring alone.
LEMMA SameRing ==
  ASSUME RingShape, UNCHANGED ring
  PROVE  RingShape'
  BY DEF RingShape, Distance, Full, ring

\* A thread that goes to sleep is not in the list yet and finds nothing to take.
LEMMA SleepKeepsInv ==
  ASSUME IInv, NEW c \in Consumers, NEW n \in BatchSizes \cup {0}, ~Queued(c), Sleep(c, n)
  PROVE  IInv'
<1> USE DEF IInv
<1>1. waiters' \in Seq(Consumers) /\ Len(waiters') = Len(waiters) + 1
  BY DEF Sleep, TypeOK
<1>2. \A i \in 1 .. Len(waiters') :
        waiters'[i] = IF i <= Len(waiters) THEN waiters[i] ELSE c
  BY DEF Sleep, TypeOK
<1>3. TypeOK'
  BY <1>1 DEF Sleep, TypeOK, ring
<1>4. RingShape'
  BY SameRing DEF Sleep
<1>5. WaitersOK'
  <2>1. Len(waiters) \in Nat
    BY DEF TypeOK
  <2>2. \A i \in 1 .. Len(waiters) : waiters[i] \in Consumers /\ waiters[i] # c
    BY DEF Queued, TypeOK
  <2>3. \A i, j \in 1 .. Len(waiters') : waiters'[i] = waiters'[j] => i = j
    BY <1>1, <1>2, <2>1, <2>2 DEF WaitersOK
  <2>4. \A i \in 1 .. Len(waiters') : phase'[waiters'[i]] # "out"
    BY <1>1, <1>2, <2>1, <2>2 DEF WaitersOK, Sleep, TypeOK
  <2> QED
    BY <2>3, <2>4 DEF WaitersOK
<1>6. NeverAllAsleep'
  BY DEF NeverAllAsleep, Sleep, Ready, ring, TypeOK
<1> QED
  BY <1>3, <1>4, <1>5, <1>6

\* A thread that leaves get_batch with items was not in the list, and is awake.
LEMMA PopKeepsInv ==
  ASSUME IInv, NEW c \in Consumers, NEW n \in Nat, ~Queued(c), Pop(c, n)
  PROVE  IInv'
<1> USE DEF IInv
<1>1. TypeOK' /\ RingShape'
  BY PopKeepsRing
<1>2. WaitersOK'
  BY DEF WaitersOK, Pop, Queued, TypeOK
<1>3. ~Asleep(c)'
  BY DEF Pop, Asleep, TypeOK
<1> QED
  BY <1>1, <1>2, <1>3 DEF NeverAllAsleep

\* put wakes the first sleeper, so not all are asleep any more.
LEMMA PutKeepsInv ==
  ASSUME IInv, NEW item \in Items, Put(item)
  PROVE  IInv'
<1> USE DEF IInv
<1>1. TypeOK' /\ RingShape'
  BY PutKeepsRing
<1>2. waiters' = Notify(waiters) /\ phase' = phase
  BY DEF Put, calls
<1>3. /\ waiters # <<>> => Len(waiters') = Len(waiters) - 1
      /\ \A i \in 1 .. Len(waiters') : waiters # <<>> => waiters'[i] = waiters[i + 1]
      /\ waiters = <<>> => waiters' = <<>>
  BY <1>2, HeadTailProperties DEF Notify, TypeOK
<1>4. Len(waiters) \in Nat /\ (waiters # <<>> => Len(waiters) > 0)
  BY EmptySeq DEF TypeOK
<1>5. WaitersOK'
  <2>1. CASE waiters = <<>>
    BY <2>1, <1>3 DEF WaitersOK
  <2>2. CASE waiters # <<>>
    <3>1. \A i \in 1 .. Len(waiters') :
            i + 1 \in 1 .. Len(waiters) /\ waiters'[i] = waiters[i + 1]
      BY <2>2, <1>3, <1>4
    <3>2. \A i, j \in 1 .. Len(waiters') : waiters'[i] = waiters'[j] => i + 1 = j + 1
      BY <3>1 DEF WaitersOK
    <3>3. \A i \in 1 .. Len(waiters') : phase'[waiters'[i]] # "out"
      BY <3>1, <1>2 DEF WaitersOK
    <3> QED
      BY <3>2, <3>3, <2>2, <1>3, <1>4 DEF WaitersOK
  <2> QED
    BY <2>1, <2>2
<1>6. \E c \in Consumers : ~Asleep(c)'
  <2>1. CASE waiters = <<>>
    BY <2>1, <1>3, ConsumersAssumption DEF Asleep, Queued
  <2>2. CASE waiters # <<>>
    <3>1. waiters[1] \in Consumers
      BY <2>2, <1>4 DEF TypeOK
    <3>2. \A i \in 1 .. Len(waiters') : waiters'[i] # waiters[1]
      BY <2>2, <1>3, <1>4 DEF WaitersOK
    <3> QED
      BY <3>1, <3>2 DEF Asleep, Queued
  <2> QED
    BY <2>1, <2>2
<1> QED
  BY <1>1, <1>5, <1>6 DEF NeverAllAsleep

\* What RemoveAt of the community modules returns.
LEMMA RemoveAtProperties ==
  ASSUME NEW S, NEW w \in Seq(S), NEW k \in 1 .. Len(w)
  PROVE  /\ RemoveAt(w, k) \in Seq(S)
         /\ Len(RemoveAt(w, k)) = Len(w) - 1
         /\ \A i \in 1 .. Len(w) - 1 :
              RemoveAt(w, k)[i] = IF i < k THEN w[i] ELSE w[i + 1]
<1> DEFINE u == SubSeq(w, 1, k - 1)
           v == SubSeq(w, k + 1, Len(w))
<1>1. Len(w) \in Nat /\ \A i \in 1 .. Len(w) : w[i] \in S
  BY LenProperties
<1>2. /\ u \in Seq(S) /\ Len(u) = k - 1
      /\ \A i \in 1 .. k - 1 : u[i] = w[i]
  BY <1>1, SubSeqProperties
<1>3. /\ v \in Seq(S) /\ Len(v) = Len(w) - k
      /\ \A i \in 1 .. Len(w) - k : v[i] = w[k + i]
  <2>1. \A i \in k + 1 .. Len(w) : w[i] \in S
    BY <1>1
  <2>2. /\ v \in Seq(S)
        /\ Len(v) = IF k + 1 <= Len(w) THEN Len(w) - (k + 1) + 1 ELSE 0
        /\ \A i \in 1 .. Len(w) - (k + 1) + 1 : v[i] = w[(k + 1) + i - 1]
    BY <1>1, <2>1, SubSeqProperties
  <2> QED
    BY <1>1, <2>2
<1> HIDE DEF u, v
<1>4. /\ u \o v \in Seq(S) /\ Len(u \o v) = Len(u) + Len(v)
      /\ \A i \in 1 .. Len(u) + Len(v) :
           (u \o v)[i] = IF i <= Len(u) THEN u[i] ELSE v[i - Len(u)]
  BY <1>2, <1>3, ConcatProperties
<1>5. RemoveAt(w, k) = u \o v
  BY DEF RemoveAt, u, v
<1>6. ASSUME NEW i \in 1 .. Len(w) - 1
      PROVE  (u \o v)[i] = IF i < k THEN w[i] ELSE w[i + 1]
  <2>1. i \in 1 .. Len(u) + Len(v) /\ (i <= Len(u) <=> i < k)
    BY <1>1, <1>2, <1>3
  <2>2. CASE i < k
    BY <1>1, <1>2, <1>4, <2>1, <2>2
  <2>3. CASE ~(i < k)
    <3>1. i - Len(u) \in 1 .. Len(w) - k /\ k + (i - Len(u)) = i + 1
      BY <1>1, <1>2, <2>3
    <3> QED
      BY <1>3, <1>4, <2>1, <2>3, <3>1
  <2> QED
    BY <2>2, <2>3
<1>7. Len(u \o v) = Len(w) - 1
  BY <1>1, <1>2, <1>3, <1>4
<1> QED
  BY <1>4, <1>5, <1>6, <1>7

\* Leaving the condition's list after a timeout, and get_batch with it.
LEMMA ReturnEmptyKeepsInv ==
  ASSUME IInv, NEW c \in Consumers, ReturnEmpty(c)
  PROVE  IInv'
<1> USE DEF IInv
<1> DEFINE Left ==
             /\ waiters' \in Seq(Consumers) /\ Len(waiters') \in Nat
             /\ \A i \in 1 .. Len(waiters') : waiters'[i] # c
             /\ \A i \in 1 .. Len(waiters') :
                  \E j \in 1 .. Len(waiters) : waiters'[i] = waiters[j]
             /\ \A i, j \in 1 .. Len(waiters') : waiters'[i] = waiters'[j] => i = j
<1>1. Left
  <2>1. CASE ~Queued(c) /\ UNCHANGED waiters
    BY <2>1 DEF Queued, TypeOK, WaitersOK
  <2>2. ASSUME NEW k \in 1 .. Len(waiters), waiters[k] = c, waiters' = RemoveAt(waiters, k)
        PROVE  Left
    <3>1. Len(waiters) \in Nat
      BY DEF TypeOK
    <3>2. waiters' \in Seq(Consumers) /\ Len(waiters') = Len(waiters) - 1
      BY <2>2, RemoveAtProperties DEF TypeOK
    <3>3. \A i \in 1 .. Len(waiters') :
            waiters'[i] = IF i < k THEN waiters[i] ELSE waiters[i + 1]
      BY <2>2, <3>2, RemoveAtProperties DEF TypeOK
    <3> DEFINE src(i) == IF i < k THEN i ELSE i + 1
    <3>4. ASSUME NEW i \in 1 .. Len(waiters')
          PROVE  src(i) \in 1 .. Len(waiters) /\ src(i) # k /\ waiters'[i] = waiters[src(i)]
      BY <3>1, <3>2, <3>3
    <3>5. ASSUME NEW i \in 1 .. Len(waiters'), NEW j \in 1 .. Len(waiters'), src(i) = src(j)
          PROVE  i = j
      BY <3>1, <3>2, <3>5
    <3> HIDE DEF src
    <3>6. \A i \in 1 .. Len(waiters') : waiters'[i] # c
      BY <2>2, <3>4 DEF WaitersOK
    <3>7. \A i, j \in 1 .. Len(waiters') : waiters'[i] = waiters'[j] => i = j
      BY <3>4, <3>5 DEF WaitersOK
    <3> QED
      BY <3>1, <3>2, <3>4, <3>6, <3>7
  <2> QED
    BY <2>1, <2>2 DEF ReturnEmpty
<1>2. TypeOK'
  BY <1>1, EmptySeq DEF ReturnEmpty, TypeOK, ring
<1>3. RingShape'
  BY SameRing DEF ReturnEmpty
<1>4. WaitersOK'
  <2>1. \A i \in 1 .. Len(waiters') : phase'[waiters'[i]] # "out"
    <3>1. SUFFICES ASSUME NEW i \in 1 .. Len(waiters') PROVE phase'[waiters'[i]] # "out"
      OBVIOUS
    <3>2. waiters'[i] # c /\ phase[waiters'[i]] # "out"
      BY <1>1 DEF WaitersOK
    <3> QED
      BY <3>2 DEF ReturnEmpty, TypeOK
  <2> QED
    BY <1>1, <2>1 DEF WaitersOK
<1>5. ~Asleep(c)'
  BY DEF ReturnEmpty, Asleep, TypeOK
<1> QED
  BY <1>2, <1>3, <1>4, <1>5 DEF NeverAllAsleep

LEMMA StepIInv == IInv /\ [Next]_vars => IInv'
<1> SUFFICES ASSUME IInv, [Next]_vars PROVE IInv'
  OBVIOUS
<1> USE DEF IInv
<1>1. ASSUME NEW c \in Consumers, NEW n \in BatchSizes, GetBatch(c, n)
      PROVE  IInv'
  <2>1. ~Queued(c)
    BY <1>1 DEF GetBatch, Queued, WaitersOK
  <2>2. n \in Nat
    BY BatchSizesAssumption
  <2> QED
    BY <1>1, <2>1, <2>2, SleepKeepsInv, PopKeepsInv DEF GetBatch
<1>2. ASSUME NEW c \in Consumers, Resume(c)
      PROVE  IInv'
  <2>1. ~Queued(c)
    BY <1>2 DEF Resume, Notified
  <2>2. want[c] \in BatchSizes \cup {0} /\ want[c] \in Nat
    <3>1. want[c] \in BatchSizes \cup {0} /\ 0 \in Nat
      BY DEF TypeOK
    <3> QED
      BY <3>1, BatchSizesAssumption, Zenon
  <2> QED
    BY <1>2, <2>1, <2>2, SleepKeepsInv, PopKeepsInv DEF Resume
<1>3. ASSUME NEW c \in Consumers, Expire(c)
      PROVE  IInv'
  <2>1. TypeOK'
    BY <1>3 DEF Expire, TypeOK, ring
  <2>2. RingShape'
    BY <1>3, SameRing DEF Expire
  <2>3. WaitersOK'
    BY <1>3 DEF Expire, WaitersOK, TypeOK
  <2>4. ~Asleep(c)'
    BY <1>3 DEF Expire, Asleep, TypeOK
  <2> QED
    BY <2>1, <2>2, <2>3, <2>4 DEF NeverAllAsleep
<1>4. CASE Close
  <2>1. TypeOK'
    BY <1>4, EmptySeq DEF Close, NotifyAll, TypeOK, ring, calls
  <2>2. RingShape'
    BY <1>4, SameRing DEF Close
  <2>3. WaitersOK'
    BY <1>4 DEF Close, NotifyAll, WaitersOK
  <2>4. NeverAllAsleep'
    BY <1>4, ConsumersAssumption DEF Close, NotifyAll, NeverAllAsleep, Asleep, Queued
  <2> QED
    BY <2>1, <2>2, <2>3, <2>4
<1>5. CASE UNCHANGED vars
  BY <1>5, SameRing
     DEF vars, ring, TypeOK, WaitersOK, NeverAllAsleep, Asleep, Queued
<1> QED
  BY <1>1, <1>2, <1>3, <1>4, <1>5, PutKeepsInv, ReturnEmptyKeepsInv DEF Next

-------------------------------------------------------------------------------

\* The class keeps its types whatever the capacity, and in particular head and
\* tail stay inside the preallocated slots and size within the capacity.
THEOREM TypeCorrectness == Spec => []TypeOK
<1>1. Init => IInv
  BY InitIInv
<1>2. IInv /\ [Next]_vars => IInv'
  BY StepIInv
<1>3. IInv => TypeOK
  BY DEF IInv
<1> QED
  BY <1>1, <1>2, <1>3, PTL DEF Spec

\* put and get_batch keep head, tail, size and the slots in agreement for every
\* capacity, through wrap-around, overwriting and partial batches.
THEOREM PointersAgreeWithSlots == Spec => []RingShape
<1>1. Init => IInv
  BY InitIInv
<1>2. IInv /\ [Next]_vars => IInv'
  BY StepIInv
<1>3. IInv => RingShape
  BY DEF IInv
<1> QED
  BY <1>1, <1>2, <1>3, PTL DEF Spec

\* put and close lose no wakeup, for every number of consumers with and without
\* timeouts: some consumer is awake whenever there is something to do.
THEOREM NoWakeupIsLost == Spec => []NeverAllAsleep
<1>1. Init => IInv
  BY InitIInv
<1>2. IInv /\ [Next]_vars => IInv'
  BY StepIInv
<1>3. IInv => NeverAllAsleep
  BY DEF IInv
<1> QED
  BY <1>1, <1>2, <1>3, PTL DEF Spec

-------------------------------------------------------------------------------
(* The ring implements the lossy queue.                                      *)

\* Moving a pointer k and then d slots is moving it k + d slots.
LEMMA AheadAdds ==
  ASSUME NEW i \in Indices, NEW k \in 0 .. Capacity, NEW d \in 0 .. Capacity,
         k + d <= Capacity
  PROVE  Ahead(Ahead(i, k), d) = Ahead(i, k + d)
<1>1. k + d \in 0 .. Capacity
  BY CapacityAssumption
<1>2. Ahead(i, k) \in Indices
  BY AheadWraps
<1>3. /\ Ahead(i, k) = IF i + k < Capacity THEN i + k ELSE i + k - Capacity
      /\ Ahead(i, k + d) = IF i + (k + d) < Capacity THEN i + (k + d) ELSE i + (k + d) - Capacity
  BY <1>1, AheadWraps
<1>4. Ahead(Ahead(i, k), d)
        = IF Ahead(i, k) + d < Capacity THEN Ahead(i, k) + d ELSE Ahead(i, k) + d - Capacity
  BY <1>2, AheadWraps
<1>5. i \in 0 .. Capacity - 1
  BY DEF Indices
<1> QED
  BY <1>3, <1>4, <1>5, CapacityAssumption, SMTT(30)

\* The ring's contents are a queue of size items, the oldest at the tail.
LEMMA ContentsProperties ==
  ASSUME TypeOK, RingShape
  PROVE  /\ Contents \in Seq(Items) /\ Len(Contents) = size
         /\ \A j \in 1 .. size :
              /\ Contents[j] = slots[Ahead(tail, j - 1)]
              /\ Ahead(tail, j - 1) \in Indices /\ Distance(Ahead(tail, j - 1)) = j - 1
<1>1. size \in Nat /\ size <= Capacity /\ tail \in Indices
  BY CapacityAssumption DEF TypeOK
<1>2. ASSUME NEW j \in 1 .. size
      PROVE  /\ Ahead(tail, j - 1) \in Indices /\ Distance(Ahead(tail, j - 1)) = j - 1
             /\ slots[Ahead(tail, j - 1)] \in Items
  <2>1. j - 1 \in 0 .. Capacity - 1 /\ j - 1 < size
    BY <1>1, CapacityAssumption
  <2>2. Ahead(tail, j - 1) \in Indices /\ Distance(Ahead(tail, j - 1)) = j - 1
    BY <1>1, <2>1, DistanceOfAhead
  <2> QED
    BY <2>1, <2>2 DEF TypeOK, RingShape
<1>3. Contents \in [1 .. size -> Items]
  BY <1>2 DEF Contents
<1>4. Contents \in Seq(Items)
  BY <1>1, <1>3, SeqDef
<1>5. DOMAIN Contents = 1 .. size
  BY DEF Contents
<1>6. Len(Contents) = size
  BY <1>1, <1>4, <1>5, LenProperties
<1> QED
  BY <1>2, <1>4, <1>6 DEF Contents

ContentsOK ==
  /\ Contents \in Seq(Items) /\ Len(Contents) = size
  /\ \A j \in 1 .. size : Contents[j] = slots[Ahead(tail, j - 1)]

LEMMA ContentsAreOK == TypeOK /\ RingShape => ContentsOK
BY ContentsProperties DEF ContentsOK

\* put: the new item is the youngest, and a full ring loses its oldest.
LEMMA PutMaps ==
  ASSUME TypeOK, RingShape, NEW item \in Items, Put(item)
  PROVE  LQ!Put(item)
<1>1. /\ Contents \in Seq(Items) /\ Len(Contents) = size
      /\ \A j \in 1 .. size :
           /\ Contents[j] = slots[Ahead(tail, j - 1)]
           /\ Ahead(tail, j - 1) \in Indices /\ Distance(Ahead(tail, j - 1)) = j - 1
  BY ContentsProperties
<1>2. TypeOK' /\ RingShape'
  BY PutKeepsRing
<1>3. /\ Contents' \in Seq(Items) /\ Len(Contents') = size'
      /\ \A j \in 1 .. size' : Contents'[j] = slots'[Ahead(tail', j - 1)]
  <2>1. ContentsOK'
    BY <1>2, ContentsAreOK, PTL
  <2> QED
    BY <2>1 DEF ContentsOK
<1>4. /\ slots' = [slots EXCEPT ![head] = item] /\ slots \in [Indices -> Items \cup {NoItem}]
      /\ enqueued < MaxPuts /\ enqueued' = enqueued + 1
      /\ UNCHANGED <<closed, batch>>
      /\ head \in Indices /\ tail \in Indices /\ size \in 0 .. Capacity
      /\ Distance(head) = IF size = Capacity THEN 0 ELSE size
  BY DEF Put, TypeOK, RingShape, Full, calls
<1>5. CASE size = Capacity
  <2>1. tail' = Ahead(tail, 1) /\ dropped' = dropped + 1 /\ size' = size
    BY <1>5 DEF Put, Full
  <2>2. Distance(tail) = 0 /\ Ahead(tail, Distance(head)) = head /\ Ahead(tail, 0) = tail
    <3>1. Ahead(tail, Distance(head)) = head /\ Ahead(tail, Distance(tail)) = tail
      BY <1>4, AheadOfDistance
    <3>2. Distance(tail) = 0
      BY <1>4, CapacityAssumption DEF Distance, Indices
    <3> QED
      BY <3>1, <3>2
  <2>3. head = tail
    BY <1>4, <1>5, <2>2
  <2>4. Contents # <<>> /\ size > 0
    BY <1>1, <1>5, CapacityAssumption, EmptySeq
  <2>5. /\ Tail(Contents) \in Seq(Items) /\ Len(Tail(Contents)) = size - 1
        /\ \A i \in 1 .. size - 1 : Tail(Contents)[i] = Contents[i + 1]
    BY <1>1, <2>4, HeadTailProperties
  <2> DEFINE q == Append(Tail(Contents), item)
  <2>6. /\ q \in Seq(Items) /\ Len(q) = size
        /\ \A i \in 1 .. size - 1 : q[i] = Contents[i + 1]
        /\ q[size] = item
    <3>1. /\ q \in Seq(Items) /\ Len(q) = Len(Tail(Contents)) + 1
          /\ \A i \in 1 .. Len(Tail(Contents)) : q[i] = Tail(Contents)[i]
          /\ q[Len(Tail(Contents)) + 1] = item
      BY <2>5, AppendProperties
    <3>2. size - 1 + 1 = size
      BY <1>4
    <3> QED
      BY <2>5, <3>1, <3>2
  <2> HIDE DEF q
  <2>7. ASSUME NEW j \in 1 .. size PROVE Contents'[j] = q[j]
    <3>1. j \in Int /\ j - 1 \in 0 .. Capacity /\ 1 \in 0 .. Capacity /\ 1 + (j - 1) = j
          /\ j <= Capacity
      BY <1>4, <1>5, CapacityAssumption
    <3>2. Ahead(tail', j - 1) = Ahead(tail, j)
      BY <1>4, <2>1, <3>1, AheadAdds
    <3>3. Contents'[j] = slots'[Ahead(tail, j)]
      BY <1>3, <2>1, <3>2
    <3>4. CASE j = size
      <4>1. Ahead(tail, j) = head
        <5>1. j \in 0 .. Capacity /\ j = Capacity
          BY <1>5, <3>1, <3>4, CapacityAssumption
        <5>2. Ahead(tail, j) = IF tail + j < Capacity THEN tail + j ELSE tail + j - Capacity
          BY <1>4, <5>1, AheadWraps
        <5> QED
          BY <1>4, <2>3, <5>1, <5>2, CapacityAssumption DEF Indices
      <4> QED
        BY <1>4, <2>6, <3>3, <3>4, <4>1
    <3>5. CASE j # size
      <4>1. j + 1 \in 1 .. size /\ (j + 1) - 1 = j /\ j \in 1 .. size - 1
        BY <1>4, <3>5
      <4>2. /\ Contents[j + 1] = slots[Ahead(tail, j)]
            /\ Ahead(tail, j) \in Indices /\ Distance(Ahead(tail, j)) = j
        BY <1>1, <4>1
      <4>3. Ahead(tail, j) # head
        BY <2>2, <2>3, <3>1, <4>2
      <4> QED
        BY <1>4, <2>6, <3>3, <4>1, <4>2, <4>3
    <3> QED
      BY <3>4, <3>5
  <2>8. Contents' = q
    BY <1>3, <2>1, <2>6, <2>7, SeqEqual
  <2> QED
    BY <1>1, <1>4, <1>5, <2>1, <2>8 DEF LQ!Put, LQ!Overflows, q
<1>6. CASE size # Capacity
  <2>1. tail' = tail /\ dropped' = dropped /\ size' = size + 1
    BY <1>6 DEF Put, Full
  <2>2. Ahead(tail, size) = head
    BY <1>4, <1>6, AheadOfDistance
  <2> DEFINE q == Append(Contents, item)
  <2>3. /\ q \in Seq(Items) /\ Len(q) = size + 1
        /\ \A i \in 1 .. size : q[i] = Contents[i]
        /\ q[size + 1] = item
    BY <1>1, AppendProperties
  <2> HIDE DEF q
  <2>4. ASSUME NEW j \in 1 .. size + 1 PROVE Contents'[j] = q[j]
    <3>1. Contents'[j] = slots'[Ahead(tail, j - 1)]
      BY <1>3, <2>1
    <3>2. CASE j = size + 1
      <4>1. j - 1 = size
        BY <1>4, <3>2
      <4> QED
        BY <1>4, <2>2, <2>3, <3>1, <3>2, <4>1
    <3>3. CASE j # size + 1
      <4>1. j \in 1 .. size
        BY <1>4, <3>3
      <4>2. j - 1 # size
        BY <1>4, <4>1
      <4>3. Distance(Ahead(tail, j - 1)) = j - 1 /\ Distance(head) = size
        BY <1>1, <1>4, <1>6, <4>1
      <4>4. Ahead(tail, j - 1) # head /\ Ahead(tail, j - 1) \in Indices
        BY <1>1, <4>1, <4>2, <4>3
      <4> QED
        BY <1>1, <1>4, <2>3, <3>1, <4>1, <4>4
    <3> QED
      BY <3>2, <3>3
  <2>5. Contents' = q
    BY <1>3, <2>1, <2>3, <2>4, SeqEqual
  <2> QED
    BY <1>1, <1>4, <1>6, <2>1, <2>5 DEF LQ!Put, LQ!Overflows, q
<1> QED
  BY <1>5, <1>6

\* get_batch: the caller has the oldest items, as many as it asked for when
\* there are as many, and the rest stays in order.
LEMMA PopMaps ==
  ASSUME TypeOK, RingShape, NEW c \in Consumers, NEW n \in Nat, Pop(c, n)
  PROVE  LQ!Take(c, n)
<1> DEFINE k == Taken(n)
           out == [j \in 1 .. k |-> slots[Ahead(tail, j - 1)]]
<1>1. /\ Contents \in Seq(Items) /\ Len(Contents) = size
      /\ \A j \in 1 .. size :
           /\ Contents[j] = slots[Ahead(tail, j - 1)]
           /\ Ahead(tail, j - 1) \in Indices /\ Distance(Ahead(tail, j - 1)) = j - 1
  BY ContentsProperties
<1>2. TypeOK' /\ RingShape'
  BY PopKeepsRing
<1>3. /\ Contents' \in Seq(Items) /\ Len(Contents') = size'
      /\ \A j \in 1 .. size' : Contents'[j] = slots'[Ahead(tail', j - 1)]
  <2>1. ContentsOK'
    BY <1>2, ContentsAreOK, PTL
  <2> QED
    BY <2>1 DEF ContentsOK
<1>4. /\ size > 0 \/ closed
      /\ slots' = [i \in Indices |-> IF i \in Oldest(k) THEN NoItem ELSE slots[i]]
      /\ tail' = Ahead(tail, k) /\ size' = size - k
      /\ batch' = [batch EXCEPT ![c] = out]
      /\ UNCHANGED <<closed, dropped, enqueued>>
  BY DEF Pop, Ready
<1>5. /\ k = IF n < size THEN n ELSE size
      /\ size \in Nat /\ k \in Nat /\ k <= size /\ size <= Capacity /\ tail \in Indices
  BY CapacityAssumption DEF Taken, TypeOK
<1> HIDE DEF k
<1>6. out = SubSeq(Contents, 1, k)
  <2>1. /\ SubSeq(Contents, 1, k) \in Seq(Items) /\ Len(SubSeq(Contents, 1, k)) = k
        /\ \A i \in 1 .. k : SubSeq(Contents, 1, k)[i] = Contents[i]
    <3>1. \A i \in 1 .. k : Contents[i] \in Items
      BY <1>1, <1>5, ElementOfSeq
    <3>2. 1 \in Int /\ k \in Int
      BY <1>5
    <3>3. /\ SubSeq(Contents, 1, k) \in Seq(Items)
          /\ Len(SubSeq(Contents, 1, k)) = IF 1 <= k THEN k - 1 + 1 ELSE 0
          /\ \A i \in 1 .. k - 1 + 1 : SubSeq(Contents, 1, k)[i] = Contents[1 + i - 1]
      BY <3>1, <3>2, SubSeqProperties
    <3>4. Len(SubSeq(Contents, 1, k)) = k /\ k - 1 + 1 = k
      BY <1>5, <3>3
    <3>5. \A i \in 1 .. k : 1 + i - 1 = i
      BY <1>5
    <3> QED
      BY <3>3, <3>4, <3>5
  <2>2. \A j \in 1 .. k : out[j] = Contents[j]
    BY <1>1, <1>5
  <2>3. out \in [1 .. k -> Items]
    <3>1. \A j \in 1 .. k : Contents[j] \in Items
      BY <1>1, <1>5, ElementOfSeq
    <3> QED
      BY <2>2, <3>1
  <2>4. out \in Seq(Items)
    BY <1>5, <2>3, SeqDef
  <2>5. Len(out) = k
    BY <1>5, <2>4, LenProperties
  <2> HIDE DEF out
  <2> QED
    BY <2>1, <2>2, <2>4, <2>5, SeqEqual
<1> HIDE DEF out
<1>7. Contents' = SubSeq(Contents, k + 1, size)
  <2> DEFINE rest == SubSeq(Contents, k + 1, size)
  <2>1. /\ rest \in Seq(Items) /\ Len(rest) = size - k
        /\ \A i \in 1 .. size - k : rest[i] = Contents[k + i]
    <3>1. \A i \in k + 1 .. size : Contents[i] \in Items
      BY <1>1, <1>5, ElementOfSeq
    <3>2. k + 1 \in Int /\ size \in Int
      BY <1>5
    <3>3. /\ rest \in Seq(Items)
          /\ Len(rest) = IF k + 1 <= size THEN size - (k + 1) + 1 ELSE 0
          /\ \A i \in 1 .. size - (k + 1) + 1 : rest[i] = Contents[k + 1 + i - 1]
      BY <3>1, <3>2, SubSeqProperties
    <3>4. Len(rest) = size - k /\ size - (k + 1) + 1 = size - k
      BY <1>5, <3>3
    <3>5. \A i \in 1 .. size - k : k + 1 + i - 1 = k + i
      BY <1>5
    <3> HIDE DEF rest
    <3> QED
      BY <3>3, <3>4, <3>5
  <2> HIDE DEF rest
  <2>2. ASSUME NEW j \in 1 .. size - k PROVE Contents'[j] = rest[j]
    <3>1. /\ j - 1 \in 0 .. Capacity /\ k \in 0 .. Capacity /\ k + (j - 1) <= Capacity
          /\ k + j \in 1 .. size /\ k + (j - 1) = (k + j) - 1
      BY <1>5, CapacityAssumption
    <3>2. Ahead(tail', j - 1) = Ahead(tail, (k + j) - 1)
      BY <1>4, <1>5, <3>1, AheadAdds
    <3>3. /\ Contents[k + j] = slots[Ahead(tail, (k + j) - 1)]
          /\ Ahead(tail, (k + j) - 1) \in Indices
          /\ Distance(Ahead(tail, (k + j) - 1)) = (k + j) - 1
      BY <1>1, <3>1
    <3>4. Ahead(tail, (k + j) - 1) \notin Oldest(k)
      <4>1. ~((k + j) - 1 < k)
        BY <1>5
      <4> QED
        BY <1>5, <3>1, <3>3, <4>1, OldestAreClose
    <3>5. Contents'[j] = slots'[Ahead(tail, (k + j) - 1)]
      BY <1>3, <1>4, <3>2
    <3>6. slots'[Ahead(tail, (k + j) - 1)] = slots[Ahead(tail, (k + j) - 1)]
      BY <1>4, <3>3, <3>4
    <3> QED
      BY <2>1, <3>3, <3>5, <3>6
  <2>3. Contents' = rest
    BY <1>3, <1>4, <2>1, <2>2, SeqEqual
  <2> QED
    BY <2>3 DEF rest
<1>8. Contents # <<>> \/ closed
  BY <1>1, <1>4, <1>5, EmptySeq
<1> QED
  BY <1>1, <1>4, <1>5, <1>6, <1>7, <1>8 DEF LQ!Take

\* What a consumer inside get_batch brought with it: the size of the batch it
\* asked for, and a timeout if it gave up waiting.
CallsOK ==
  \A c \in Consumers :
    /\ phase[c] = "waiting" => want[c] \in BatchSizes
    /\ phase[c] = "expired" => c \in Timed

LEMMA StepCallsOK == TypeOK /\ CallsOK /\ [Next]_vars => CallsOK'
<1> SUFFICES ASSUME TypeOK, CallsOK, [Next]_vars PROVE CallsOK'
  OBVIOUS
<1>1. /\ phase \in [Consumers -> {"out", "waiting", "expired"}]
      /\ want \in [Consumers -> BatchSizes \cup {0}]
  BY DEF TypeOK
<1>2. ASSUME NEW item \in Items, Put(item) PROVE CallsOK'
  BY <1>2 DEF CallsOK, Put, calls
<1>3. ASSUME NEW c \in Consumers, NEW n \in BatchSizes, Sleep(c, n) PROVE CallsOK'
  BY <1>1, <1>3 DEF CallsOK, Sleep
<1>4. ASSUME NEW c \in Consumers, NEW n, Pop(c, n) PROVE CallsOK'
  BY <1>1, <1>4 DEF CallsOK, Pop
<1>5. ASSUME NEW c \in Consumers, Resume(c) PROVE CallsOK'
  <2>1. want[c] \in BatchSizes
    BY <1>5 DEF CallsOK, Resume, Notified
  <2> QED
    BY <1>3, <1>4, <1>5, <2>1 DEF Resume
<1>6. ASSUME NEW c \in Consumers, Expire(c) PROVE CallsOK'
  BY <1>1, <1>6 DEF CallsOK, Expire
<1>7. ASSUME NEW c \in Consumers, ReturnEmpty(c) PROVE CallsOK'
  BY <1>1, <1>7 DEF CallsOK, ReturnEmpty
<1>8. CASE Close
  BY <1>8 DEF CallsOK, Close, calls
<1>9. CASE UNCHANGED vars
  BY <1>9 DEF CallsOK, vars
<1> QED
  BY <1>2, <1>3, <1>4, <1>5, <1>6, <1>7, <1>8, <1>9 DEF Next, GetBatch

\* What leaves the slots and the pointers alone leaves the contents alone.
LEMMA SameContents == ASSUME UNCHANGED ring PROVE Contents' = Contents
BY DEF ring, Contents

LEMMA StepMaps == TypeOK /\ RingShape /\ CallsOK /\ [Next]_vars => [LQ!Next]_(LQ!vars)
<1> SUFFICES ASSUME TypeOK, RingShape, CallsOK, [Next]_vars PROVE [LQ!Next]_(LQ!vars)
  OBVIOUS
<1>1. ASSUME NEW item \in Items, Put(item) PROVE LQ!Next
  BY <1>1, PutMaps DEF LQ!Next
<1>2. ASSUME NEW c \in Consumers, NEW n \in BatchSizes, Pop(c, n) PROVE LQ!Next
  <2>1. n \in Nat
    BY BatchSizesAssumption
  <2>2. LQ!Take(c, n)
    BY <1>2, <2>1, PopMaps
  <2> QED
    BY <2>2 DEF LQ!Next
<1>3. ASSUME NEW c \in Consumers, NEW n, Sleep(c, n) PROVE UNCHANGED LQ!vars
  BY <1>3, SameContents DEF Sleep, LQ!vars
<1>4. ASSUME NEW c \in Consumers, Resume(c) PROVE LQ!Next \/ UNCHANGED LQ!vars
  <2>1. want[c] \in BatchSizes
    BY <1>4 DEF CallsOK, Resume, Notified
  <2> QED
    BY <1>2, <1>3, <1>4, <2>1 DEF Resume
<1>5. ASSUME NEW c \in Consumers, Expire(c) PROVE UNCHANGED LQ!vars
  BY <1>5, SameContents DEF Expire, LQ!vars
<1>6. ASSUME NEW c \in Consumers, ReturnEmpty(c) PROVE LQ!Next
  <2>1. c \in Timed
    BY <1>6 DEF CallsOK, ReturnEmpty
  <2>2. LQ!GiveUp(c)
    BY <1>6, <2>1, SameContents DEF ReturnEmpty, LQ!GiveUp
  <2> QED
    BY <2>2 DEF LQ!Next
<1>7. CASE Close
  <2>1. LQ!Close
    BY <1>7, SameContents DEF Close, calls, LQ!Close
  <2> QED
    BY <2>1 DEF LQ!Next
<1>8. CASE UNCHANGED vars
  <2>1. UNCHANGED ring
    BY <1>8 DEF vars, ring
  <2> QED
    BY <1>8, <2>1, SameContents DEF vars, LQ!vars
<1> QED
  BY <1>1, <1>2, <1>3, <1>4, <1>5, <1>6, <1>7, <1>8 DEF Next, GetBatch

LEMMA InitMaps == Init => LQ!Init
<1> SUFFICES ASSUME Init PROVE LQ!Init
  OBVIOUS
<1>1. Contents = <<>>
  BY DEF Init, Contents
<1> QED
  BY <1>1 DEF Init, LQ!Init

\* Slots, wrapping pointers, a condition variable and timeouts come to a FIFO
\* queue that drops its oldest item when it is full: each put, each get_batch
\* that returns, each timeout and close is one step of that queue, and waiting
\* is none.
THEOREM Implementation == Spec => ImplementsLossyQueue
<1>1. Init => IInv /\ CallsOK /\ LQ!Init
  BY InitIInv, InitMaps DEF Init, CallsOK
<1>2. IInv /\ CallsOK /\ [Next]_vars => IInv' /\ CallsOK'
  BY StepIInv, StepCallsOK DEF IInv
<1>3. IInv /\ CallsOK /\ [Next]_vars => [LQ!Next]_(LQ!vars)
  BY StepMaps DEF IInv
<1> QED
  BY <1>1, <1>2, <1>3, PTL DEF Spec, ImplementsLossyQueue, LQ!Spec
===============================================================================
