------------------------ MODULE CapturePipelineProofs ------------------------
(***************************************************************************)
(* What the pipeline promises about the records between put and the store, *)
(* for every capacity of the ring, batch size, length of the store and     *)
(* number of records.                                                      *)
(***************************************************************************)
EXTENDS CapturePipeline, SequenceTheorems, TLAPS

Records == 1 .. MaxPuts

\* What the writer thread has taken from the ring, and the rows of the store
\* with those that are buffered.
Behind == NewRows \o buffer \o batch
RowsInStore == stored \o buffer

\* What TypeOK leaves open: the rows after the initial ones are records, and
\* a put that is half done has made room.
MoreTypes ==
  /\ Len(stored) >= InitialRows
  /\ NewRows \in Seq(Records)
  /\ putting => Len(queue) < Capacity
  /\ index \in Seq([record : Records, row : Nat])

\* Records are numbered as they are put: along a sequence the numbers increase,
\* and none is beyond n.
Ordered(s, n) ==
  /\ \A i, j \in 1 .. Len(s) : i < j => s[i] < s[j]
  /\ \A i \in 1 .. Len(s) : s[i] <= n

\* All that is said of the records' places.
RecordsInPlace ==
  /\ MoreTypes
  /\ DropsAccountForLosses
  /\ Ordered(Trail, enqueued)
  /\ IndexNamesTheRow

\* A batch is held from the moment it is taken until its last record is
\* appended; the thread leaves its loop only from a closed and empty ring.
ExitProgress ==
  /\ pc \notin {"append", "dead"} => batch = <<>>
  /\ pc \in {"testEmpty", "close", "done"} => closed
  /\ pc \in {"close", "done"} => queue = <<>>
  /\ pc = "done" => buffer = <<>>

\* The counters of the writer agree with what it has appended.  A record
\* whose flush raised is not counted.
CountersAgree ==
  /\ written \in Nat
  /\ nextRow = InitialRows + written
  /\ Len(index) = written
  /\ pc # "dead" => Len(RowsInStore) = InitialRows + written

\* The locals of _adapt: what it is about to log was dropped after the last
\* baseline and before the next one.
AdaptProgress ==
  /\ loggedDrops <= lastDropped /\ lastDropped <= dropped
  /\ pc \in {"readEnqueued", "rereadDropped"} => lastDropped + newDrops <= dropped
  /\ pc = "adapt" => lastDropped + newDrops <= seenDropped /\ seenDropped <= dropped

IInv == TypeOK /\ RecordsInPlace /\ ExitProgress /\ CountersAgree /\ AdaptProgress

-------------------------------------------------------------------------------
(* Sequences.                                                                *)

LEMMA Regroup ==
  ASSUME NEW S, NEW s \in Seq(S), NEW t \in Seq(S), NEW u \in Seq(S)
  PROVE  (s \o t) \o u = s \o (t \o u)
OBVIOUS

\* The part of a sequence behind its first n elements grows with it.
LEMMA SuffixGrows ==
  ASSUME NEW S, NEW s \in Seq(S), NEW t \in Seq(S), NEW n \in 0 .. Len(s)
  PROVE  SubSeq(s \o t, n + 1, Len(s \o t)) = SubSeq(s, n + 1, Len(s)) \o t
<1> DEFINE u == s \o t
           v == SubSeq(u, n + 1, Len(u))
           w == SubSeq(s, n + 1, Len(s))
<1>1. Len(s) \in Nat /\ Len(t) \in Nat
  BY LenProperties
<1>2. /\ u \in Seq(S) /\ Len(u) = Len(s) + Len(t)
      /\ \A i \in 1 .. Len(s) + Len(t) : u[i] = IF i <= Len(s) THEN s[i] ELSE t[i - Len(s)]
  BY ConcatProperties
<1>3. \A i \in 1 .. Len(u) : u[i] \in S
  BY <1>2, ElementOfSeq
<1>4. \A i \in 1 .. Len(s) : s[i] \in S
  BY ElementOfSeq
<1> HIDE DEF u
<1>5. /\ v \in Seq(S)
      /\ Len(v) = Len(s) + Len(t) - n
      /\ \A i \in 1 .. Len(s) + Len(t) - n : v[i] = u[n + i]
  <2>1. n + 1 \in Int /\ Len(u) \in Int /\ n \in Int
    BY <1>1, <1>2
  <2>2. \A i \in n + 1 .. Len(u) : u[i] \in S
    BY <1>1, <1>2, <1>3
  <2>3. /\ v \in Seq(S)
        /\ Len(v) = IF n + 1 <= Len(u) THEN Len(u) - (n + 1) + 1 ELSE 0
        /\ \A i \in 1 .. Len(u) - (n + 1) + 1 : v[i] = u[(n + 1) + i - 1]
    BY <2>1, <2>2, SubSeqProperties
  <2> QED
    BY <1>1, <1>2, <2>3
<1>6. /\ w \in Seq(S)
      /\ Len(w) = Len(s) - n
      /\ \A i \in 1 .. Len(s) - n : w[i] = s[n + i]
  <2>1. n + 1 \in Int /\ Len(s) \in Int /\ n \in Int
    BY <1>1
  <2>2. \A i \in n + 1 .. Len(s) : s[i] \in S
    BY <1>1, <1>4
  <2>3. /\ w \in Seq(S)
        /\ Len(w) = IF n + 1 <= Len(s) THEN Len(s) - (n + 1) + 1 ELSE 0
        /\ \A i \in 1 .. Len(s) - (n + 1) + 1 : w[i] = s[(n + 1) + i - 1]
    BY <2>1, <2>2, SubSeqProperties
  <2> QED
    BY <1>1, <2>3
<1> HIDE DEF v, w
<1>7. /\ w \o t \in Seq(S) /\ Len(w \o t) = Len(w) + Len(t)
      /\ \A i \in 1 .. Len(w) + Len(t) : (w \o t)[i] = IF i <= Len(w) THEN w[i] ELSE t[i - Len(w)]
  BY <1>6, ConcatProperties
<1>8. ASSUME NEW i \in 1 .. Len(v) PROVE v[i] = (w \o t)[i]
  <2>1. /\ i \in 1 .. Len(s) + Len(t) - n /\ i \in 1 .. Len(w) + Len(t)
        /\ n + i \in 1 .. Len(s) + Len(t)
    BY <1>1, <1>5, <1>6
  <2>2. v[i] = IF n + i <= Len(s) THEN s[n + i] ELSE t[n + i - Len(s)]
    BY <1>2, <1>5, <2>1
  <2>3. CASE i <= Len(w)
    BY <1>1, <1>6, <1>7, <2>1, <2>2, <2>3
  <2>4. CASE ~(i <= Len(w))
    <3>1. ~(n + i <= Len(s)) /\ n + i - Len(s) = i - Len(w)
      BY <1>1, <1>6, <2>1, <2>4
    <3> QED
      BY <1>7, <2>1, <2>2, <2>4, <3>1
  <2> QED
    BY <2>3, <2>4
<1>9. Len(v) = Len(w \o t)
  BY <1>1, <1>5, <1>6, <1>7
<1>10. v = w \o t
  BY <1>5, <1>7, <1>8, <1>9, SeqEqual
<1> QED
  BY <1>10 DEF u, v, w

\* The head of a batch goes over to the buffer, and nothing else moves.
LEMMA HandOver ==
  ASSUME NEW S, NEW s \in Seq(S), NEW t \in Seq(S), t # <<>>
  PROVE  /\ Append(s, Head(t)) \in Seq(S) /\ Tail(t) \in Seq(S) /\ Head(t) \in S
         /\ Append(s, Head(t)) \o Tail(t) = s \o t
<1>1. /\ Head(t) \in S /\ Tail(t) \in Seq(S) /\ Len(Tail(t)) = Len(t) - 1
      /\ \A i \in 1 .. Len(Tail(t)) : Tail(t)[i] = t[i + 1]
  BY HeadTailProperties
<1>2. Len(s) \in Nat /\ Len(t) \in Nat /\ Len(t) # 0
  BY LenProperties, EmptySeq
<1> DEFINE a == Append(s, Head(t))
           b == Tail(t)
<1>3. /\ a \in Seq(S) /\ Len(a) = Len(s) + 1
      /\ \A i \in 1 .. Len(s) : a[i] = s[i]
      /\ a[Len(s) + 1] = t[1]
  BY <1>1, <1>2, AppendProperties
<1> HIDE DEF a
<1>4. b \in Seq(S) /\ Len(b) = Len(t) - 1 /\ \A i \in 1 .. Len(t) - 1 : b[i] = t[i + 1]
  BY <1>1
<1> HIDE DEF b
<1>5. /\ a \o b \in Seq(S) /\ Len(a \o b) = Len(a) + Len(b)
      /\ \A i \in 1 .. Len(a) + Len(b) : (a \o b)[i] = IF i <= Len(a) THEN a[i] ELSE b[i - Len(a)]
  BY <1>3, <1>4, ConcatProperties
<1>6. /\ s \o t \in Seq(S) /\ Len(s \o t) = Len(s) + Len(t)
      /\ \A i \in 1 .. Len(s) + Len(t) : (s \o t)[i] = IF i <= Len(s) THEN s[i] ELSE t[i - Len(s)]
  BY ConcatProperties
<1>7. Len(a \o b) = Len(s \o t)
  BY <1>2, <1>3, <1>4, <1>5, <1>6
<1>8. ASSUME NEW i \in 1 .. Len(a \o b) PROVE (a \o b)[i] = (s \o t)[i]
  <2>1. i \in 1 .. Len(a) + Len(b) /\ i \in 1 .. Len(s) + Len(t) /\ i \in Nat
    BY <1>2, <1>5, <1>6, <1>7
  <2>2. CASE i <= Len(s)
    BY <1>2, <1>3, <1>5, <1>6, <2>1, <2>2
  <2>3. CASE i = Len(s) + 1
    <3>1. (a \o b)[i] = t[1]
      BY <1>2, <1>3, <1>5, <2>1, <2>3
    <3>2. i - Len(s) = 1 /\ ~(i <= Len(s))
      BY <1>2, <2>3
    <3> QED
      BY <1>6, <2>1, <3>1, <3>2
  <2>4. CASE i > Len(s) + 1
    <3>1. /\ ~(i <= Len(a)) /\ ~(i <= Len(s))
          /\ i - Len(a) \in 1 .. Len(t) - 1 /\ (i - Len(a)) + 1 = i - Len(s)
      BY <1>2, <1>3, <1>4, <2>1, <2>4
    <3>2. (a \o b)[i] = b[i - Len(a)]
      BY <1>5, <2>1, <3>1
    <3>3. b[i - Len(a)] = t[(i - Len(a)) + 1]
      BY <1>4, <3>1
    <3> QED
      BY <1>6, <2>1, <3>1, <3>2, <3>3
  <2> QED
    BY <1>2, <2>1, <2>2, <2>3, <2>4
<1>9. a \o b = s \o t
  BY <1>5, <1>6, <1>7, <1>8, SeqEqual
<1> QED
  BY <1>1, <1>3, <1>9 DEF a, b

\* An ordered sequence stays so when one of its elements is left out ...
LEMMA OrderedWithout ==
  ASSUME NEW s \in Seq(Records), NEW t \in Seq(Records), t # <<>>, NEW n \in Nat,
         Ordered(s \o t, n)
  PROVE  /\ Tail(t) \in Seq(Records)
         /\ Len(s \o Tail(t)) = Len(s \o t) - 1
         /\ Ordered(s \o Tail(t), n)
<1> DEFINE b == Tail(t)
           u == s \o t
           v == s \o b
           at(i) == IF i <= Len(s) THEN i ELSE i + 1
<1>1. /\ b \in Seq(Records) /\ Len(b) = Len(t) - 1
      /\ \A i \in 1 .. Len(b) : b[i] = t[i + 1]
  BY HeadTailProperties
<1>2. Len(s) \in Nat /\ Len(t) \in Nat /\ Len(t) # 0
  BY LenProperties, EmptySeq
<1> HIDE DEF b
<1>3. /\ Len(u) = Len(s) + Len(t)
      /\ \A i \in 1 .. Len(s) + Len(t) : u[i] = IF i <= Len(s) THEN s[i] ELSE t[i - Len(s)]
  BY ConcatProperties
<1>4. /\ Len(v) = Len(s) + Len(b)
      /\ \A i \in 1 .. Len(s) + Len(b) : v[i] = IF i <= Len(s) THEN s[i] ELSE b[i - Len(s)]
  BY <1>1, ConcatProperties
<1>5. Ordered(u, n)
  OBVIOUS
<1> HIDE DEF u, v
<1>6. ASSUME NEW i \in 1 .. Len(v)
      PROVE  at(i) \in 1 .. Len(u) /\ v[i] = u[at(i)]
  <2>1. at(i) \in 1 .. Len(s) + Len(t) /\ i \in 1 .. Len(s) + Len(b)
    BY <1>1, <1>2, <1>4
  <2>2. CASE i <= Len(s)
    BY <1>3, <1>4, <2>1, <2>2
  <2>3. CASE ~(i <= Len(s))
    <3>1. /\ i - Len(s) \in 1 .. Len(b) /\ (i - Len(s)) + 1 = (i + 1) - Len(s)
          /\ ~(i + 1 <= Len(s)) /\ at(i) = i + 1
      BY <1>1, <1>2, <2>1, <2>3
    <3>2. v[i] = t[(i - Len(s)) + 1]
      BY <1>1, <1>4, <2>1, <2>3, <3>1
    <3> QED
      BY <1>3, <2>1, <3>1, <3>2
  <2> QED
    BY <2>2, <2>3
<1>7. ASSUME NEW i \in 1 .. Len(v), NEW j \in 1 .. Len(v), i < j
      PROVE  at(i) < at(j)
  BY <1>1, <1>2, <1>4, <1>7
<1> HIDE DEF at
<1>8. Ordered(v, n)
  BY <1>5, <1>6, <1>7 DEF Ordered
<1>9. Len(v) = Len(u) - 1
  BY <1>1, <1>2, <1>3, <1>4
<1> QED
  BY <1>1, <1>8, <1>9 DEF u, v, b

\* ... and when the next record is put behind it.
LEMMA OrderedWith ==
  ASSUME NEW s \in Seq(Records), NEW t \in Seq(Records), NEW n \in Nat,
         n + 1 \in Records, Ordered(s \o t, n)
  PROVE  /\ Append(t, n + 1) \in Seq(Records)
         /\ Len(s \o Append(t, n + 1)) = Len(s \o t) + 1
         /\ Ordered(s \o Append(t, n + 1), n + 1)
<1> DEFINE b == Append(t, n + 1)
           u == s \o t
           v == s \o b
<1>1. /\ b \in Seq(Records) /\ Len(b) = Len(t) + 1
      /\ \A i \in 1 .. Len(t) : b[i] = t[i]
      /\ b[Len(t) + 1] = n + 1
  BY AppendProperties
<1>2. Len(s) \in Nat /\ Len(t) \in Nat
  BY LenProperties
<1> HIDE DEF b
<1>3. /\ u \in Seq(Records) /\ Len(u) = Len(s) + Len(t)
      /\ \A i \in 1 .. Len(s) + Len(t) : u[i] = IF i <= Len(s) THEN s[i] ELSE t[i - Len(s)]
  BY ConcatProperties
<1>4. /\ Len(v) = Len(s) + Len(b)
      /\ \A i \in 1 .. Len(s) + Len(b) : v[i] = IF i <= Len(s) THEN s[i] ELSE b[i - Len(s)]
  BY <1>1, ConcatProperties
<1>5. Ordered(u, n)
  OBVIOUS
<1>6. \A i \in 1 .. Len(u) : u[i] \in Int
  <2>1. \A i \in 1 .. Len(u) : u[i] \in Records
    BY <1>3, ElementOfSeq
  <2> QED
    BY <2>1 DEF Records
<1> HIDE DEF u, v
<1>7. Len(v) = Len(u) + 1 /\ Len(u) \in Nat
  BY <1>1, <1>2, <1>3, <1>4
<1>8. v[Len(u) + 1] = n + 1
  <2>1. /\ Len(u) + 1 \in 1 .. Len(s) + Len(b) /\ ~(Len(u) + 1 <= Len(s))
        /\ (Len(u) + 1) - Len(s) = Len(t) + 1
    BY <1>1, <1>2, <1>3
  <2> QED
    BY <1>1, <1>4, <2>1
<1>9. ASSUME NEW i \in 1 .. Len(u) PROVE v[i] = u[i]
  <2>1. i \in 1 .. Len(s) + Len(t) /\ i \in 1 .. Len(s) + Len(b)
    BY <1>1, <1>2, <1>3
  <2>2. CASE i <= Len(s)
    BY <1>3, <1>4, <2>1, <2>2
  <2>3. CASE ~(i <= Len(s))
    <3>1. i - Len(s) \in 1 .. Len(t)
      BY <1>2, <2>1, <2>3
    <3> QED
      BY <1>1, <1>3, <1>4, <2>1, <2>3, <3>1
  <2> QED
    BY <2>2, <2>3
<1>10. ASSUME NEW i \in 1 .. Len(v), NEW j \in 1 .. Len(v), i < j
       PROVE  v[i] < v[j]
  <2>1. i \in 1 .. Len(u) /\ u[i] \in Int /\ u[i] <= n
    BY <1>5, <1>6, <1>7, <1>10 DEF Ordered
  <2>2. CASE j \in 1 .. Len(u)
    BY <1>5, <1>9, <1>10, <2>1, <2>2 DEF Ordered
  <2>3. CASE j = Len(u) + 1
    BY <1>8, <1>9, <2>1, <2>3
  <2> QED
    BY <1>7, <2>2, <2>3
<1>11. ASSUME NEW i \in 1 .. Len(v) PROVE v[i] <= n + 1
  <2>1. CASE i \in 1 .. Len(u)
    BY <1>5, <1>6, <1>9, <2>1 DEF Ordered
  <2>2. CASE i = Len(u) + 1
    BY <1>8, <2>2
  <2> QED
    BY <1>7, <2>1, <2>2
<1>12. Ordered(v, n + 1)
  BY <1>10, <1>11 DEF Ordered
<1> QED
  BY <1>1, <1>7, <1>12 DEF u, v, b

-------------------------------------------------------------------------------
(* The records' places.                                                      *)

\* Under the invariant all of these are sequences of records.
LEMMA SequencesOfRecords ==
  ASSUME IInv
  PROVE  /\ queue \in Seq(Records) /\ batch \in Seq(Records) /\ buffer \in Seq(Records)
         /\ NewRows \in Seq(Records)
         /\ NewRows \o buffer \in Seq(Records)
         /\ Behind \in Seq(Records) /\ Trail \in Seq(Records)
         /\ Trail = Behind \o queue
         /\ enqueued \in Nat /\ dropped \in Int
<1>1. /\ queue \in Seq(Records) /\ batch \in Seq(Records) /\ buffer \in Seq(Records)
      /\ NewRows \in Seq(Records)
  BY DEF IInv, TypeOK, RecordsInPlace, MoreTypes, Records
<1>2. NewRows \o buffer \in Seq(Records)
  BY <1>1, ConcatProperties
<1>3. Behind \in Seq(Records)
  BY <1>1, <1>2, ConcatProperties DEF Behind
<1>4. Trail = Behind \o queue
  BY DEF Trail, Behind
<1>5. Trail \in Seq(Records)
  BY <1>1, <1>3, <1>4, ConcatProperties
<1>6. enqueued \in Nat /\ dropped \in Int
  BY RowsAssumption DEF IInv, TypeOK
<1> QED
  BY <1>1, <1>2, <1>3, <1>4, <1>5, <1>6

\* The rows of the store, old and new, and what is buffered behind them.
LEMMA SequencesOfRows ==
  ASSUME IInv
  PROVE  /\ stored \in Seq(0 .. MaxPuts) /\ buffer \in Seq(0 .. MaxPuts)
         /\ RowsInStore \in Seq(0 .. MaxPuts)
         /\ Len(RowsInStore) = Len(stored) + Len(buffer)
         /\ Len(stored) \in Nat /\ Len(buffer) \in Nat
         /\ Records \subseteq 0 .. MaxPuts
<1>1. Records \subseteq 0 .. MaxPuts
  BY RowsAssumption DEF Records
<1>2. buffer \in Seq(Records) /\ stored \in Seq(0 .. MaxPuts)
  BY DEF IInv, TypeOK, Records
<1>3. buffer \in Seq(0 .. MaxPuts)
  BY <1>1, <1>2, SeqMonotonic
<1> QED
  BY <1>1, <1>2, <1>3, ConcatProperties, LenProperties DEF RowsInStore

\* A step that touches neither the ring, nor the batch, nor the store.
LEMMA SamePlaces ==
  ASSUME RecordsInPlace,
         UNCHANGED <<queue, dropped, enqueued, putting, batch, buffer, stored, index>>
  PROVE  RecordsInPlace'
<1>1. NewRows' = NewRows
  BY DEF NewRows
<1>2. Trail' = Trail
  BY <1>1 DEF Trail
<1>3. MoreTypes'
  BY <1>1 DEF RecordsInPlace, MoreTypes
<1>4. DropsAccountForLosses' /\ Ordered(Trail, enqueued)'
  BY <1>2 DEF RecordsInPlace, DropsAccountForLosses, Ordered
<1>5. IndexNamesTheRow'
  BY DEF RecordsInPlace, IndexNamesTheRow
<1> QED
  BY <1>3, <1>4, <1>5 DEF RecordsInPlace

\* batch_size stays a positive number.
LEMMA BatchSizeType == AdaptTypes => batchSize \in Nat \ {0}
BY BatchAssumption DEF AdaptTypes

\* A step that leaves the variables of _adapt alone, and either stays where it is
\* or starts outside it.
LEMMA SameAdaptTypes ==
  ASSUME TypeOK,
         UNCHANGED <<batchSize, lastDropped, lastEnqueued, newDrops, newPuts, seenDropped,
                     loggedDrops>>,
         enqueued' \in {enqueued, enqueued + 1},
         pc' = pc \/ pc \notin {"readEnqueued", "rereadDropped", "adapt"}
  PROVE  AdaptTypes'
<1>1. enqueued \in Nat
  BY RowsAssumption DEF TypeOK
<1> QED
  BY <1>1 DEF TypeOK, AdaptTypes

-------------------------------------------------------------------------------
(* One lemma per action of the producer.                                     *)

\* put makes room: the trail loses the oldest record of the ring, which is
\* counted in the same step.
LEMMA PutDropsOldestKeeps == IInv /\ PutDropsOldest => IInv'
<1> SUFFICES ASSUME IInv, PutDropsOldest PROVE IInv'
  OBVIOUS
<1>1. /\ queue' = Tail(queue) /\ dropped' = dropped + 1 /\ putting' = TRUE /\ ~closed
      /\ UNCHANGED <<closed, enqueued, pc, batch, buffer, stored, index, nextRow, written>>
      /\ UNCHANGED <<batchSize, lastDropped, lastEnqueued, newDrops, newPuts, seenDropped,
                     loggedDrops>>
  BY DEF PutDropsOldest, CountDrop, storeVars, adaptVars
<1>2. Len(queue) = Capacity /\ queue # <<>>
  BY CapacityAssumption, EmptySeq DEF PutDropsOldest, Full
<1>3. /\ Behind \in Seq(Records) /\ queue \in Seq(Records) /\ Trail = Behind \o queue
      /\ enqueued \in Nat /\ dropped \in Int
      /\ Ordered(Behind \o queue, enqueued)
  BY SequencesOfRecords DEF IInv, RecordsInPlace
<1>4. /\ Tail(queue) \in Seq(Records)
      /\ Len(Behind \o Tail(queue)) = Len(Behind \o queue) - 1
      /\ Ordered(Behind \o Tail(queue), enqueued)
  BY <1>2, <1>3, OrderedWithout
<1>5. Len(queue') = Capacity - 1 /\ Len(queue') < Capacity
  BY <1>1, <1>2, <1>3, CapacityAssumption, HeadTailProperties
<1>6. Trail' = Behind \o Tail(queue)
  BY <1>1 DEF Trail, Behind, NewRows
<1>7. Len(Trail') = enqueued' - dropped' /\ Len(Trail') \in Nat
  <2>1. Len(Trail) = enqueued - dropped
    BY DEF IInv, RecordsInPlace, DropsAccountForLosses
  <2>2. Behind \o Tail(queue) \in Seq(Records)
    BY <1>3, <1>4, ConcatProperties
  <2>3. Len(Trail') \in Nat
    BY <1>6, <2>2, LenProperties
  <2> QED
    BY <1>1, <1>3, <1>4, <1>6, <2>1, <2>3
<1>8. RecordsInPlace'
  <2>1. MoreTypes'
    BY <1>1, <1>5 DEF IInv, RecordsInPlace, MoreTypes, NewRows
  <2>2. Ordered(Trail, enqueued)'
    BY <1>1, <1>4, <1>6 DEF Ordered
  <2>3. IndexNamesTheRow'
    BY <1>1 DEF IInv, RecordsInPlace, IndexNamesTheRow
  <2> QED
    BY <1>7, <2>1, <2>2, <2>3 DEF RecordsInPlace, DropsAccountForLosses
<1>9. TypeOK'
  <2>1. dropped' \in 0 .. enqueued' + 1
    <3>1. dropped >= 0
      BY DEF IInv, TypeOK
    <3> QED
      BY <1>1, <1>3, <1>7, <3>1
  <2>2. queue' \in Seq(1 .. MaxPuts) /\ Len(queue') <= Capacity
    BY <1>1, <1>4, <1>5, CapacityAssumption DEF Records
  <2>3. AdaptTypes'
    BY <1>1, SameAdaptTypes DEF IInv
  <2> QED
    BY <1>1, <2>1, <2>2, <2>3 DEF IInv, TypeOK
<1>10. ExitProgress' /\ CountersAgree' /\ AdaptProgress'
  <2>1. ExitProgress'
    BY <1>1 DEF IInv, ExitProgress
  <2>2. CountersAgree'
    BY <1>1 DEF IInv, CountersAgree, RowsInStore
  <2>3. AdaptProgress'
    BY <1>1, <1>3 DEF IInv, TypeOK, AdaptTypes, AdaptProgress
  <2> QED
    BY <2>1, <2>2, <2>3
<1> QED
  BY <1>8, <1>9, <1>10 DEF IInv

\* put stores the new record: the trail grows by the number after the last.
LEMMA PutKeeps == IInv /\ Put => IInv'
<1> SUFFICES ASSUME IInv, Put PROVE IInv'
  OBVIOUS
<1>1. /\ queue' = Append(queue, enqueued + 1) /\ enqueued' = enqueued + 1
      /\ putting' = FALSE /\ ~closed /\ enqueued < MaxPuts
      /\ UNCHANGED <<closed, dropped, pc, batch, buffer, stored, index, nextRow, written>>
      /\ UNCHANGED <<batchSize, lastDropped, lastEnqueued, newDrops, newPuts, seenDropped,
                     loggedDrops>>
  BY DEF Put, storeVars, adaptVars
<1>2. Len(queue) < Capacity /\ Len(queue) \in Nat
  <2>1. Len(queue) <= Capacity /\ Len(queue) \in Nat /\ putting \in BOOLEAN
    BY LenProperties DEF IInv, TypeOK
  <2>2. CASE putting
    BY <2>1, <2>2 DEF IInv, RecordsInPlace, MoreTypes
  <2>3. CASE ~Full
    BY <2>1, <2>3, CapacityAssumption DEF Full
  <2> QED
    BY <2>1, <2>2, <2>3 DEF Put
<1>3. /\ Behind \in Seq(Records) /\ queue \in Seq(Records) /\ Trail = Behind \o queue
      /\ enqueued \in Nat /\ dropped \in Int
      /\ Ordered(Behind \o queue, enqueued)
  BY SequencesOfRecords DEF IInv, RecordsInPlace
<1>4. enqueued + 1 \in Records
  BY <1>1, <1>3, RowsAssumption DEF Records
<1>5. /\ Append(queue, enqueued + 1) \in Seq(Records)
      /\ Len(Behind \o Append(queue, enqueued + 1)) = Len(Behind \o queue) + 1
      /\ Ordered(Behind \o Append(queue, enqueued + 1), enqueued + 1)
  BY <1>3, <1>4, OrderedWith
<1>6. Trail' = Behind \o Append(queue, enqueued + 1)
  BY <1>1 DEF Trail, Behind, NewRows
<1>7. RecordsInPlace'
  <2>1. MoreTypes'
    BY <1>1 DEF IInv, RecordsInPlace, MoreTypes, NewRows
  <2>2. Ordered(Trail, enqueued)'
    BY <1>1, <1>5, <1>6 DEF Ordered
  <2>3. IndexNamesTheRow'
    BY <1>1 DEF IInv, RecordsInPlace, IndexNamesTheRow
  <2>4. DropsAccountForLosses'
    BY <1>1, <1>3, <1>5, <1>6 DEF IInv, RecordsInPlace, DropsAccountForLosses
  <2> QED
    BY <2>1, <2>2, <2>3, <2>4 DEF RecordsInPlace
<1>8. TypeOK'
  <2>1. dropped' \in 0 .. enqueued' + 1 /\ enqueued' \in 0 .. MaxPuts
    BY <1>1, <1>3, RowsAssumption DEF IInv, TypeOK
  <2>2. queue' \in Seq(1 .. MaxPuts) /\ Len(queue') <= Capacity
    <3>1. Len(queue') = Len(queue) + 1
      BY <1>1, <1>3, <1>4, AppendProperties
    <3> QED
      BY <1>1, <1>2, <1>5, <3>1, CapacityAssumption DEF Records
  <2>3. AdaptTypes'
    BY <1>1, SameAdaptTypes DEF IInv
  <2> QED
    BY <1>1, <2>1, <2>2, <2>3 DEF IInv, TypeOK
<1>9. ExitProgress' /\ CountersAgree' /\ AdaptProgress'
  <2>1. ExitProgress'
    BY <1>1 DEF IInv, ExitProgress
  <2>2. CountersAgree'
    BY <1>1 DEF IInv, CountersAgree, RowsInStore
  <2>3. AdaptProgress'
    BY <1>1 DEF IInv, AdaptProgress
  <2> QED
    BY <2>1, <2>2, <2>3
<1> QED
  BY <1>7, <1>8, <1>9 DEF IInv

LEMMA CloseKeeps == IInv /\ Close => IInv'
<1> SUFFICES ASSUME IInv, Close PROVE IInv'
  OBVIOUS
<1>1. /\ closed' = TRUE
      /\ UNCHANGED <<queue, dropped, enqueued, putting, pc, batch, buffer, stored, index,
                     nextRow, written>>
      /\ UNCHANGED <<batchSize, lastDropped, lastEnqueued, newDrops, newPuts, seenDropped,
                     loggedDrops>>
  BY DEF Close, storeVars, adaptVars
<1>2. RecordsInPlace'
  BY <1>1, SamePlaces DEF IInv
<1>3. TypeOK'
  <2>1. AdaptTypes'
    BY <1>1, SameAdaptTypes DEF IInv
  <2> QED
    BY <1>1, <2>1 DEF IInv, TypeOK
<1>4. ExitProgress' /\ CountersAgree' /\ AdaptProgress'
  BY <1>1 DEF IInv, ExitProgress, CountersAgree, RowsInStore, AdaptProgress
<1> QED
  BY <1>2, <1>3, <1>4 DEF IInv

-------------------------------------------------------------------------------
(* One lemma per action of the writer thread, or per group that does alike.  *)

\* A step that moves records along, and loses or adds none, keeps the trail.
LEMMA SameTrail ==
  ASSUME RecordsInPlace, Trail' = Trail, MoreTypes', IndexNamesTheRow',
         UNCHANGED <<dropped, enqueued>>
  PROVE  RecordsInPlace'
BY DEF RecordsInPlace, DropsAccountForLosses, Ordered

\* The batch is the front of the ring.
LEMMA TakeBatchKeeps == IInv /\ TakeBatch => IInv'
<1> SUFFICES ASSUME IInv, TakeBatch PROVE IInv'
  OBVIOUS
<1> DEFINE k == IF batchSize < Len(queue) THEN batchSize ELSE Len(queue)
<1>1. /\ pc \in {"get", "waiting"} /\ ~putting /\ queue # <<>>
      /\ batch' = SubSeq(queue, 1, k) /\ queue' = SubSeq(queue, k + 1, Len(queue))
      /\ pc' = "append"
      /\ UNCHANGED <<closed, dropped, enqueued, putting, buffer, stored, index, nextRow,
                     written>>
      /\ UNCHANGED <<batchSize, lastDropped, lastEnqueued, newDrops, newPuts, seenDropped,
                     loggedDrops>>
  BY DEF TakeBatch, Locked, OldestFirst, storeVars, adaptVars
<1>2. /\ queue \in Seq(Records) /\ NewRows \o buffer \in Seq(Records)
      /\ Trail = Behind \o queue
  BY SequencesOfRecords
<1>3. Len(queue) \in Nat /\ Len(queue) # 0
  BY <1>1, <1>2, LenProperties, EmptySeq
<1>4. k \in 1 .. Len(queue)
  BY <1>3, BatchSizeType DEF IInv, TypeOK
<1> HIDE DEF k
<1>5. \A i \in 1 .. Len(queue) : queue[i] \in Records
  BY <1>2, ElementOfSeq
<1>6. batch' \in Seq(Records) /\ Len(batch') = k
  <2>1. k \in Int /\ 1 \in Int /\ \A i \in 1 .. k : queue[i] \in Records
    BY <1>3, <1>4, <1>5
  <2> QED
    BY <1>1, <1>4, <2>1, SubSeqProperties
<1>7. queue' \in Seq(Records) /\ Len(queue') = Len(queue) - k
  <2>1. /\ k + 1 \in Int /\ Len(queue) \in Int
        /\ \A i \in k + 1 .. Len(queue) : queue[i] \in Records
    BY <1>3, <1>4, <1>5
  <2>2. /\ queue' \in Seq(Records)
        /\ Len(queue') = IF k + 1 <= Len(queue) THEN Len(queue) - (k + 1) + 1 ELSE 0
    BY <1>1, <2>1, SubSeqProperties
  <2> QED
    BY <1>3, <1>4, <2>2
<1>8. batch' \o queue' = queue
  <2>1. /\ 1 \in 1 .. Len(queue) + 1 /\ k \in 1 - 1 .. Len(queue)
        /\ Len(queue) \in k .. Len(queue)
    BY <1>3, <1>4
  <2>2. SubSeq(queue, 1, k) \o SubSeq(queue, k + 1, Len(queue)) = SubSeq(queue, 1, Len(queue))
    BY <1>2, <2>1, ConcatAdjacentSubSeq
  <2> QED
    BY <1>1, <1>2, <2>2, SubSeqFull
<1>9. batch = <<>>
  BY <1>1 DEF IInv, ExitProgress
<1>10. Trail' = Trail
  <2>1. Trail' = ((NewRows \o buffer) \o batch') \o queue'
    BY <1>1 DEF Trail, NewRows
  <2>2. Trail = (NewRows \o buffer) \o queue
    BY <1>2, <1>9, ConcatEmptySeq DEF Trail
  <2>3. ((NewRows \o buffer) \o batch') \o queue' = (NewRows \o buffer) \o (batch' \o queue')
    <3>1. NewRows \o buffer \in Seq(Records) /\ batch' \in Seq(Records) /\ queue' \in Seq(Records)
      BY <1>2, <1>6, <1>7
    <3>2. \A s, t, u \in Seq(Records) : (s \o t) \o u = s \o (t \o u)
      BY Regroup
    <3> QED
      BY <3>1, <3>2, Zenon
  <2> QED
    BY <1>8, <2>1, <2>2, <2>3
<1>11. RecordsInPlace'
  <2>1. MoreTypes'
    BY <1>1 DEF IInv, RecordsInPlace, MoreTypes, NewRows
  <2>2. IndexNamesTheRow'
    BY <1>1 DEF IInv, RecordsInPlace, IndexNamesTheRow
  <2> QED
    BY <1>1, <1>10, <2>1, <2>2, SameTrail DEF IInv
<1>12. TypeOK'
  <2>1. batch' # <<>>
    BY <1>4, <1>6, EmptySeq
  <2>2. Len(queue') <= Capacity
    BY <1>3, <1>4, <1>7, CapacityAssumption DEF IInv, TypeOK
  <2>3. batch' \in Seq(1 .. MaxPuts) /\ queue' \in Seq(1 .. MaxPuts)
    BY <1>6, <1>7 DEF Records
  <2>4. AdaptTypes'
    BY <1>1, SameAdaptTypes DEF IInv
  <2> QED
    BY <1>1, <2>1, <2>2, <2>3, <2>4 DEF IInv, TypeOK
<1>13. ExitProgress' /\ CountersAgree' /\ AdaptProgress'
  BY <1>1 DEF IInv, ExitProgress, CountersAgree, RowsInStore, AdaptProgress
<1> QED
  BY <1>11, <1>12, <1>13 DEF IInv

\* The head of the batch is appended; the buffer may go to the store with it.
AppendsHead ==
  LET rows == Append(buffer, Head(batch))
  IN  /\ \/ stored' = stored /\ buffer' = rows
         \/ stored' = stored \o rows /\ buffer' = <<>>
      /\ batch' = Tail(batch)
      /\ UNCHANGED queue

\* Either way the record is the next row, and the trail is what it was.
LEMMA AppendKeepsPlaces ==
  ASSUME IInv, pc = "append", AppendsHead
  PROVE  /\ batch' \in Seq(Records) /\ Head(batch) \in Records
         /\ Len(batch') = Len(batch) - 1
         /\ stored' \in Seq(0 .. MaxPuts) /\ buffer' \in Seq(Records)
         /\ \/ buffer' = <<>>
            \/ Len(buffer') = Len(buffer) + 1 /\ buffer' = Append(buffer, Head(batch))
         /\ Len(stored') >= InitialRows /\ NewRows' \in Seq(Records)
         /\ Trail' = Trail
         /\ RowsInStore' = Append(RowsInStore, Head(batch))
<1> DEFINE rows == Append(buffer, Head(batch))
           rest == Tail(batch)
<1>0. /\ \/ stored' = stored /\ buffer' = rows
         \/ stored' = stored \o rows /\ buffer' = <<>>
      /\ batch' = rest /\ queue' = queue
  BY DEF AppendsHead
<1>1. /\ queue \in Seq(Records) /\ batch \in Seq(Records) /\ buffer \in Seq(Records)
      /\ NewRows \in Seq(Records) /\ NewRows \o buffer \in Seq(Records)
      /\ Trail = Behind \o queue
  BY SequencesOfRecords
<1>2. batch # <<>>
  BY DEF IInv, TypeOK
<1>3. /\ stored \in Seq(0 .. MaxPuts) /\ buffer \in Seq(0 .. MaxPuts)
      /\ Len(stored) \in Nat /\ Len(buffer) \in Nat /\ Records \subseteq 0 .. MaxPuts
  BY SequencesOfRows
<1>4. /\ rows \in Seq(Records) /\ rest \in Seq(Records) /\ Head(batch) \in Records
      /\ rows \o rest = buffer \o batch
  BY <1>1, <1>2, HandOver
<1>5. Len(rest) = Len(batch) - 1 /\ Len(rows) = Len(buffer) + 1
  BY <1>1, <1>2, <1>4, HeadTailProperties, AppendProperties
<1> HIDE DEF rows, rest
<1>6. rows \in Seq(0 .. MaxPuts) /\ Head(batch) \in 0 .. MaxPuts
  BY <1>3, <1>4, SeqMonotonic
<1>7. stored \o rows \in Seq(0 .. MaxPuts) /\ Len(stored \o rows) = Len(stored) + Len(rows)
  BY <1>3, <1>6, ConcatProperties
<1>8. InitialRows \in 0 .. Len(stored)
  BY <1>3, RowsAssumption DEF IInv, RecordsInPlace, MoreTypes
<1>9. /\ stored' \in Seq(0 .. MaxPuts) /\ Len(stored') >= InitialRows
      /\ buffer' \in Seq(Records)
  <2>1. <<>> \in Seq(Records)
    BY EmptySeq
  <2>2. Len(stored) >= InitialRows /\ Len(stored) + Len(rows) >= InitialRows
    BY <1>3, <1>5, <1>8, RowsAssumption
  <2> QED
    BY <1>0, <1>3, <1>4, <1>7, <2>1, <2>2
<1>10. NewRows' \in Seq(Records) /\ NewRows' \o buffer' = NewRows \o rows
  <2>1. CASE stored' = stored /\ buffer' = rows
    BY <1>1, <2>1 DEF NewRows
  <2>2. CASE stored' = stored \o rows /\ buffer' = <<>>
    <3>1. NewRows' = NewRows \o rows
      BY <1>3, <1>6, <1>8, <2>2, SuffixGrows DEF NewRows
    <3>2. NewRows \o rows \in Seq(Records)
      BY <1>1, <1>4, ConcatProperties
    <3> QED
      BY <2>2, <3>1, <3>2, ConcatEmptySeq
  <2> QED
    BY <1>0, <2>1, <2>2
<1>11. (NewRows' \o buffer') \o batch' = (NewRows \o buffer) \o batch
  <2>1. (NewRows \o rows) \o rest = NewRows \o (rows \o rest)
    <3>1. NewRows \in Seq(Records) /\ rows \in Seq(Records) /\ rest \in Seq(Records)
      BY <1>1, <1>4
    <3> QED
      BY <3>1, Regroup
  <2>2. (NewRows \o buffer) \o batch = NewRows \o (buffer \o batch)
    <3>1. NewRows \in Seq(Records) /\ buffer \in Seq(Records) /\ batch \in Seq(Records)
      BY <1>1
    <3> QED
      BY <3>1, Regroup
  <2> QED
    BY <1>0, <1>4, <1>10, <2>1, <2>2
<1>12. Trail' = Trail
  BY <1>0, <1>11 DEF Trail
<1>13. RowsInStore' = Append(RowsInStore, Head(batch))
  <2> DEFINE e == Head(batch)
  <2>1. rows = buffer \o <<e>> /\ <<e>> \in Seq(0 .. MaxPuts)
    <3>1. rows = buffer \o <<e>>
      BY <1>3, <1>6, AppendIsConcat DEF rows
    <3>2. <<e>> \in Seq(0 .. MaxPuts)
      BY <1>6
    <3> QED
      BY <3>1, <3>2
  <2>2. RowsInStore \in Seq(0 .. MaxPuts)
    BY SequencesOfRows
  <2>3. Append(RowsInStore, e) = RowsInStore \o <<e>>
    BY <1>6, <2>2, AppendIsConcat
  <2>4. (stored \o buffer) \o <<e>> = stored \o (buffer \o <<e>>)
    <3>1. stored \in Seq(0 .. MaxPuts) /\ buffer \in Seq(0 .. MaxPuts)
      BY <1>3
    <3> QED
      BY <2>1, <3>1, Regroup
  <2>5. stored' \o buffer' = stored \o rows
    BY <1>0, <1>7, ConcatEmptySeq
  <2> QED
    BY <2>1, <2>3, <2>4, <2>5 DEF RowsInStore
<1> QED
  BY <1>0, <1>4, <1>5, <1>9, <1>10, <1>12, <1>13 DEF rows

\* A store that grows by a row keeps what the index names.
LEMMA OlderEntries ==
  ASSUME IInv, NEW e \in Records, RowsInStore' = Append(RowsInStore, e),
         NEW k \in 1 .. Len(index)
  PROVE  /\ index[k].row + 1 \in 1 .. Len(RowsInStore')
         /\ RowsInStore'[index[k].row + 1] = index[k].record
<1>1. RowsInStore \in Seq(0 .. MaxPuts) /\ Len(RowsInStore) \in Nat /\ e \in 0 .. MaxPuts
  BY SequencesOfRows
<1>2. /\ index[k].row + 1 \in 1 .. Len(RowsInStore)
      /\ RowsInStore[index[k].row + 1] = index[k].record
  BY DEF IInv, RecordsInPlace, IndexNamesTheRow, RowsInStore
<1>3. /\ Len(RowsInStore') = Len(RowsInStore) + 1
      /\ \A i \in 1 .. Len(RowsInStore) : RowsInStore'[i] = RowsInStore[i]
  BY <1>1, AppendProperties
<1> QED
  BY <1>1, <1>2, <1>3

LEMMA AppendRecordKeeps == IInv /\ AppendRecord => IInv'
<1> SUFFICES ASSUME IInv, AppendRecord PROVE IInv'
  OBVIOUS
<1> DEFINE rows == Append(buffer, Head(batch))
           entry == [record |-> Head(batch), row |-> nextRow]
<1>1. /\ pc = "append"
      /\ buffer' = IF Len(rows) >= batchSize THEN <<>> ELSE rows
      /\ stored' = IF Len(rows) >= batchSize THEN stored \o rows ELSE stored
      /\ index' = Append(index, entry)
      /\ nextRow' = nextRow + 1 /\ written' = written + 1
      /\ batch' = Tail(batch)
      /\ pc' = IF Len(batch) = 1 THEN "readDropped" ELSE "append"
      /\ UNCHANGED <<queue, closed, dropped, enqueued, putting, batchSize, lastDropped,
                     lastEnqueued, newDrops, newPuts, seenDropped, loggedDrops>>
  BY DEF AppendRecord, ringVars, adaptVars
<1>2. AppendsHead
  BY <1>1 DEF AppendsHead
<1>3. /\ batch' \in Seq(Records) /\ Head(batch) \in Records
      /\ Len(batch') = Len(batch) - 1
      /\ stored' \in Seq(0 .. MaxPuts) /\ buffer' \in Seq(Records)
      /\ Len(stored') >= InitialRows /\ NewRows' \in Seq(Records)
      /\ Trail' = Trail
      /\ RowsInStore' = Append(RowsInStore, Head(batch))
  BY <1>1, <1>2, AppendKeepsPlaces
<1>4. /\ written \in Nat /\ nextRow = InitialRows + written /\ Len(index) = written
      /\ Len(RowsInStore) = nextRow /\ nextRow \in Nat
      /\ index \in Seq([record : Records, row : Nat])
  BY <1>1, RowsAssumption DEF IInv, RecordsInPlace, CountersAgree, MoreTypes
<1>5. /\ RowsInStore \in Seq(0 .. MaxPuts) /\ Records \subseteq 0 .. MaxPuts
      /\ buffer \in Seq(0 .. MaxPuts)
  BY SequencesOfRows
<1>6. /\ index' \in Seq([record : Records, row : Nat])
      /\ Len(index') = written + 1
      /\ \A k \in 1 .. written : index'[k] = index[k]
      /\ index'[written + 1] = entry
  <2>1. entry \in [record : Records, row : Nat]
    BY <1>3, <1>4
  <2> QED
    BY <1>1, <1>4, <2>1, AppendProperties
<1>7. /\ Len(RowsInStore') = nextRow + 1
      /\ RowsInStore'[nextRow + 1] = Head(batch)
  BY <1>3, <1>4, <1>5, AppendProperties
<1>8. IndexNamesTheRow'
  <2>1. ASSUME NEW k \in 1 .. Len(index')
        PROVE  /\ index'[k].row + 1 \in 1 .. Len(RowsInStore')
               /\ RowsInStore'[index'[k].row + 1] = index'[k].record
    <3>1. CASE k \in 1 .. written
      BY <1>3, <1>4, <1>6, <3>1, OlderEntries
    <3>2. CASE k = written + 1
      BY <1>4, <1>6, <1>7, <3>2
    <3> QED
      BY <1>4, <1>6, <3>1, <3>2
  <2> QED
    BY <2>1 DEF IndexNamesTheRow, RowsInStore
<1>9. RecordsInPlace'
  <2>1. MoreTypes'
    BY <1>1, <1>3, <1>6 DEF IInv, RecordsInPlace, MoreTypes
  <2> QED
    BY <1>1, <1>3, <1>8, <2>1, SameTrail DEF IInv
<1>10. TypeOK'
  <2>1. Len(buffer') < batchSize' /\ batchSize' = batchSize
    <3>1. Len(rows) \in Nat /\ batchSize \in Nat \ {0} /\ Len(<<>>) = 0
      <4>1. rows \in Seq(0 .. MaxPuts)
        BY <1>3, <1>5, AppendProperties
      <4> QED
        BY <4>1, LenProperties, EmptySeq, BatchSizeType DEF IInv, TypeOK
    <3> HIDE DEF rows
    <3> QED
      BY <1>1, <3>1
  <2>2. pc' = "append" => batch' # <<>>
    <3>1. Len(batch) \in Nat
      BY LenProperties DEF IInv, TypeOK
    <3>2. pc' = "append" => Len(batch') # 0
      BY <1>1, <1>3, <3>1
    <3>3. Len(<<>>) = 0
      BY EmptySeq
    <3> QED
      BY <3>2, <3>3
  <2>3. pc' \in {"readDropped", "append"}
    BY <1>1
  <2>4. batch' \in Seq(1 .. MaxPuts) /\ buffer' \in Seq(1 .. MaxPuts)
    BY <1>3 DEF Records
  <2>5. AdaptTypes'
    BY <1>1, SameAdaptTypes DEF IInv
  <2> QED
    BY <1>1, <1>3, <2>1, <2>2, <2>3, <2>4, <2>5 DEF IInv, TypeOK
<1>11. ExitProgress'
  <2>1. pc' # "append" => Len(batch') = 0
    BY <1>1, <1>3
  <2>2. pc' # "append" => batch' = <<>>
    BY <1>3, <2>1, EmptySeq
  <2>3. pc' \in {"readDropped", "append"}
    BY <1>1
  <2> QED
    BY <2>2, <2>3 DEF ExitProgress
<1>12. CountersAgree'
  BY <1>1, <1>4, <1>6, <1>7, RowsAssumption DEF CountersAgree
<1>13. AdaptProgress'
  <2>1. pc' \in {"readDropped", "append"}
    BY <1>1
  <2> QED
    BY <1>1, <2>1 DEF IInv, AdaptProgress
<1> QED
  BY <1>9, <1>10, <1>11, <1>12, <1>13 DEF IInv

\* The record whose flush raised is in the dead thread's buffer.
LEMMA AppendFailsKeeps == IInv /\ AppendFails => IInv'
<1> SUFFICES ASSUME IInv, AppendFails PROVE IInv'
  OBVIOUS
<1>1. /\ pc = "append" /\ pc' = "dead"
      /\ buffer' = Append(buffer, Head(batch)) /\ batch' = Tail(batch)
      /\ UNCHANGED <<queue, closed, dropped, enqueued, putting, stored, index, nextRow,
                     written>>
      /\ UNCHANGED <<batchSize, lastDropped, lastEnqueued, newDrops, newPuts, seenDropped,
                     loggedDrops>>
  BY DEF AppendFails, ringVars, adaptVars
<1>2. AppendsHead
  BY <1>1 DEF AppendsHead
<1>3. /\ batch' \in Seq(Records) /\ Head(batch) \in Records
      /\ buffer' \in Seq(Records)
      /\ NewRows' \in Seq(Records)
      /\ Trail' = Trail
      /\ RowsInStore' = Append(RowsInStore, Head(batch))
  BY <1>1, <1>2, AppendKeepsPlaces
<1>4. IndexNamesTheRow'
  <2>1. ASSUME NEW k \in 1 .. Len(index)
        PROVE  /\ index[k].row + 1 \in 1 .. Len(RowsInStore')
               /\ RowsInStore'[index[k].row + 1] = index[k].record
    BY <1>3, OlderEntries
  <2> QED
    BY <1>1, <2>1 DEF IndexNamesTheRow, RowsInStore
<1>5. RecordsInPlace'
  <2>1. MoreTypes'
    BY <1>1, <1>3 DEF IInv, RecordsInPlace, MoreTypes
  <2> QED
    BY <1>1, <1>3, <1>4, <2>1, SameTrail DEF IInv
<1>6. TypeOK'
  <2>1. batch' \in Seq(1 .. MaxPuts) /\ buffer' \in Seq(1 .. MaxPuts)
    BY <1>3 DEF Records
  <2>2. AdaptTypes'
    BY <1>1, SameAdaptTypes DEF IInv
  <2> QED
    BY <1>1, <2>1, <2>2 DEF IInv, TypeOK
<1>7. ExitProgress' /\ CountersAgree' /\ AdaptProgress'
  BY <1>1 DEF IInv, ExitProgress, CountersAgree, AdaptProgress
<1> QED
  BY <1>5, <1>6, <1>7 DEF IInv

\* The last flush: the buffer goes to the store as it is.
LEMMA CloseWriterKeeps == IInv /\ CloseWriter => IInv'
<1> SUFFICES ASSUME IInv, CloseWriter PROVE IInv'
  OBVIOUS
<1>1. /\ pc = "close" /\ pc' = "done"
      /\ stored' = stored \o buffer /\ buffer' = <<>>
      /\ UNCHANGED <<queue, closed, dropped, enqueued, putting, batch, index, nextRow,
                     written>>
      /\ UNCHANGED <<batchSize, lastDropped, lastEnqueued, newDrops, newPuts, seenDropped,
                     loggedDrops>>
  BY DEF CloseWriter, WriterGoes, ringVars, adaptVars
<1>2. /\ NewRows \in Seq(Records) /\ buffer \in Seq(Records)
      /\ NewRows \o buffer \in Seq(Records)
  BY SequencesOfRecords
<1>3. /\ stored \in Seq(0 .. MaxPuts) /\ buffer \in Seq(0 .. MaxPuts)
      /\ stored \o buffer \in Seq(0 .. MaxPuts)
      /\ Len(stored \o buffer) = Len(stored) + Len(buffer)
      /\ Len(stored) \in Nat /\ Len(buffer) \in Nat
  BY SequencesOfRows DEF RowsInStore
<1>4. InitialRows \in 0 .. Len(stored) /\ Len(stored') >= InitialRows
  BY <1>1, <1>3, RowsAssumption DEF IInv, RecordsInPlace, MoreTypes
<1>5. NewRows' = NewRows \o buffer
  BY <1>1, <1>3, <1>4, SuffixGrows DEF NewRows
<1>6. Trail' = Trail
  <2>1. NewRows' \o buffer' = NewRows \o buffer
    BY <1>1, <1>2, <1>5, ConcatEmptySeq
  <2> QED
    BY <1>1, <2>1 DEF Trail
<1>7. RowsInStore' = RowsInStore
  BY <1>1, <1>3, ConcatEmptySeq DEF RowsInStore
<1>8. RecordsInPlace'
  <2>1. MoreTypes'
    BY <1>1, <1>2, <1>4, <1>5 DEF IInv, RecordsInPlace, MoreTypes
  <2>2. IndexNamesTheRow'
    BY <1>1, <1>7 DEF IInv, RecordsInPlace, IndexNamesTheRow, RowsInStore
  <2> QED
    BY <1>1, <1>6, <2>1, <2>2, SameTrail DEF IInv
<1>9. TypeOK'
  <2>1. buffer' \in Seq(1 .. MaxPuts) /\ Len(buffer') = 0
    BY <1>1, EmptySeq
  <2>2. AdaptTypes'
    BY <1>1, SameAdaptTypes DEF IInv
  <2>3. Len(buffer') < batchSize'
    BY <1>1, <2>1, BatchSizeType DEF IInv, TypeOK
  <2> QED
    BY <1>1, <1>3, <2>1, <2>2, <2>3 DEF IInv, TypeOK
<1>10. ExitProgress' /\ AdaptProgress'
  BY <1>1 DEF IInv, ExitProgress, AdaptProgress
<1>11. CountersAgree'
  BY <1>1, <1>7 DEF IInv, CountersAgree
<1> QED
  BY <1>8, <1>9, <1>10, <1>11 DEF IInv

\* Waiting, leaving the loop, and a thread that dies with rows in its buffer.
LEMMA ControlKeeps ==
  IInv /\ (TakeNothing \/ Wait \/ TimeOut \/ TestClosed \/ TestEmpty \/ CloseFails)
    => IInv'
<1> SUFFICES ASSUME IInv,
                    TakeNothing \/ Wait \/ TimeOut \/ TestClosed \/ TestEmpty \/ CloseFails
             PROVE  IInv'
  OBVIOUS
<1>1. /\ UNCHANGED <<queue, closed, dropped, enqueued, putting, batch, buffer, stored,
                     index, nextRow, written>>
      /\ UNCHANGED <<batchSize, lastDropped, lastEnqueued, newDrops, newPuts, seenDropped,
                     loggedDrops>>
  BY DEF TakeNothing, Wait, TimeOut, TestClosed, TestEmpty, CloseFails, ringVars,
         storeVars, adaptVars
<1>2. /\ pc \in {"get", "waiting", "testClosed", "testEmpty", "close"}
      /\ pc' \in {"get", "waiting", "testClosed", "testEmpty", "close", "dead"}
      /\ pc' = "testEmpty" => closed
      /\ pc' = "close" => closed /\ queue = <<>>
  BY DEF IInv, ExitProgress, TakeNothing, Wait, TimeOut, TestClosed, TestEmpty, CloseFails,
         Locked, WriterGoes, SeesClosed, SeesEmpty
<1>3. RecordsInPlace'
  BY <1>1, SamePlaces DEF IInv
<1>4. TypeOK'
  <2>1. AdaptTypes'
    BY <1>1, <1>2, SameAdaptTypes DEF IInv
  <2> QED
    BY <1>1, <1>2, <2>1 DEF IInv, TypeOK
<1>5. ExitProgress' /\ AdaptProgress'
  BY <1>1, <1>2 DEF IInv, ExitProgress, AdaptProgress
<1>6. CountersAgree'
  BY <1>1, <1>2 DEF IInv, CountersAgree, RowsInStore
<1> QED
  BY <1>3, <1>4, <1>5, <1>6 DEF IInv

\* _adapt, read by read.
LEMMA AdaptKeeps ==
  IInv /\ (ReadDropped \/ ReadEnqueued \/ RereadDropped \/ Adapt) => IInv'
<1> SUFFICES ASSUME IInv, ReadDropped \/ ReadEnqueued \/ RereadDropped \/ Adapt
             PROVE  IInv'
  OBVIOUS
<1>1. UNCHANGED <<queue, closed, dropped, enqueued, putting, batch, buffer, stored,
                  index, nextRow, written>>
  BY DEF ReadDropped, ReadEnqueued, RereadDropped, Adapt, ringVars, storeVars
<1>2. /\ pc \in {"readDropped", "readEnqueued", "rereadDropped", "adapt"}
      /\ pc' \in {"get", "readEnqueued", "rereadDropped", "adapt"}
  BY DEF ReadDropped, ReadEnqueued, RereadDropped, Adapt, WriterGoes
<1>3. /\ batchSize \in Nat \ {0} /\ batchSize' \in Nat \ {0} /\ batchSize' >= batchSize
      /\ batchSize' \in {FirstBatchSize} \cup FirstBatchSize .. BatchCap
  <2>1. /\ batchSize \in Nat \ {0} /\ batchSize >= FirstBatchSize
        /\ batchSize \in {FirstBatchSize} \cup FirstBatchSize .. BatchCap
    BY BatchAssumption DEF IInv, TypeOK, AdaptTypes
  <2>2. CASE UNCHANGED batchSize
    BY <2>1, <2>2
  <2>3. CASE /\ batchSize < BatchCap
             /\ batchSize' = IF 2 * batchSize < BatchCap THEN 2 * batchSize ELSE BatchCap
    BY <2>1, <2>3, BatchAssumption
  <2> QED
    BY <2>2, <2>3 DEF ReadDropped, ReadEnqueued, RereadDropped, Adapt
<1>4. AdaptProgress' /\ AdaptTypes'
  <2>1. enqueued \in Nat /\ dropped \in Nat
    BY RowsAssumption DEF IInv, TypeOK
  <2>2. CASE ReadDropped
    BY <1>1, <1>3, <2>1, <2>2
       DEF IInv, TypeOK, AdaptTypes, AdaptProgress, ReadDropped, WriterGoes
  <2>3. CASE ReadEnqueued
    BY <1>1, <1>3, <2>1, <2>3
       DEF IInv, TypeOK, AdaptTypes, AdaptProgress, ReadEnqueued, WriterGoes
  <2>4. CASE RereadDropped
    BY <1>1, <1>3, <2>1, <2>4
       DEF IInv, TypeOK, AdaptTypes, AdaptProgress, RereadDropped, WriterGoes
  <2>5. CASE Adapt
    BY <1>1, <1>3, <2>1, <2>5
       DEF IInv, TypeOK, AdaptTypes, AdaptProgress, Adapt, Baseline, WriterGoes
  <2> QED
    BY <2>2, <2>3, <2>4, <2>5
<1>5. RecordsInPlace'
  BY <1>1, SamePlaces DEF IInv
<1>6. TypeOK'
  <2>1. Len(buffer) \in Nat /\ batchSize \in Nat
    BY <1>3, LenProperties DEF IInv, TypeOK
  <2>2. pc' # "dead" => Len(buffer') < batchSize'
    BY <1>1, <1>2, <1>3, <2>1 DEF IInv, TypeOK
  <2> QED
    BY <1>1, <1>2, <1>4, <2>2 DEF IInv, TypeOK
<1>7. ExitProgress'
  BY <1>1, <1>2 DEF IInv, ExitProgress
<1>8. CountersAgree'
  BY <1>1, <1>2 DEF IInv, CountersAgree, RowsInStore
<1> QED
  BY <1>4, <1>5, <1>6, <1>7, <1>8 DEF IInv

LEMMA StutterKeeps == IInv /\ UNCHANGED vars => IInv'
<1> SUFFICES ASSUME IInv, UNCHANGED vars PROVE IInv'
  OBVIOUS
<1>1. /\ UNCHANGED <<queue, closed, dropped, enqueued, putting, pc, batch, buffer, stored,
                     index, nextRow, written>>
      /\ UNCHANGED <<batchSize, lastDropped, lastEnqueued, newDrops, newPuts, seenDropped,
                     loggedDrops>>
  BY DEF vars, ringVars, storeVars, adaptVars
<1>2. RecordsInPlace'
  BY <1>1, SamePlaces DEF IInv
<1>3. TypeOK' /\ ExitProgress' /\ AdaptProgress'
  BY <1>1 DEF IInv, TypeOK, AdaptTypes, ExitProgress, AdaptProgress
<1>4. CountersAgree'
  BY <1>1 DEF IInv, CountersAgree, RowsInStore
<1> QED
  BY <1>2, <1>3, <1>4 DEF IInv

-------------------------------------------------------------------------------

LEMMA InitIInv == Init => IInv
<1> SUFFICES ASSUME Init PROVE IInv
  OBVIOUS
<1>1. \A S : <<>> \in Seq(S) /\ Len(<<>>) = 0
  BY EmptySeq
<1>2. stored \in Seq(0 .. MaxPuts) /\ Len(stored) = InitialRows
  <2>1. stored \in [1 .. InitialRows -> 0 .. MaxPuts] /\ InitialRows \in Nat
    BY RowsAssumption DEF Init, Old
  <2>2. stored \in Seq(0 .. MaxPuts)
    BY <2>1, SeqDef
  <2>3. DOMAIN stored = 1 .. InitialRows /\ DOMAIN stored = 1 .. Len(stored)
    BY <2>1, <2>2, LenProperties
  <2>4. Len(stored) \in Nat
    BY <2>2, LenProperties
  <2> QED
    BY <2>1, <2>2, <2>3, <2>4
<1>3. NewRows = <<>>
  BY <1>2, RowsAssumption, SubSeqEmpty DEF NewRows
<1>4. /\ queue = <<>> /\ batch = <<>> /\ buffer = <<>> /\ index = <<>>
      /\ dropped = 0 /\ enqueued = 0 /\ pc = "get"
  BY DEF Init
<1>5. Trail = <<>>
  <2>1. <<>> \in Seq(Records)
    BY <1>1
  <2>2. <<>> \o <<>> = <<>>
    BY <2>1, ConcatEmptySeq
  <2> QED
    BY <1>3, <1>4, <2>2 DEF Trail
<1>6. RecordsInPlace
  <2>1. MoreTypes
    <3>1. ~putting
      BY DEF Init
    <3> QED
      BY <1>1, <1>2, <1>3, <1>4, <3>1, RowsAssumption DEF MoreTypes
  <2>2. DropsAccountForLosses
    BY <1>1, <1>4, <1>5 DEF DropsAccountForLosses
  <2>3. Ordered(Trail, enqueued)
    BY <1>1, <1>5 DEF Ordered
  <2>4. IndexNamesTheRow
    BY <1>1, <1>4 DEF IndexNamesTheRow
  <2> QED
    BY <2>1, <2>2, <2>3, <2>4 DEF RecordsInPlace
<1>7. TypeOK
  <2>1. closed \in BOOLEAN /\ putting \in BOOLEAN
    BY Zenon DEF Init
  <2>2. /\ Len(queue) <= Capacity /\ Len(buffer) < batchSize
        /\ dropped \in 0 .. enqueued + 1 /\ enqueued \in 0 .. MaxPuts
    BY <1>1, <1>4, CapacityAssumption, BatchAssumption, RowsAssumption DEF Init
  <2>3. AdaptTypes
    BY <1>4 DEF Init, AdaptTypes
  <2> QED
    BY <1>1, <1>2, <1>4, <2>1, <2>2, <2>3 DEF TypeOK
<1>8. ExitProgress /\ AdaptProgress
  BY <1>4 DEF Init, ExitProgress, AdaptProgress
<1>9. CountersAgree
  <2>1. RowsInStore = stored
    BY <1>2, <1>4, ConcatEmptySeq DEF RowsInStore
  <2> QED
    BY <1>1, <1>2, <1>4, <2>1, RowsAssumption DEF Init, CountersAgree, FirstRow
<1> QED
  BY <1>6, <1>7, <1>8, <1>9 DEF IInv

LEMMA StepIInv == IInv /\ [Next]_vars => IInv'
<1>1. Terminated => UNCHANGED vars
  BY DEF Terminated
<1> QED
  BY <1>1, PutDropsOldestKeeps, PutKeeps, CloseKeeps, TakeBatchKeeps, AppendRecordKeeps,
     AppendFailsKeeps, CloseWriterKeeps, ControlKeeps, AdaptKeeps, StutterKeeps
     DEF Next, WriterStep

LEMMA Invariance == Spec => []IInv
BY InitIInv, StepIInv, PTL DEF Spec

-------------------------------------------------------------------------------

\* Queues, buffers and counters keep their types; the ring never exceeds its
\* capacity, the buffer is flushed before it reaches the batch size, however _adapt
\* has changed it up to its cap, and the deltas _adapt takes are gone outside it.
THEOREM TypeCorrectness == Spec => []TypeOK
<1>1. IInv => TypeOK
  BY DEF IInv
<1> QED
  BY <1>1, Invariance, PTL

\* From put to the store, through ring, batch and write buffer, every record is
\* in one of them or counted in ring.dropped, whatever the sizes, however the
\* two threads interleave, and also after the writer thread has died.
THEOREM LossesAreCounted == Spec => []DropsAccountForLosses
<1>1. IInv => DropsAccountForLosses
  BY DEF IInv, RecordsInPlace
<1> QED
  BY <1>1, Invariance, PTL

\* Records reach the store in the order of put, none twice: get_batch takes
\* from the front, append adds at the back, and dropping does not reorder.
THEOREM OrderSurvives == Spec => []ArrivalOrder
<1>1. IInv => ArrivalOrder
  BY DEF IInv, RecordsInPlace, Ordered, ArrivalOrder
<1> QED
  BY <1>1, Invariance, PTL

\* The row ids that _run_writer passes to indexes.add are those of the records
\* in the store, also in one that already held rows (append=True).
THEOREM IndexRowsAreRight == Spec => []IndexNamesTheRow
<1>1. IInv => IndexNamesTheRow
  BY DEF IInv, RecordsInPlace
<1> QED
  BY <1>1, Invariance, PTL

\* When _run_writer has returned, everything that was put is in the store or
\* counted as dropped: the two tests of `closed and len == 0' let no record
\* slip in between, because nothing is put into a closed ring.
THEOREM DoneMeansStored == Spec => []JoinMeansStored
<1>1. ASSUME IInv PROVE JoinMeansStored
  <2> SUFFICES ASSUME pc = "done" PROVE JoinMeansStored
    BY DEF JoinMeansStored
  <2>1. closed /\ queue = <<>> /\ batch = <<>> /\ buffer = <<>>
    BY <1>1 DEF IInv, ExitProgress
  <2>2. /\ stored \in Seq(0 .. MaxPuts) /\ RowsInStore = stored /\ Len(stored) \in Nat
    BY <1>1, <2>1, SequencesOfRows, ConcatEmptySeq DEF RowsInStore
  <2>3. Len(stored) = InitialRows + written /\ Len(index) = written /\ written \in Nat
    BY <1>1, <2>2 DEF IInv, CountersAgree
  <2>4. Len(NewRows) = written
    <3>1. \A i \in 1 .. Len(stored) : stored[i] \in 0 .. MaxPuts
      BY <2>2, ElementOfSeq
    <3>2. InitialRows + 1 \in Int /\ Len(stored) \in Int
      BY <2>2, RowsAssumption
    <3>3. \A i \in InitialRows + 1 .. Len(stored) : stored[i] \in 0 .. MaxPuts
      BY <2>2, <3>1, RowsAssumption
    <3>4. Len(NewRows) = IF InitialRows + 1 <= Len(stored)
                         THEN Len(stored) - (InitialRows + 1) + 1 ELSE 0
      BY <3>2, <3>3, SubSeqProperties DEF NewRows
    <3> QED
      BY <2>3, <3>4, RowsAssumption
  <2>5. Trail = NewRows
    <3>1. NewRows \in Seq(Records)
      BY <1>1, SequencesOfRecords
    <3>2. NewRows \o <<>> = NewRows
      BY <3>1, ConcatEmptySeq
    <3> QED
      BY <2>1, <3>2 DEF Trail
  <2>6. written = enqueued - dropped
    BY <1>1, <2>4, <2>5 DEF IInv, RecordsInPlace, DropsAccountForLosses
  <2> QED
    BY <2>1, <2>3, <2>6 DEF JoinMeansStored
<1> QED
  BY <1>1, Invariance, PTL

\* The sum of what _adapt has logged never exceeds its baseline, nor that the
\* number of drops, although it reads the counters without the ring's lock.
THEOREM NoDropIsLoggedTwice == Spec => []NoDropLoggedTwice
<1>1. IInv => NoDropLoggedTwice
  BY DEF IInv, AdaptProgress, NoDropLoggedTwice
<1> QED
  BY <1>1, Invariance, PTL
==============================================================================
