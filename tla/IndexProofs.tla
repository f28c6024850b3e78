------------------------------ MODULE IndexProofs ------------------------------
(***************************************************************************)
(* Of CaptureSession: that the store holds what it should and that every   *)
(* lookup in its indexes is exact, for any frames, files and addresses.    *)
(* Of PacketIndexes: that the modification times tell the indexes of a     *)
(* store from those of another, for any number of processes, columns, rows *)
(* and rebuilds.  Of TopN: that the bounded heap keeps the best, for any   *)
(* items and any bound.                                                    *)
(*                                                                         *)
(* The operators of these are defined by recursion over frames, rows and   *)
(* items.  That the functions they define exist, and what they compute, is *)
(* proved with Induction below, which rests on the well-foundedness of the *)
(* natural numbers.                                                        *)
(***************************************************************************)
EXTENDS CaptureSession, PacketIndexes, TopN,
        FiniteSetTheorems, FunctionTheorems, SequenceTheorems, WellFoundedInduction, TLAPS

-----------------------------------------------------------------------------
(* Induction.                                                              *)

\* Every set of naturals with a member has a least one.
LEMMA LeastNatural ==
  ASSUME NEW S \in SUBSET Nat, S # {}
  PROVE  \E n \in S : \A m \in S : n <= m
<1>1. PICK n \in S : \A m \in S : <<m, n>> \notin OpToRel(<, Nat)
  BY NatLessThanWellFounded, WFMin
<1>2. \A m \in S : m < n => <<m, n>> \in OpToRel(<, Nat)
  BY DEF OpToRel
<1>3. \A m \in S : ~(m < n)
  BY <1>1, <1>2, Zenon
<1> QED
  BY <1>3

\* What holds of zero, and of the next of every number it holds of, holds of all.
LEMMA Induction ==
  ASSUME NEW S, 0 \in S, \A n \in Nat : n \in S => n + 1 \in S
  PROVE  Nat \subseteq S
<1>1. SUFFICES ASSUME Nat \ S # {} PROVE FALSE
  OBVIOUS
<1>2. PICK n \in Nat \ S : \A m \in Nat \ S : n <= m
  BY <1>1, LeastNatural
<1>3. n # 0 /\ n - 1 \in Nat
  BY <1>2
<1>4. n - 1 \in S
  BY <1>2, <1>3
<1> QED
  BY <1>2, <1>3, <1>4

\* Up to a bound.
LEMMA InductionUpTo ==
  ASSUME NEW n \in Nat, NEW S, 0 \in S, \A k \in 0 .. n - 1 : k \in S => k + 1 \in S
  PROVE  0 .. n \subseteq S
<1> DEFINE T == {k \in Nat : k <= n => k \in S}
<1>1. 0 \in T
  OBVIOUS
<1>2. ASSUME NEW k \in Nat, k \in T PROVE k + 1 \in T
  <2>1. CASE k + 1 <= n
    <3>1. k \in 0 .. n - 1 /\ k \in S
      BY <1>2, <2>1
    <3> QED
      BY <3>1
  <2> QED
    BY <2>1
<1>3. Nat \subseteq T
  <2> HIDE DEF T
  <2> QED
    BY <1>1, <1>2, Induction
<1> QED
  BY <1>3

\* A function on 0 .. n gets a value at n + 1.
LEMMA Extended ==
  ASSUME NEW n \in Nat, NEW g, NEW x, NEW h,
         h = [k \in 0 .. n + 1 |-> IF k = n + 1 THEN x ELSE g[k]]
  PROVE  /\ h[n + 1] = x
         /\ \A k \in 0 .. n : h[k] = g[k]
         /\ \A k \in 1 .. n + 1 : h[k - 1] = g[k - 1]
<1>1. \A k \in 0 .. n : k \in 0 .. n + 1 /\ k # n + 1
  OBVIOUS
<1>2. \A k \in 1 .. n + 1 : k - 1 \in 0 .. n
  OBVIOUS
<1>3. n + 1 \in 0 .. n + 1
  OBVIOUS
<1> QED
  BY <1>1, <1>2, <1>3

\* The equations of EndOf, of the reader, and of the indexes that grow or are filled.
LEMMA EndOfDef ==
  ASSUME NEW frames, Len(frames) \in Nat
  PROVE  EndOf(frames) =
           [k \in 0 .. Len(frames) |->
              IF k = 0 THEN GlobalHeader
              ELSE EndOf(frames)[k - 1] + RecordHeader + frames[k].size]
<1> DEFINE Value(g, k) == IF k = 0 THEN GlobalHeader ELSE g[k - 1] + RecordHeader + frames[k].size
           Is(g, n) == g = [k \in 0 .. n |-> Value(g, k)]
           S == {n \in Nat : \E g : Is(g, n)}
<1>1. 0 \in S
  <2>1. Is([k \in 0 .. 0 |-> GlobalHeader], 0)
    OBVIOUS
  <2> QED
    BY <2>1
<1>2. ASSUME NEW n \in Nat, n \in S PROVE n + 1 \in S
  <2>1. PICK g : Is(g, n)
    BY <1>2
  <2>2. PICK x : x = Value(g, n + 1)
    OBVIOUS
  <2>3. PICK h : h = [k \in 0 .. n + 1 |-> IF k = n + 1 THEN x ELSE g[k]]
    OBVIOUS
  <2>4. ASSUME NEW k \in 0 .. n + 1 PROVE h[k] = Value(h, k)
    <3>1. h[n + 1] = x /\ \A j \in 0 .. n : h[j] = g[j]
      BY <2>3, Extended
    <3>2. \A j \in 1 .. n + 1 : h[j - 1] = g[j - 1]
      BY <2>3, Extended
    <3>3. \A j \in 0 .. n : g[j] = Value(g, j)
      BY <2>1
    <3>4. (k = n + 1 \/ k \in 0 .. n) /\ (k = 0 \/ k \in 1 .. n + 1)
      OBVIOUS
    <3> QED
      BY <2>2, <3>1, <3>2, <3>3, <3>4
  <2>5. Is(h, n + 1)
    BY <2>3, <2>4
  <2> HIDE DEF Is
  <2> QED
    BY <2>5
<1>3. Nat \subseteq S
  <2> HIDE DEF S
  <2> QED
    BY <1>1, <1>2, Induction
<1>4. \E g : Is(g, Len(frames))
  BY <1>3
<1> QED
  BY <1>4 DEF EndOf

LEMMA ReadingDef ==
  ASSUME NEW f, Len(f.frames) \in Nat
  PROVE  Reading(f) =
           [k \in 0 .. Len(f.frames) |->
              IF k = 0 THEN [left |-> f.bytes - GlobalHeader, more |-> TRUE, packets |-> <<>>]
              ELSE ReadRecord(Reading(f)[k - 1], f.frames[k])]
<1> DEFINE Value(g, k) == IF k = 0 THEN [left |-> f.bytes - GlobalHeader, more |-> TRUE, packets |-> <<>>] ELSE ReadRecord(g[k - 1], f.frames[k])
           Is(g, n) == g = [k \in 0 .. n |-> Value(g, k)]
           S == {n \in Nat : \E g : Is(g, n)}
<1>1. 0 \in S
  <2>1. Is([k \in 0 .. 0 |-> [left |-> f.bytes - GlobalHeader, more |-> TRUE, packets |-> <<>>]], 0)
    OBVIOUS
  <2> QED
    BY <2>1
<1>2. ASSUME NEW n \in Nat, n \in S PROVE n + 1 \in S
  <2>1. PICK g : Is(g, n)
    BY <1>2
  <2>2. PICK x : x = Value(g, n + 1)
    OBVIOUS
  <2>3. PICK h : h = [k \in 0 .. n + 1 |-> IF k = n + 1 THEN x ELSE g[k]]
    OBVIOUS
  <2>4. ASSUME NEW k \in 0 .. n + 1 PROVE h[k] = Value(h, k)
    <3>1. h[n + 1] = x /\ \A j \in 0 .. n : h[j] = g[j]
      BY <2>3, Extended
    <3>2. \A j \in 1 .. n + 1 : h[j - 1] = g[j - 1]
      BY <2>3, Extended
    <3>3. \A j \in 0 .. n : g[j] = Value(g, j)
      BY <2>1
    <3>4. (k = n + 1 \/ k \in 0 .. n) /\ (k = 0 \/ k \in 1 .. n + 1)
      OBVIOUS
    <3> QED
      BY <2>2, <3>1, <3>2, <3>3, <3>4
  <2>5. Is(h, n + 1)
    BY <2>3, <2>4
  <2> HIDE DEF Is
  <2> QED
    BY <2>5
<1>3. Nat \subseteq S
  <2> HIDE DEF S
  <2> QED
    BY <1>1, <1>2, Induction
<1>4. \E g : Is(g, Len(f.frames))
  BY <1>3
<1> QED
  BY <1>4 DEF Reading

LEMMA GrowingDef ==
  ASSUME NEW ix, NEW records, NEW first, Len(records) \in Nat
  PROVE  Growing(ix, records, first) =
           [k \in 0 .. Len(records) |->
              IF k = 0 THEN ix
              ELSE AddRecord(Growing(ix, records, first)[k - 1], records[k], first + k - 1)]
<1> DEFINE Value(g, k) == IF k = 0 THEN ix ELSE AddRecord(g[k - 1], records[k], first + k - 1)
           Is(g, n) == g = [k \in 0 .. n |-> Value(g, k)]
           S == {n \in Nat : \E g : Is(g, n)}
<1>1. 0 \in S
  <2>1. Is([k \in 0 .. 0 |-> ix], 0)
    OBVIOUS
  <2> QED
    BY <2>1
<1>2. ASSUME NEW n \in Nat, n \in S PROVE n + 1 \in S
  <2>1. PICK g : Is(g, n)
    BY <1>2
  <2>2. PICK x : x = Value(g, n + 1)
    OBVIOUS
  <2>3. PICK h : h = [k \in 0 .. n + 1 |-> IF k = n + 1 THEN x ELSE g[k]]
    OBVIOUS
  <2>4. ASSUME NEW k \in 0 .. n + 1 PROVE h[k] = Value(h, k)
    <3>1. h[n + 1] = x /\ \A j \in 0 .. n : h[j] = g[j]
      BY <2>3, Extended
    <3>2. \A j \in 1 .. n + 1 : h[j - 1] = g[j - 1]
      BY <2>3, Extended
    <3>3. \A j \in 0 .. n : g[j] = Value(g, j)
      BY <2>1
    <3>4. (k = n + 1 \/ k \in 0 .. n) /\ (k = 0 \/ k \in 1 .. n + 1)
      OBVIOUS
    <3> QED
      BY <2>2, <3>1, <3>2, <3>3, <3>4
  <2>5. Is(h, n + 1)
    BY <2>3, <2>4
  <2> HIDE DEF Is
  <2> QED
    BY <2>5
<1>3. Nat \subseteq S
  <2> HIDE DEF S
  <2> QED
    BY <1>1, <1>2, Induction
<1>4. \E g : Is(g, Len(records))
  BY <1>3
<1> QED
  BY <1>4 DEF Growing

LEMMA FillingDef ==
  ASSUME NEW T, Len(T) \in Nat
  PROVE  Filling(T) =
           [k \in 0 .. Len(T) |->
              IF k = 0 THEN [trie |-> EmptyTrie, hash |-> EmptyTable]
              ELSE [trie |-> TrieAdd(Filling(T)[k - 1].trie, T[k].src_ip, k - 1),
                    hash |-> PortAdd(Filling(T)[k - 1].hash, T[k].dst_port, k - 1)]]
<1> DEFINE Value(g, k) == IF k = 0 THEN [trie |-> EmptyTrie, hash |-> EmptyTable] ELSE [trie |-> TrieAdd(g[k - 1].trie, T[k].src_ip, k - 1),
                    hash |-> PortAdd(g[k - 1].hash, T[k].dst_port, k - 1)]
           Is(g, n) == g = [k \in 0 .. n |-> Value(g, k)]
           S == {n \in Nat : \E g : Is(g, n)}
<1>1. 0 \in S
  <2>1. Is([k \in 0 .. 0 |-> [trie |-> EmptyTrie, hash |-> EmptyTable]], 0)
    OBVIOUS
  <2> QED
    BY <2>1
<1>2. ASSUME NEW n \in Nat, n \in S PROVE n + 1 \in S
  <2>1. PICK g : Is(g, n)
    BY <1>2
  <2>2. PICK x : x = Value(g, n + 1)
    OBVIOUS
  <2>3. PICK h : h = [k \in 0 .. n + 1 |-> IF k = n + 1 THEN x ELSE g[k]]
    OBVIOUS
  <2>4. ASSUME NEW k \in 0 .. n + 1 PROVE h[k] = Value(h, k)
    <3>1. h[n + 1] = x /\ \A j \in 0 .. n : h[j] = g[j]
      BY <2>3, Extended
    <3>2. \A j \in 1 .. n + 1 : h[j - 1] = g[j - 1]
      BY <2>3, Extended
    <3>3. \A j \in 0 .. n : g[j] = Value(g, j)
      BY <2>1
    <3>4. (k = n + 1 \/ k \in 0 .. n) /\ (k = 0 \/ k \in 1 .. n + 1)
      OBVIOUS
    <3> QED
      BY <2>2, <3>1, <3>2, <3>3, <3>4
  <2>5. Is(h, n + 1)
    BY <2>3, <2>4
  <2> HIDE DEF Is
  <2> QED
    BY <2>5
<1>3. Nat \subseteq S
  <2> HIDE DEF S
  <2> QED
    BY <1>1, <1>2, Induction
<1>4. \E g : Is(g, Len(T))
  BY <1>3
<1> QED
  BY <1>4 DEF Filling

-----------------------------------------------------------------------------
(* Reading a file.                                                         *)

\* The fields of a frame.
LEMMA FrameFields ==
  ASSUME NEW f \in Frame
  PROVE  /\ f.size \in Nat /\ f.ipv4 \in BOOLEAN /\ f.version \in Nibbles /\ f.ihl \in Nibbles
         /\ f.words \in Sums /\ f.proto \in Bytes /\ f.src \in Addresses /\ f.port \in Ports
         /\ f.total \in Shorts
         /\ [f EXCEPT !.size = f.size] = f
  BY DEF Frame

LEMMA SizeIsNat == ASSUME NEW f \in Frame PROVE f.size \in Nat
  BY FrameFields

\* The ends of the records are in their order.
LEMMA EndOfGrows ==
  ASSUME NEW frames \in Seq(Frame)
  PROVE  /\ EndOf(frames)[0] = GlobalHeader
         /\ \A k \in 0 .. Len(frames) : EndOf(frames)[k] \in Nat
         /\ \A k \in 1 .. Len(frames) :
              EndOf(frames)[k] = EndOf(frames)[k - 1] + RecordHeader + frames[k].size
         /\ \A k \in 1 .. Len(frames) : EndOf(frames)[k - 1] < EndOf(frames)[k]
<1> DEFINE n == Len(frames)
           end == EndOf(frames)
           S == {k \in 0 .. n : end[k] \in Nat}
<1>0. n \in Nat
  OBVIOUS
<1>1. end = [k \in 0 .. n |-> IF k = 0 THEN GlobalHeader ELSE end[k - 1] + RecordHeader + frames[k].size]
  BY EndOfDef
<1>2. end[0] = GlobalHeader
  BY <1>0, <1>1
<1>3. \A k \in 1 .. n : end[k] = end[k - 1] + RecordHeader + frames[k].size
  BY <1>0, <1>1
<1>4. \A k \in 1 .. n : frames[k].size \in Nat
  BY SizeIsNat
<1> HIDE DEF end, n
<1>5. 0 \in S
  BY <1>0, <1>2 DEF GlobalHeader
<1>6. ASSUME NEW k \in 0 .. n - 1, k \in S PROVE k + 1 \in S
  <2>1. k + 1 \in 1 .. n /\ k + 1 - 1 = k
    BY <1>0
  <2>2. end[k + 1] = end[k] + RecordHeader + frames[k + 1].size
    BY <1>3, <2>1
  <2>3. frames[k + 1].size \in Nat /\ end[k] \in Nat
    BY <1>4, <1>6, <2>1
  <2>4. end[k + 1] \in Nat
    BY <2>2, <2>3 DEF RecordHeader
  <2>5. k + 1 \in 0 .. n
    BY <1>0
  <2> QED
    BY <2>4, <2>5
<1>7. 0 .. n \subseteq S
  <2> HIDE DEF S
  <2> QED
    BY <1>0, <1>5, <1>6, InductionUpTo
<1>8. ASSUME NEW k \in 1 .. n PROVE end[k - 1] < end[k]
  <2>1. k - 1 \in 0 .. n
    BY <1>0
  <2>2. end[k - 1] \in Nat
    BY <1>7, <2>1
  <2> QED
    BY <1>3, <1>4, <2>2 DEF RecordHeader
<1> QED
  BY <1>2, <1>3, <1>7, <1>8 DEF end, n

\* Up to some number of records, the whole of each is among the bytes.
LEMMA WholeRecords ==
  ASSUME NEW frames \in Seq(Frame), NEW bytes \in Nat, bytes >= GlobalHeader
  PROVE  \E whole \in 0 .. Len(frames) :
           \A k \in 0 .. Len(frames) : EndOf(frames)[k] <= bytes <=> k <= whole
<1> DEFINE n == Len(frames)
           end == EndOf(frames)
           Beyond == {k \in Nat : k <= n => end[k] > bytes}
<1>0. n \in Nat
  OBVIOUS
<1>1. /\ end[0] = GlobalHeader
      /\ \A k \in 0 .. n : end[k] \in Nat
      /\ \A k \in 1 .. n : end[k - 1] < end[k]
  BY EndOfGrows
<1> HIDE DEF end, n
<1>2. n + 1 \in Beyond
  BY <1>0
<1>3. PICK m \in Beyond : \A k \in Beyond : m <= k
  <2> HIDE DEF Beyond
  <2>1. Beyond \subseteq Nat
    BY DEF Beyond
  <2> QED
    BY <1>2, <2>1, LeastNatural
<1>4. m \in 1 .. n + 1
  <2>1. m # 0
    BY <1>0, <1>1, <1>3 DEF GlobalHeader
  <2> QED
    BY <1>0, <1>2, <1>3, <2>1
<1> DEFINE S == {k \in 0 .. n : k < m \/ end[k] > bytes}
<1>5. 0 \in S
  BY <1>0, <1>4
<1>6. ASSUME NEW k \in 0 .. n - 1, k \in S PROVE k + 1 \in S
  <2>1. k + 1 \in 1 .. n /\ k + 1 - 1 = k /\ k + 1 \in 0 .. n /\ k \in 0 .. n
    BY <1>0
  <2>2. end[k] < end[k + 1] /\ end[k] \in Nat /\ end[k + 1] \in Nat
    BY <1>1, <2>1
  <2>3. CASE end[k] > bytes
    BY <2>1, <2>2, <2>3
  <2>4. CASE k < m /\ k + 1 < m
    BY <2>1, <2>4
  <2>5. CASE k < m /\ ~(k + 1 < m)
    <3>1. k + 1 = m
      BY <1>4, <2>5
    <3> QED
      BY <1>3, <2>1, <3>1
  <2> QED
    BY <1>6, <2>3, <2>4, <2>5
<1>7. 0 .. n \subseteq S
  <2> HIDE DEF S
  <2> QED
    BY <1>0, <1>5, <1>6, InductionUpTo
<1>8. m - 1 \in 0 .. n
  BY <1>0, <1>4
<1>9. ASSUME NEW k \in 0 .. n PROVE end[k] <= bytes <=> k <= m - 1
  <2>1. end[k] \in Nat /\ k \in Nat /\ m \in Nat
    BY <1>0, <1>1, <1>3
  <2>2. k < m \/ end[k] > bytes
    BY <1>7
  <2>3. k \in Beyond => m <= k
    BY <1>3
  <2>4. k < m => ~(end[k] > bytes)
    BY <2>1, <2>3
  <2> QED
    BY <2>1, <2>2, <2>4
<1> QED
  BY <1>8, <1>9 DEF end, n

\* A member that none exceeds is the maximum.
LEMMA MaxIs ==
  ASSUME NEW S \in SUBSET Int, NEW m \in S, \A k \in S : k <= m
  PROVE  Max(S) = m
<1>1. \A k \in S : (\A j \in S : k >= j) => k = m
  OBVIOUS
<1> QED
  BY <1>1 DEF Max

\* A round of the reader that finds a record, and one that does not.
LEMMA ReadRecordIs ==
  ASSUME NEW left \in Int, NEW packets, NEW f \in Frame
  PROVE  /\ left >= RecordHeader + f.size =>
              ReadRecord([left |-> left, more |-> TRUE, packets |-> packets], f) =
                [left |-> left - RecordHeader - f.size, more |-> TRUE, packets |-> Append(packets, f)]
         /\ ~(left >= RecordHeader + f.size) =>
              ReadRecord([left |-> left, more |-> TRUE, packets |-> packets], f) =
                [left |-> left, more |-> FALSE, packets |-> packets]
         /\ ReadRecord([left |-> left, more |-> FALSE, packets |-> packets], f) =
              [left |-> left, more |-> FALSE, packets |-> packets]
<1>1. f.size \in Nat /\ [f EXCEPT !.size = f.size] = f
  BY FrameFields
<1>2. RecordIsThere(left, f) <=> left >= RecordHeader + f.size
  BY <1>1 DEF RecordIsThere, RecordHeader
<1>3. ASSUME left >= RecordHeader + f.size PROVE Data(left, f) = f
  <2>1. f.size <= left - RecordHeader
    BY <1>1, <1>3 DEF RecordHeader
  <2> QED
    BY <1>1, <2>1 DEF Data
<1> QED
  BY <1>2, <1>3 DEF ReadRecord

\* No record ends among the bytes of a torn header.
LEMMA HeaderIsTorn ==
  ASSUME NEW frames \in Seq(Frame), NEW bytes \in Nat, bytes < GlobalHeader
  PROVE  \A k \in 0 .. Len(frames) : EndOf(frames)[k] > bytes
<1> DEFINE n == Len(frames)
           end == EndOf(frames)
           S == {k \in 0 .. n : end[k] > bytes}
<1>0. n \in Nat
  OBVIOUS
<1>1. /\ end[0] = GlobalHeader
      /\ \A k \in 0 .. n : end[k] \in Nat
      /\ \A k \in 1 .. n : end[k - 1] < end[k]
  BY EndOfGrows
<1> HIDE DEF end, n
<1>2. 0 \in S
  BY <1>0, <1>1
<1>3. ASSUME NEW k \in 0 .. n - 1, k \in S PROVE k + 1 \in S
  <2>1. k + 1 \in 1 .. n /\ k + 1 - 1 = k /\ k + 1 \in 0 .. n /\ k \in 0 .. n
    BY <1>0
  <2>2. end[k] < end[k + 1] /\ end[k] \in Nat /\ end[k + 1] \in Nat
    BY <1>1, <2>1
  <2> QED
    BY <1>0, <1>3, <2>1, <2>2
<1>4. 0 .. n \subseteq S
  <2> HIDE DEF S
  <2> QED
    BY <1>0, <1>2, <1>3, InductionUpTo
<1> QED
  BY <1>4 DEF end, n

\* The loop of the reader over a file of which whole frames are whole.
LEMMA RecordsRead ==
  ASSUME NEW frames \in Seq(Frame), NEW bytes \in Nat, NEW whole \in 0 .. Len(frames), NEW r,
         \A k \in 0 .. Len(frames) : EndOf(frames)[k] <= bytes <=> k <= whole,
         r[0] = [left |-> bytes - GlobalHeader, more |-> TRUE, packets |-> <<>>],
         \A k \in 1 .. Len(frames) : r[k] = ReadRecord(r[k - 1], frames[k])
  PROVE  r[Len(frames)].packets = SubSeq(frames, 1, whole)
<1> DEFINE n == Len(frames)
           end == EndOf(frames)
           Read(k) == [left |-> bytes - end[k], more |-> TRUE, packets |-> SubSeq(frames, 1, k)]
           Done == [left |-> bytes - end[whole], more |-> FALSE, packets |-> SubSeq(frames, 1, whole)]
           S == {k \in 0 .. n : r[k] = IF k <= whole THEN Read(k) ELSE Done}
<1>0. n \in Nat /\ whole \in Nat /\ whole \in 0 .. n
  OBVIOUS
<1>1. /\ end[0] = GlobalHeader
      /\ \A k \in 0 .. n : end[k] \in Nat
  BY EndOfGrows
<1>2. \A k \in 1 .. n : end[k] = end[k - 1] + RecordHeader + frames[k].size
  BY EndOfGrows
<1>3. \A k \in 1 .. n : frames[k] \in Frame /\ frames[k].size \in Nat
  BY SizeIsNat
<1>4. SubSeq(frames, 1, 0) = <<>>
  OBVIOUS
<1>5. \A k \in 0 .. n - 1 : Append(SubSeq(frames, 1, k), frames[k + 1]) = SubSeq(frames, 1, k + 1)
  OBVIOUS
<1>6. \A k \in 0 .. n : end[k] <= bytes <=> k <= whole
  OBVIOUS
<1>7. r[0] = [left |-> bytes - GlobalHeader, more |-> TRUE, packets |-> <<>>]
  OBVIOUS
<1>8. \A k \in 1 .. n : r[k] = ReadRecord(r[k - 1], frames[k])
  OBVIOUS
<1> HIDE DEF end, n
<1>9. 0 \in S
  <2>1. 0 <= whole /\ bytes - end[0] = bytes - GlobalHeader /\ 0 \in 0 .. n
    BY <1>0, <1>1
  <2> QED
    BY <1>4, <1>7, <2>1
<1>10. ASSUME NEW k \in 0 .. n - 1, k \in S PROVE k + 1 \in S
  <2>1. k + 1 \in 1 .. n /\ k + 1 - 1 = k /\ k + 1 \in 0 .. n /\ k \in 0 .. n /\ k \in Nat
    BY <1>0
  <2>2. r[k + 1] = ReadRecord(r[k], frames[k + 1])
    BY <1>8, <2>1
  <2>3. PICK e \in Nat : e = end[k]
    BY <1>1, <2>1
  <2>4. PICK g \in Frame : g = frames[k + 1] /\ g.size \in Nat
    BY <1>3, <2>1
  <2>5. end[k + 1] = e + RecordHeader + g.size
    BY <1>2, <2>1, <2>3, <2>4
  <2>6. e + RecordHeader + g.size <= bytes <=> k + 1 <= whole
    BY <1>6, <2>1, <2>5
  <2>7. bytes - e >= RecordHeader + g.size <=> k + 1 <= whole
    BY <2>4, <2>6 DEF RecordHeader
  <2>8. bytes - e \in Int /\ bytes - end[whole] \in Int
    BY <1>0, <1>1
  <2>9. CASE k + 1 <= whole
    <3>1. r[k] = Read(k)
      BY <1>0, <1>10, <2>1, <2>9
    <3>2. ReadRecord([left |-> bytes - e, more |-> TRUE, packets |-> SubSeq(frames, 1, k)], g) =
            [left |-> bytes - e - RecordHeader - g.size, more |-> TRUE,
             packets |-> Append(SubSeq(frames, 1, k), g)]
      BY <2>7, <2>8, <2>9, ReadRecordIs
    <3>3. bytes - e - RecordHeader - g.size = bytes - end[k + 1]
      <4>1. PICK size \in Nat : size = g.size
        BY <2>4
      <4>2. bytes - e - RecordHeader - size = bytes - (e + RecordHeader + size)
        BY DEF RecordHeader
      <4> QED
        BY <2>5, <4>1, <4>2
    <3>4. r[k + 1] = Read(k + 1)
      BY <1>5, <2>2, <2>3, <2>4, <3>1, <3>2, <3>3
    <3> QED
      BY <2>1, <2>9, <3>4
  <2>10. CASE k = whole
    <3>1. r[k] = Read(k)
      BY <1>0, <1>10, <2>1, <2>10
    <3>2. ReadRecord([left |-> bytes - e, more |-> TRUE, packets |-> SubSeq(frames, 1, k)], g) =
            [left |-> bytes - e, more |-> FALSE, packets |-> SubSeq(frames, 1, k)]
      <4>1. ~(bytes - e >= RecordHeader + g.size)
        BY <2>1, <2>7, <2>10
      <4> QED
        BY <2>8, <4>1, ReadRecordIs
    <3>3. r[k + 1] = Done
      BY <2>2, <2>3, <2>4, <2>10, <3>1, <3>2
    <3> QED
      BY <2>1, <2>10, <3>3
  <2>11. CASE whole < k
    <3>1. r[k] = Done
      BY <1>0, <1>10, <2>1, <2>11
    <3>2. ReadRecord(Done, g) = Done
      BY <2>8, ReadRecordIs
    <3>3. ~(k + 1 <= whole)
      BY <1>0, <2>1, <2>11
    <3> QED
      BY <2>1, <2>2, <2>4, <3>1, <3>2, <3>3
  <2> QED
    BY <1>0, <2>1, <2>9, <2>10, <2>11
<1>11. 0 .. n \subseteq S
  <2> HIDE DEF S
  <2> QED
    BY <1>0, <1>9, <1>10, InductionUpTo
<1>12. n \in S
  <2> HIDE DEF S
  <2> QED
    BY <1>0, <1>11
<1>13. n <= whole => n = whole
  BY <1>0
<1>14. r[n] = IF n <= whole THEN Read(n) ELSE Done
  BY <1>12
<1>15. r[n].packets = SubSeq(frames, 1, whole)
  BY <1>13, <1>14
<1> QED
  BY <1>15 DEF n

\* What the reader returns is the frames that are whole.
LEMMA ReaderFindsWholeFrames ==
  ASSUME NEW frames \in Seq(Frame), NEW bytes \in Nat, NEW f,
         f.frames = frames, f.bytes = bytes
  PROVE  /\ TooShort(f) => WholeFrames(f) = <<>>
         /\ ~TooShort(f) => ReadPackets(f) = WholeFrames(f)
         /\ WholeFrames(f) \in Seq(Frame)
<1> DEFINE n == Len(frames)
           end == EndOf(frames)
           kept == {k \in 0 .. n : end[k] <= bytes}
<1>0. n \in Nat
  OBVIOUS
<1>1. WholeFrames(f) = SubSeq(frames, 1, Max(kept \cup {0}))
  BY DEF WholeFrames
<1>2. \A k \in 0 .. n : end[k] \in Nat
  BY EndOfGrows
<1>3. \A whole \in 0 .. n : SubSeq(frames, 1, whole) \in Seq(Frame)
  BY SubSeqProperties
<1>4. SubSeq(frames, 1, 0) = <<>> /\ <<>> \in Seq(Frame)
  OBVIOUS
<1>5. CASE TooShort(f)
  <2>1. bytes < GlobalHeader
    BY <1>5 DEF TooShort
  <2>2. \A k \in 0 .. n : end[k] > bytes
    BY <2>1, HeaderIsTorn
  <2> HIDE DEF n, end
  <2>3. \A k \in 0 .. n : ~(end[k] <= bytes)
    BY <1>2, <2>2
  <2>4. kept \cup {0} = {0}
    BY <2>3
  <2>5. Max({0}) = 0
    <3>1. {0} \in SUBSET Int /\ 0 \in {0} /\ \A k \in {0} : k <= 0
      OBVIOUS
    <3> QED
      BY <3>1, MaxIs
  <2> HIDE DEF kept
  <2>6. WholeFrames(f) = <<>>
    BY <1>1, <1>4, <2>4, <2>5, Zenon
  <2> QED
    BY <1>4, <1>5, <2>6, Zenon
<1>6. CASE ~TooShort(f)
  <2>1. bytes >= GlobalHeader
    BY <1>6 DEF TooShort, GlobalHeader
  <2>2. PICK whole \in 0 .. n : \A k \in 0 .. n : end[k] <= bytes <=> k <= whole
    BY <2>1, WholeRecords
  <2>3. Max(kept \cup {0}) = whole
    <3>1. whole \in kept /\ (\A k \in kept \cup {0} : k <= whole) /\ kept \cup {0} \subseteq Int
      BY <1>0, <2>2
    <3> QED
      BY <3>1, MaxIs
  <2>4. WholeFrames(f) = SubSeq(frames, 1, whole) /\ WholeFrames(f) \in Seq(Frame)
    BY <1>1, <1>3, <2>3
  <2>5. PICK r : r = Reading(f)
    OBVIOUS
  <2>6. r = [k \in 0 .. n |->
              IF k = 0 THEN [left |-> bytes - GlobalHeader, more |-> TRUE, packets |-> <<>>]
              ELSE ReadRecord(r[k - 1], frames[k])]
    BY <1>0, <2>5, ReadingDef
  <2>7. 0 \in 0 .. n /\ \A k \in 1 .. n : k \in 0 .. n /\ k # 0
    BY <1>0
  <2>8. r[0] = [left |-> bytes - GlobalHeader, more |-> TRUE, packets |-> <<>>]
    BY <2>6, <2>7
  <2>9. \A k \in 1 .. n : r[k] = ReadRecord(r[k - 1], frames[k])
    BY <2>6, <2>7
  <2>10. r[n].packets = SubSeq(frames, 1, whole)
    BY <2>2, <2>8, <2>9, RecordsRead
  <2>11. ReadPackets(f) = r[n].packets
    BY <2>5 DEF ReadPackets
  <2> QED
    BY <1>6, <2>4, <2>10, <2>11
<1> QED
  BY <1>5, <1>6

-----------------------------------------------------------------------------
(* Numbers in ascending order.                                             *)

\* A one-to-one correspondence.
LEMMA OneToOne ==
  ASSUME NEW S, NEW T, IsFiniteSet(S), NEW g \in [S -> T],
         \A a, b \in S : g[a] = g[b] => a = b, \A t \in T : \E a \in S : g[a] = t
  PROVE  IsFiniteSet(T) /\ Cardinality(T) = Cardinality(S)
<1>1. g \in Bijection(S, T)
  BY Fun_IsBij
<1>2. ExistsBijection(S, T)
  BY <1>1 DEF ExistsBijection
<1> QED
  BY <1>2, FS_Bijection

\* s has the members of S, each once, in ascending order.
Enumerates(s, n, S) ==
  /\ s \in [1 .. n -> S]
  /\ \A i, j \in 1 .. n : i < j => s[i] < s[j]
  /\ \A x \in S : \E i \in 1 .. n : s[i] = x

\* As many members come before the k-th as there are places before it.
LEMMA CountsUpTo ==
  ASSUME NEW S \in SUBSET Int, NEW n \in Nat, NEW s, Enumerates(s, n, S), NEW k \in 0 .. n,
         NEW T \in SUBSET S, \A j \in 1 .. n : s[j] \in T <=> j <= k
  PROVE  Cardinality(T) = k
<1> DEFINE g == [j \in 1 .. k |-> s[j]]
<1>1. \A j \in 1 .. k : j \in 1 .. n /\ j <= k
  OBVIOUS
<1>2. g \in [1 .. k -> T]
  BY <1>1
<1>3. \A a, b \in 1 .. k : g[a] = g[b] => a = b
  <2>1. \A i, j \in 1 .. n : i < j => s[i] < s[j] /\ s[i] \in Int /\ s[j] \in Int
    BY DEF Enumerates
  <2>2. \A a, b \in 1 .. k : s[a] = s[b] => ~(a < b) /\ ~(b < a)
    BY <1>1, <2>1
  <2> QED
    BY <1>1, <2>2
<1>4. ASSUME NEW t \in T PROVE \E a \in 1 .. k : g[a] = t
  <2>1. PICK i \in 1 .. n : s[i] = t
    BY DEF Enumerates
  <2>2. i \in 1 .. k
    BY <2>1
  <2> QED
    BY <2>1, <2>2
<1>5. IsFiniteSet(1 .. k) /\ Cardinality(1 .. k) = k
  BY FS_Interval
<1> HIDE DEF g
<1> QED
  BY <1>2, <1>3, <1>4, <1>5, OneToOne

\* An enumeration is what Ascending and Cardinality speak of.
LEMMA EnumeratedIsAscending ==
  ASSUME NEW S \in SUBSET Int, NEW n \in Nat, NEW s, Enumerates(s, n, S)
  PROVE  IsFiniteSet(S) /\ Cardinality(S) = n /\ Ascending(S) = s
<1> DEFINE v == [x \in S |-> x]
<1>1. \A i \in 1 .. n : s[i] \in S /\ s[i] \in Int
  BY DEF Enumerates
<1>2. \A i, j \in 1 .. n : i < j => s[i] < s[j]
  BY DEF Enumerates
<1>3. \A x \in S : \E i \in 1 .. n : s[i] = x
  BY DEF Enumerates
<1>4. \A i, j \in 1 .. n : (s[i] <= s[j] <=> i <= j) /\ (s[i] < s[j] <=> i < j)
  BY <1>1, <1>2
<1>5. IsFiniteSet(S) /\ Cardinality(S) = n
  <2>1. IsFiniteSet(1 .. n) /\ Cardinality(1 .. n) = n
    BY FS_Interval
  <2>2. \A i, j \in 1 .. n : s[i] = s[j] => i = j
    BY <1>1, <1>2
  <2>3. s \in [1 .. n -> S]
    BY DEF Enumerates
  <2> QED
    BY <1>3, <2>1, <2>2, <2>3, OneToOne
<1>6. DOMAIN v = S /\ Range(v) = S
  BY DEF Range
<1>7. ASSUME NEW k \in 1 .. n PROVE LessThan(v, s[k]) = k - 1 /\ UpTo(v, s[k]) = k
  <2> DEFINE before == {e \in S : e < s[k]}
             upto == {e \in S : e <= s[k]}
  <2>1. LessThan(v, s[k]) = Cardinality(before) /\ UpTo(v, s[k]) = Cardinality(upto)
    <3>1. {e \in DOMAIN v : v[e] < s[k]} = before /\ {e \in DOMAIN v : v[e] <= s[k]} = upto
      OBVIOUS
    <3> QED
      BY <3>1 DEF LessThan, UpTo
  <2>2. \A j \in 1 .. n : s[j] \in before <=> j <= k - 1
    BY <1>1, <1>4
  <2>3. \A j \in 1 .. n : s[j] \in upto <=> j <= k
    BY <1>1, <1>4
  <2>4. before \in SUBSET S /\ upto \in SUBSET S /\ k - 1 \in 0 .. n /\ k \in 0 .. n
    OBVIOUS
  <2> HIDE DEF before, upto
  <2> QED
    BY <2>1, <2>2, <2>3, <2>4, CountsUpTo
<1>8. ASSUME NEW k \in 1 .. n
      PROVE  (CHOOSE x \in S : LessThan(v, x) < k /\ k <= UpTo(v, x)) = s[k]
  <2>1. LessThan(v, s[k]) < k /\ k <= UpTo(v, s[k])
    BY <1>7
  <2>2. ASSUME NEW x \in S, LessThan(v, x) < k /\ k <= UpTo(v, x) PROVE x = s[k]
    <3>1. PICK i \in 1 .. n : s[i] = x
      BY <1>3
    <3>2. i - 1 < k /\ k <= i
      BY <1>7, <2>2, <3>1
    <3>3. i = k
      BY <3>2
    <3> QED
      BY <3>1, <3>3
  <2>3. s[k] \in S
    BY <1>1
  <2> HIDE DEF v
  <2> QED
    BY <2>1, <2>2, <2>3
<1> HIDE DEF v
<1>9. Sorted(v) = [k \in 1 .. n |-> CHOOSE x \in S : LessThan(v, x) < k /\ k <= UpTo(v, x)]
  BY <1>5, <1>6 DEF Sorted
<1>10. s = [k \in 1 .. n |-> s[k]]
  BY DEF Enumerates
<1>11. Sorted(v) = s
  BY <1>8, <1>9, <1>10
<1> QED
  BY <1>5, <1>11 DEF Ascending, v

\* Every bounded set of naturals can be enumerated.
LEMMA Enumeration ==
  ASSUME NEW n \in Nat, NEW S \in SUBSET (0 .. n - 1)
  PROVE  \E m \in Nat : \E s : Enumerates(s, m, S)
<1> DEFINE T == {k \in Nat : \A R \in SUBSET (0 .. k - 1) : \E m \in Nat : \E s : Enumerates(s, m, R)}
<1>1. 0 \in T
  <2>1. SUFFICES ASSUME NEW R \in SUBSET (0 .. 0 - 1) PROVE \E m \in Nat : \E s : Enumerates(s, m, R)
    OBVIOUS
  <2>2. R = {}
    OBVIOUS
  <2>3. Enumerates(<<>>, 0, {})
    BY DEF Enumerates
  <2> QED
    BY <2>2, <2>3
<1>2. ASSUME NEW k \in Nat, k \in T PROVE k + 1 \in T
  <2>1. SUFFICES ASSUME NEW R \in SUBSET (0 .. (k + 1) - 1)
                 PROVE  \E m \in Nat : \E s : Enumerates(s, m, R)
    OBVIOUS
  <2>2. PICK m \in Nat : \E s : Enumerates(s, m, R \ {k})
    <3>1. R \ {k} \in SUBSET (0 .. k - 1)
      OBVIOUS
    <3> QED
      BY <1>2, <3>1
  <2>3. PICK s : Enumerates(s, m, R \ {k})
    BY <2>2
  <2>4. CASE k \notin R
    <3>1. R \ {k} = R
      BY <2>4
    <3> QED
      BY <2>3, <3>1
  <2>5. CASE k \in R
    <3> DEFINE t == [i \in 1 .. m + 1 |-> IF i = m + 1 THEN k ELSE s[i]]
    <3>1. \A i \in 1 .. m + 1 : i = m + 1 \/ i \in 1 .. m
      OBVIOUS
    <3>2. \A i \in 1 .. m : s[i] \in R /\ s[i] < k /\ i \in 1 .. m + 1 /\ i # m + 1
      <4>1. \A i \in 1 .. m : s[i] \in R \ {k}
        BY <2>3 DEF Enumerates
      <4>2. \A x \in R \ {k} : x < k
        OBVIOUS
      <4>3. \A i \in 1 .. m : i \in 1 .. m + 1 /\ i # m + 1
        OBVIOUS
      <4> QED
        BY <4>1, <4>2, <4>3
    <3>3. t[m + 1] = k /\ \A i \in 1 .. m : t[i] = s[i]
      BY <3>2
    <3>4. t \in [1 .. m + 1 -> R]
      BY <2>5, <3>1, <3>2
    <3>5. m + 1 \in 1 .. m + 1
      OBVIOUS
    <3> HIDE DEF t
    <3>6. ASSUME NEW i \in 1 .. m + 1, NEW j \in 1 .. m + 1, i < j PROVE t[i] < t[j]
      <4>1. i \in 1 .. m
        BY <3>6
      <4>2. CASE j = m + 1
        BY <3>2, <3>3, <4>1, <4>2
      <4>3. CASE j \in 1 .. m
        BY <2>3, <3>3, <3>6, <4>1, <4>3 DEF Enumerates
      <4> QED
        BY <3>1, <4>2, <4>3
    <3>7. ASSUME NEW x \in R PROVE \E i \in 1 .. m + 1 : t[i] = x
      <4>1. CASE x = k
        BY <3>3, <3>5, <4>1
      <4>2. CASE x # k
        <5>1. PICK i \in 1 .. m : s[i] = x
          BY <2>3, <4>2 DEF Enumerates
        <5> QED
          BY <3>2, <3>3, <5>1
      <4> QED
        BY <4>1, <4>2
    <3>8. Enumerates(t, m + 1, R)
      BY <3>4, <3>6, <3>7 DEF Enumerates
    <3> QED
      BY <3>8
  <2> QED
    BY <2>4, <2>5
<1>3. Nat \subseteq T
  <2> HIDE DEF T
  <2> QED
    BY <1>1, <1>2, Induction
<1> QED
  BY <1>3

\* What Ascending promises.
LEMMA AscendingEnumerates ==
  ASSUME NEW n \in Nat, NEW S \in SUBSET (0 .. n - 1)
  PROVE  /\ IsFiniteSet(S) /\ Cardinality(S) \in Nat
         /\ Enumerates(Ascending(S), Cardinality(S), S)
         /\ Ascending(S) \in Seq(S) /\ Len(Ascending(S)) = Cardinality(S)
<1>1. PICK m \in Nat : \E s : Enumerates(s, m, S)
  BY Enumeration
<1>2. PICK s : Enumerates(s, m, S)
  BY <1>1
<1>3. IsFiniteSet(S) /\ Cardinality(S) = m /\ Ascending(S) = s
  BY <1>2, EnumeratedIsAscending
<1>4. s \in [1 .. m -> S]
  BY <1>2 DEF Enumerates
<1>5. s \in Seq(S) /\ Len(s) = m
  BY <1>4
<1> QED
  BY <1>2, <1>3, <1>5

\* The values of a function that has none twice.
LEMMA SortedOfDifferent ==
  ASSUME NEW v, IsFiniteSet(DOMAIN v), \A a, b \in DOMAIN v : v[a] = v[b] => a = b
  PROVE  Sorted(v) = Ascending(Range(v))
<1> DEFINE D == DOMAIN v
           R == Range(v)
           w == [x \in R |-> x]
<1>1. R = {v[a] : a \in D}
  BY DEF Range
<1>2. DOMAIN w = R /\ Range(w) = R
  BY DEF Range
<1>3. Cardinality(D) = Cardinality(R)
  <2>1. [a \in D |-> v[a]] \in [D -> R]
    BY <1>1
  <2> DEFINE g == [a \in D |-> v[a]]
  <2>2. \A a, b \in D : g[a] = g[b] => a = b
    OBVIOUS
  <2>3. \A t \in R : \E a \in D : g[a] = t
    BY <1>1
  <2> HIDE DEF g, R
  <2> QED
    BY <2>1, <2>2, <2>3, OneToOne DEF g
<1>4. ASSUME NEW x PROVE LessThan(v, x) = LessThan(w, x)
  <2> DEFINE A == {e \in D : v[e] < x}
             B == {e \in R : e < x}
             g == [a \in A |-> v[a]]
  <2>1. LessThan(v, x) = Cardinality(A) /\ LessThan(w, x) = Cardinality(B)
    <3>1. {e \in DOMAIN w : w[e] < x} = B
      BY <1>2
    <3> QED
      BY <3>1 DEF LessThan
  <2>2. g \in [A -> B]
    BY <1>1
  <2>3. \A a, b \in A : g[a] = g[b] => a = b
    OBVIOUS
  <2>4. \A t \in B : \E a \in A : g[a] = t
    BY <1>1
  <2>5. IsFiniteSet(A)
    BY FS_Subset
  <2> HIDE DEF g, A, B
  <2> QED
    BY <2>1, <2>2, <2>3, <2>4, <2>5, OneToOne
<1>5. ASSUME NEW x PROVE UpTo(v, x) = UpTo(w, x)
  <2> DEFINE A == {e \in D : v[e] <= x}
             B == {e \in R : e <= x}
             g == [a \in A |-> v[a]]
  <2>1. UpTo(v, x) = Cardinality(A) /\ UpTo(w, x) = Cardinality(B)
    <3>1. {e \in DOMAIN w : w[e] <= x} = B
      BY <1>2
    <3> QED
      BY <3>1 DEF UpTo
  <2>2. g \in [A -> B]
    BY <1>1
  <2>3. \A a, b \in A : g[a] = g[b] => a = b
    OBVIOUS
  <2>4. \A t \in B : \E a \in A : g[a] = t
    BY <1>1
  <2>5. IsFiniteSet(A)
    BY FS_Subset
  <2> HIDE DEF g, A, B
  <2> QED
    BY <2>1, <2>2, <2>3, <2>4, <2>5, OneToOne
<1> HIDE DEF w
<1>6. Sorted(v) = [k \in 1 .. Cardinality(D) |-> CHOOSE x \in R : LessThan(v, x) < k /\ k <= UpTo(v, x)]
  BY DEF Sorted
<1>7. Sorted(w) = [k \in 1 .. Cardinality(R) |-> CHOOSE x \in R : LessThan(w, x) < k /\ k <= UpTo(w, x)]
  BY <1>2 DEF Sorted
<1> HIDE DEF D, R
<1>8. Sorted(v) = Sorted(w)
  BY <1>3, <1>4, <1>5, <1>6, <1>7
<1> QED
  BY <1>8 DEF Ascending, w, R

\* A header is accepted exactly when the one's-complement sum of its words, with
\* the checksum among them, is minus zero: parser.py:44-49 has the meaning of RFC
\* 1071 for every header an IHL can announce.
THEOREM ChecksumMeaning ==
  ASSUME NEW total \in Nat, total <= MaxSum
  PROVE  VerifyIpChecksum(total) <=> (total > 0 /\ total % 65535 = 0)
<1> DEFINE low == total % 65536
           high == total \div 65536
           sum == low + high
<1>1. /\ low \in Nat /\ low <= 65535
      /\ high \in Nat /\ high <= 29
      /\ total = 65536 * high + low
  BY DEF MaxSum
<1> HIDE DEF low, high
\* The first fold changes neither the remainder nor whether the sum is zero.
<1>2. total % 65535 = sum % 65535
  BY <1>1
<1>3. total = 0 <=> sum = 0
  BY <1>1
<1>4. sum \in Nat /\ sum <= 65564
  BY <1>1
<1> HIDE DEF sum
\* What is left to fold is at most 65564, so its remainder is zero at 0 and 65535.
<1>5. sum % 65535 = 0 <=> (sum = 0 \/ sum = 65535)
  BY <1>4
\* The second fold takes a sum above 65535 to at most 29.
<1>6. Fold(sum) = 65535 <=> sum = 65535
  BY <1>4 DEF Fold
<1>7. Fold(total) = sum
  BY DEF Fold, sum, low, high
<1> QED
  BY <1>1, <1>2, <1>3, <1>4, <1>5, <1>6, <1>7 DEF VerifyIpChecksum

\* What the parser reads of a frame it does not discard lies within the frame:
\* the early returns of parse_packet leave nothing for an out-of-range read, for
\* every size, header length and protocol, so a short frame is never an exception.
THEOREM ParserStaysInFrame ==
  ASSUME NEW f, f.size \in Nat, f.ihl \in Nat, NEW verify
  PROVE  ~Raises(f, verify)
<1> SUFFICES ASSUME ~Discarded(f, verify) PROVE BytesRead(f) <= f.size
  BY DEF Raises, BytesRead, Transport, HeaderLength, Ethernet
<1>1. f.size >= Ethernet + 20
  BY DEF Discarded, Ethernet
<1>2. Transport(f) \in Nat
  BY DEF Transport, HeaderLength, Ethernet
<1>3. CASE HasTcp(f)
  BY <1>2, <1>3 DEF BytesRead, HasTcp
<1>4. CASE ~HasTcp(f) /\ HasUdp(f)
  BY <1>2, <1>4 DEF BytesRead, HasUdp
<1>5. CASE ~HasTcp(f) /\ ~HasUdp(f)
  BY <1>1, <1>5 DEF BytesRead
<1> QED
  BY <1>3, <1>4, <1>5

-----------------------------------------------------------------------------
(* What the parser makes of frames.                                        *)

\* The rows of a store.
Row == [src_ip : Addresses, dst_port : Ports, proto : Bytes, size : Shorts]

\* The early returns discard what is not an IPv4 packet with its header and, in a
\* file, what fails the checksum.
LEMMA KeptFrames ==
  ASSUME NEW f \in Frame, NEW verify \in BOOLEAN
  PROVE  ~Discarded(f, verify) <=> Intact(f) /\ (verify => Genuine(f))
<1>1. f.size \in Nat /\ f.ipv4 \in BOOLEAN /\ f.ihl \in Nat /\ f.words \in Nat /\ f.words <= MaxSum
  BY FrameFields DEF Nibbles, Sums
<1>2. VerifyIpChecksum(f.words) <=> Genuine(f)
  BY <1>1, ChecksumMeaning DEF Genuine
<1>3. Intact(f) <=> ~(\/ f.size < Ethernet
                     \/ ~f.ipv4
                     \/ f.size < Ethernet + 20
                     \/ f.version # 4
                     \/ HeaderLength(f) < 20 \/ f.size < Ethernet + HeaderLength(f))
  BY <1>1 DEF Intact, HeaderLength, Ethernet
<1> QED
  BY <1>2, <1>3 DEF Discarded

\* What it reads is what the packet says.
LEMMA RecordIsRow ==
  ASSUME NEW f \in Frame
  PROVE  Record(f) = RowOf(f) /\ RowOf(f) \in Row
<1>1. f.size \in Nat /\ f.ihl \in Nat /\ f.proto \in Bytes /\ f.src \in Addresses
      /\ f.port \in Ports /\ f.total \in Shorts
  BY FrameFields DEF Nibbles
<1>2. 0 \in Ports
  BY PortsAssumption DEF Ports
<1>3. HeaderLength(f) \in Nat
  BY <1>1 DEF HeaderLength
<1> DEFINE there == /\ f.proto \in {TCP, UDP}
                    /\ f.size >= Ethernet + HeaderLength(f) + NeededOf(f.proto)
<1>4. HasTcp(f) \/ HasUdp(f) <=> there
  BY <1>1, <1>3 DEF HasTcp, HasUdp, NeededOf, Transport, TCP, UDP, Ethernet
<1>5. DstPort(f) = IF there THEN f.port ELSE 0
  BY <1>4 DEF DstPort, PortAt, Transport
<1>6. RowOf(f).dst_port = DstPort(f) /\ DstPort(f) \in Ports
  BY <1>1, <1>2, <1>5 DEF RowOf
<1>7. RowOf(f) = [src_ip |-> f.src, proto |-> f.proto, size |-> f.total, dst_port |-> DstPort(f)]
  BY <1>5 DEF RowOf
<1> QED
  BY <1>1, <1>6, <1>7 DEF Record, Row

\* The parser makes of frames the rows that the sound ones stand for.
LEMMA ParsedIsRowsOf ==
  ASSUME NEW frames \in Seq(Frame), NEW verify \in BOOLEAN
  PROVE  /\ Parsed(frames, verify) = RowsOf(frames, verify)
         /\ RowsOf(frames, verify) \in Seq(Row)
<1> DEFINE kept == {i \in DOMAIN frames : ~Discarded(frames[i], verify)}
           sound == {i \in DOMAIN frames : Intact(frames[i]) /\ (verify => Genuine(frames[i]))}
<1>1. \A i \in DOMAIN frames : frames[i] \in Frame
  OBVIOUS
<1>2. kept = sound
  BY <1>1, KeptFrames
<1>3. Len(frames) + 1 \in Nat /\ sound \in SUBSET (0 .. (Len(frames) + 1) - 1)
  OBVIOUS
<1>4. Ascending(sound) \in Seq(sound)
  BY <1>3, AscendingEnumerates
<1> DEFINE s == Ascending(sound)
<1>5. \A k \in DOMAIN s : frames[s[k]] \in Frame
  <2>1. \A k \in DOMAIN s : s[k] \in sound
    BY <1>4
  <2> QED
    BY <1>1, <2>1
<1>6. Parsed(frames, verify) = [k \in DOMAIN s |-> Record(frames[s[k]])]
  BY <1>2 DEF Parsed
<1>7. RowsOf(frames, verify) = [k \in DOMAIN s |-> RowOf(frames[s[k]])]
  BY DEF RowsOf
<1>8. DOMAIN s = 1 .. Len(s) /\ Len(s) \in Nat
  BY <1>4
<1> HIDE DEF s
<1>9. \A k \in DOMAIN s : Record(frames[s[k]]) = RowOf(frames[s[k]]) /\ RowOf(frames[s[k]]) \in Row
  BY <1>5, RecordIsRow
<1> QED
  BY <1>6, <1>7, <1>8, <1>9

-----------------------------------------------------------------------------
(* What captures put into the store.                                       *)

CaptureInv ==
  /\ pcap \in [frames : Seq(Frame), bytes : Nat]
  /\ table \in Seq(Row)
  /\ ~aborted
  /\ owed = table

\* A step adds rows to the store, or leaves it as it is.
Adds == UNCHANGED <<table, grown>> \/ \E records \in Seq(Row) : Store(records)

\* Sizes and ends of records are naturals.
LEMMA FileFields ==
  ASSUME NEW frames \in Seq(Frame)
  PROVE  FileSize(frames) \in Nat /\ \A k \in DOMAIN frames : EndOf(frames)[k - 1] \in Nat
<1>1. Len(frames) \in Nat /\ Len(frames) \in 0 .. Len(frames)
      /\ \A k \in DOMAIN frames : k - 1 \in 0 .. Len(frames)
  OBVIOUS
<1>2. \A k \in 0 .. Len(frames) : EndOf(frames)[k] \in Nat
  BY EndOfGrows
<1> QED
  BY <1>1, <1>2 DEF FileSize

\* What writing a file and cutting it leave is a file.
LEMMA CaptureKeepsInv ==
  ASSUME CaptureInv, NEW frames \in Seq(Frame), Capture(frames)
  PROVE  CaptureInv' /\ Adds
<1>1. FileSize(frames) \in Nat
  BY FileFields
<1>2. pcap' = [frames |-> frames, bytes |-> FileSize(frames)]
  BY DEF Capture, WritePackets
<1>3. pcap' \in [frames : Seq(Frame), bytes : Nat]
  BY <1>1, <1>2
<1> QED
  BY <1>3 DEF CaptureInv, Capture, stored, Adds

LEMMA InterruptKeepsInv ==
  ASSUME CaptureInv, NEW bytes, Interrupt(bytes)
  PROVE  CaptureInv' /\ Adds
<1>0. bytes \in Nat
  BY DEF Interrupt, CaptureInv
<1>1. pcap' = [pcap EXCEPT !.bytes = bytes]
  BY DEF Interrupt
<1>2. pcap' \in [frames : Seq(Frame), bytes : Nat]
  BY <1>0, <1>1 DEF CaptureInv
<1> QED
  BY <1>2 DEF CaptureInv, Interrupt, stored, Adds

\* No frame makes the parser raise.
LEMMA NoFrameRaises ==
  ASSUME NEW f \in Frame, NEW verify
  PROVE  ~Raises(f, verify)
<1>1. f.size \in Nat /\ f.ihl \in Nat
  BY FrameFields DEF Nibbles
<1> QED
  BY <1>1, ParserStaysInFrame

\* Rows that are added to both keep them equal.
LEMMA StoreKeepsInv ==
  ASSUME CaptureInv, NEW records \in Seq(Row), Store(records),
         owed' = owed \o records, UNCHANGED aborted,
         pcap' \in [frames : Seq(Frame), bytes : Nat]
  PROVE  CaptureInv' /\ Adds
<1>1. table' = table \o records
  BY DEF Store
<1>2. table' \in Seq(Row)
  BY <1>1 DEF CaptureInv
<1> QED
  BY <1>1, <1>2 DEF CaptureInv, Adds

\* An import adds the rows of the whole frames, and a live capture that of its frame.
LEMMA ImportKeepsInv ==
  ASSUME CaptureInv, Import
  PROVE  CaptureInv' /\ Adds
<1> DEFINE packets == IF TooShort(pcap) THEN <<>> ELSE ReadPackets(pcap)
<1>1. pcap.frames \in Seq(Frame) /\ pcap.bytes \in Nat
  BY DEF CaptureInv
<1>2. packets = WholeFrames(pcap) /\ WholeFrames(pcap) \in Seq(Frame)
  BY <1>1, ReaderFindsWholeFrames
<1> HIDE DEF packets
<1>3. \A i \in DOMAIN packets : ~Raises(packets[i], TRUE)
  <2>1. \A i \in DOMAIN packets : packets[i] \in Frame
    BY <1>2
  <2> QED
    BY <2>1, NoFrameRaises
<1>4. Store(Parsed(packets, TRUE)) /\ UNCHANGED aborted
  BY <1>3 DEF Import, packets
<1>5. /\ Parsed(packets, TRUE) = RowsOf(WholeFrames(pcap), TRUE)
      /\ RowsOf(WholeFrames(pcap), TRUE) \in Seq(Row)
  BY <1>2, ParsedIsRowsOf
<1>6. owed' = owed \o RowsOf(WholeFrames(pcap), TRUE) /\ pcap' = NoFile
  BY DEF Import
<1>7. pcap' \in [frames : Seq(Frame), bytes : Nat]
  BY <1>6 DEF NoFile
<1> QED
  BY <1>4, <1>5, <1>6, <1>7, StoreKeepsInv

LEMMA SniffKeepsInv ==
  ASSUME CaptureInv, NEW f \in Frame, Sniff(f)
  PROVE  CaptureInv' /\ Adds
<1>1. ~Raises(f, FALSE)
  BY NoFrameRaises
<1>2. Store(Parsed(<<f>>, FALSE)) /\ UNCHANGED aborted
  BY <1>1 DEF Sniff
<1>3. <<f>> \in Seq(Frame)
  OBVIOUS
<1>4. Parsed(<<f>>, FALSE) = RowsOf(<<f>>, FALSE) /\ RowsOf(<<f>>, FALSE) \in Seq(Row)
  BY <1>3, ParsedIsRowsOf
<1>5. owed' = owed \o RowsOf(<<f>>, FALSE) /\ UNCHANGED pcap
  BY DEF Sniff
<1>6. pcap' \in [frames : Seq(Frame), bytes : Nat]
  BY <1>5 DEF CaptureInv
<1> QED
  BY <1>2, <1>4, <1>5, <1>6, StoreKeepsInv

\* The invariant is inductive.
LEMMA InitCaptureInv == CaptureInit => CaptureInv /\ grown = Empty /\ table = <<>>
<1>1. NoFile \in [frames : Seq(Frame), bytes : Nat]
  BY DEF NoFile
<1> QED
  BY <1>1 DEF CaptureInit, CaptureInv

LEMMA StepCaptureInv ==
  ASSUME CaptureInv, [CaptureNext]_captureVars
  PROVE  CaptureInv' /\ Adds
<1>1. CASE UNCHANGED captureVars
  BY <1>1 DEF CaptureInv, captureVars, stored, Adds
<1>2. CASE CaptureFile
  <2>1. \A n : \A frames \in BoundedSeq(Frames, n) : frames \in Seq(Frame)
    BY FramesAssumption DEF BoundedSeq, SeqOf
  <2>2. \A f \in OddFrames : <<f>> \in Seq(Frame)
    BY FramesAssumption
  <2>3. PICK frames \in Seq(Frame) : Capture(frames)
    BY <1>2, <2>1, <2>2, Zenon DEF CaptureFile
  <2> QED
    BY <2>3, CaptureKeepsInv
<1>3. CASE CutShort
  BY <1>3, InterruptKeepsInv DEF CutShort
<1>4. CASE Import
  BY <1>4, ImportKeepsInv
<1>5. CASE CaptureLive
  <2>1. PICK f \in Frame : Sniff(f)
    BY <1>5, FramesAssumption DEF CaptureLive
  <2> QED
    BY <2>1, SniffKeepsInv
<1> QED
  BY <1>1, <1>2, <1>3, <1>4, <1>5 DEF CaptureNext

LEMMA CaptureInvariance == CaptureSpec => []CaptureInv
<1>1. CaptureInit => CaptureInv
  BY InitCaptureInv
<1>2. CaptureInv /\ [CaptureNext]_captureVars => CaptureInv'
  BY StepCaptureInv
<1> QED
  BY <1>1, <1>2, PTL DEF CaptureSpec

\* Whatever frames there are and however the files are cut, the store holds the rows
\* of the sound packets whose frames are whole, in order, and no frame aborts an
\* import.
THEOREM StoreHasGoodFrames == CaptureSpec => []ImportKeepsGoodFrames
<1>1. CaptureInv => ImportKeepsGoodFrames
  BY DEF CaptureInv, ImportKeepsGoodFrames
<1> QED
  BY <1>1, CaptureInvariance, PTL

-----------------------------------------------------------------------------
(* What the index structures hold.                                         *)

\* The rows of a table with a property.
WithPrefix(T, value, bits) == {r \in 0 .. Len(T) - 1 : Node(T[r + 1].src_ip, bits) = Node(value, bits)}
WithPort(T, port) == {r \in 0 .. Len(T) - 1 : T[r + 1].dst_port = port}
WithProto(T, proto) == {r \in 0 .. Len(T) - 1 : T[r + 1].proto = proto}

\* A list of the rows in S.
Lists(s, S) == s \in Seq(S) /\ Enumerates(s, Len(s), S)

ExactTrie(trie, T) ==
  /\ \A leaf \in DOMAIN trie.rows : \E value \in Addresses : leaf = Node(value, Depth)
  /\ \A value \in Addresses :
       Lists(At(trie.rows, Node(value, Depth), <<>>), WithPrefix(T, value, Depth))
  /\ \A value \in Addresses : \A bits \in 0 .. Depth :
       At(trie.count, Node(value, bits), 0) = Cardinality(WithPrefix(T, value, bits))

ExactTable(hash, T) ==
  DOMAIN hash = Ports /\ \A port \in Ports : Lists(hash[port], WithPort(T, port))

ExactBitmaps(bitmap, T) == \A proto \in Bytes : At(bitmap, proto, {}) = WithProto(T, proto)

Exact(ix, T) ==
  /\ ExactTrie(ix.trie, T) /\ ExactTable(ix.hash, T) /\ ExactBitmaps(ix.bitmap, T)
  /\ ix.rows = Len(T)

\* The number of bits of an address.
LEMMA DepthIsNat == Depth \in Nat
  BY AddressAssumption DEF Depth

\* A leaf has the whole of an address.
LEMMA LeafIs ==
  ASSUME NEW value \in Int
  PROVE  Node(value, Depth) = <<Depth, value>>
<1>1. Depth - Depth = 0
  BY DepthIsNat
<1>2. 2 ^ 0 = 1
  OBVIOUS
<1>3. value \div 1 = value
  OBVIOUS
<1> QED
  BY <1>1, <1>2, <1>3 DEF Node

\* A list grows by a row beyond those that it has.
LEMMA ListsMore ==
  ASSUME NEW n \in Nat, NEW S \in SUBSET (0 .. n - 1), NEW s, Lists(s, S)
  PROVE  Lists(Append(s, n), S \cup {n})
<1> DEFINE m == Len(s)
           t == Append(s, n)
           R == S \cup {n}
<1>1. m \in Nat /\ s \in Seq(S) /\ s \in Seq(R)
  BY DEF Lists
<1>2. t \in Seq(R) /\ Len(t) = m + 1 /\ t[m + 1] = n /\ \A i \in 1 .. m : t[i] = s[i]
  BY <1>1
<1>3. /\ \A i, j \in 1 .. m : i < j => s[i] < s[j]
      /\ \A x \in S : \E i \in 1 .. m : s[i] = x
      /\ \A i \in 1 .. m : s[i] \in S
  BY DEF Lists, Enumerates
<1> HIDE DEF m, t
<1>4. t \in [1 .. m + 1 -> R]
  BY <1>1, <1>2
<1>5. ASSUME NEW i \in 1 .. m + 1, NEW j \in 1 .. m + 1, i < j PROVE t[i] < t[j]
  <2>1. i \in 1 .. m /\ (j = m + 1 \/ j \in 1 .. m)
    BY <1>1, <1>5
  <2>2. s[i] < n
    <3>1. \A x \in S : x < n
      OBVIOUS
    <3> QED
      BY <1>3, <2>1, <3>1
  <2> QED
    BY <1>2, <1>3, <1>5, <2>1, <2>2
<1>6. ASSUME NEW x \in R PROVE \E i \in 1 .. m + 1 : t[i] = x
  <2>1. m + 1 \in 1 .. m + 1 /\ \A i \in 1 .. m : i \in 1 .. m + 1
    BY <1>1
  <2> QED
    BY <1>2, <1>3, <2>1
<1>7. Enumerates(t, Len(t), R)
  BY <1>2, <1>4, <1>5, <1>6 DEF Enumerates
<1> QED
  BY <1>2, <1>7 DEF Lists, t

\* Of no rows the list is empty, and a list of rows is what Ascending makes of them.
LEMMA ListsNothing == Lists(<<>>, {})
  BY DEF Lists, Enumerates

LEMMA ListIsAscending ==
  ASSUME NEW n \in Nat, NEW S \in SUBSET (0 .. n - 1), NEW s, Lists(s, S)
  PROVE  s = Ascending(S) /\ Len(s) = Cardinality(S)
<1>1. Len(s) \in Nat /\ S \in SUBSET Int /\ Enumerates(s, Len(s), S)
  BY DEF Lists
<1> QED
  BY <1>1, EnumeratedIsAscending

\* What one more row changes.
LEMMA OneMoreRow ==
  ASSUME NEW T \in Seq(Row), NEW rec \in Row, NEW U, U = Append(T, rec)
  PROVE  /\ U \in Seq(Row) /\ Len(U) = Len(T) + 1 /\ Len(T) \in Nat
         /\ \A r \in 0 .. Len(U) - 1 : r \in 0 .. Len(T) - 1 \/ r = Len(T)
         /\ \A r \in 0 .. Len(T) - 1 : r \in 0 .. Len(U) - 1 /\ U[r + 1] = T[r + 1]
         /\ Len(T) \in 0 .. Len(U) - 1 /\ U[Len(T) + 1] = rec
<1> DEFINE n == Len(T)
<1>1. n \in Nat /\ U \in Seq(Row) /\ Len(U) = n + 1
  OBVIOUS
<1>2. U[n + 1] = rec /\ \A i \in 1 .. n : U[i] = T[i]
  OBVIOUS
<1> HIDE DEF n
<1>3. \A r \in 0 .. n - 1 : r + 1 \in 1 .. n
  BY <1>1
<1>4. /\ \A r \in 0 .. (n + 1) - 1 : r \in 0 .. n - 1 \/ r = n
      /\ \A r \in 0 .. n - 1 : r \in 0 .. (n + 1) - 1
      /\ n \in 0 .. (n + 1) - 1
  BY <1>1
<1>5. \A r \in 0 .. n - 1 : U[r + 1] = T[r + 1]
  BY <1>2, <1>3
<1> QED
  BY <1>1, <1>2, <1>4, <1>5 DEF n

\* Which rows have a property when there is one more.
LEMMA OneMorePrefix ==
  ASSUME NEW T \in Seq(Row), NEW rec \in Row, NEW value, NEW bits
  PROVE  /\ WithPrefix(T, value, bits) \in SUBSET (0 .. Len(T) - 1)
         /\ WithPrefix(Append(T, rec), value, bits) =
              IF Node(rec.src_ip, bits) = Node(value, bits)
              THEN WithPrefix(T, value, bits) \cup {Len(T)} ELSE WithPrefix(T, value, bits)
<1>1. PICK U : U = Append(T, rec)
  OBVIOUS
<1>2. /\ \A r \in 0 .. Len(U) - 1 : r \in 0 .. Len(T) - 1 \/ r = Len(T)
      /\ \A r \in 0 .. Len(T) - 1 : r \in 0 .. Len(U) - 1 /\ U[r + 1] = T[r + 1]
      /\ Len(T) \in 0 .. Len(U) - 1 /\ U[Len(T) + 1] = rec
  BY <1>1, OneMoreRow
<1>3. WithPrefix(U, value, bits) =
        IF Node(rec.src_ip, bits) = Node(value, bits)
        THEN WithPrefix(T, value, bits) \cup {Len(T)} ELSE WithPrefix(T, value, bits)
  BY <1>2 DEF WithPrefix
<1> QED
  BY <1>1, <1>3 DEF WithPrefix

LEMMA OneMorePort ==
  ASSUME NEW T \in Seq(Row), NEW rec \in Row, NEW port
  PROVE  /\ WithPort(T, port) \in SUBSET (0 .. Len(T) - 1)
         /\ WithPort(Append(T, rec), port) =
              IF rec.dst_port = port THEN WithPort(T, port) \cup {Len(T)} ELSE WithPort(T, port)
<1>1. PICK U : U = Append(T, rec)
  OBVIOUS
<1>2. /\ \A r \in 0 .. Len(U) - 1 : r \in 0 .. Len(T) - 1 \/ r = Len(T)
      /\ \A r \in 0 .. Len(T) - 1 : r \in 0 .. Len(U) - 1 /\ U[r + 1] = T[r + 1]
      /\ Len(T) \in 0 .. Len(U) - 1 /\ U[Len(T) + 1] = rec
  BY <1>1, OneMoreRow
<1>3. WithPort(U, port) =
        IF rec.dst_port = port THEN WithPort(T, port) \cup {Len(T)} ELSE WithPort(T, port)
  BY <1>2 DEF WithPort
<1> QED
  BY <1>1, <1>3 DEF WithPort

LEMMA OneMoreProto ==
  ASSUME NEW T \in Seq(Row), NEW rec \in Row, NEW proto
  PROVE  WithProto(Append(T, rec), proto) =
           IF rec.proto = proto THEN WithProto(T, proto) \cup {Len(T)} ELSE WithProto(T, proto)
<1>1. PICK U : U = Append(T, rec)
  OBVIOUS
<1>2. /\ \A r \in 0 .. Len(U) - 1 : r \in 0 .. Len(T) - 1 \/ r = Len(T)
      /\ \A r \in 0 .. Len(T) - 1 : r \in 0 .. Len(U) - 1 /\ U[r + 1] = T[r + 1]
      /\ Len(T) \in 0 .. Len(U) - 1 /\ U[Len(T) + 1] = rec
  BY <1>1, OneMoreRow
<1>3. WithProto(U, proto) =
        IF rec.proto = proto THEN WithProto(T, proto) \cup {Len(T)} ELSE WithProto(T, proto)
  BY <1>2 DEF WithProto
<1> QED
  BY <1>1, <1>3

\* A row more in the trie, the table and the bitmaps.
LEMMA TrieAddIsExact ==
  ASSUME NEW T \in Seq(Row), NEW rec \in Row, NEW trie, ExactTrie(trie, T)
  PROVE  ExactTrie(TrieAdd(trie, rec.src_ip, Len(T)), Append(T, rec))
<1> DEFINE n == Len(T)
           path == {Node(rec.src_ip, bits) : bits \in 0 .. Depth}
           leaf == Node(rec.src_ip, Depth)
           more == TrieAdd(trie, rec.src_ip, n)
<1>1. PICK U : U = Append(T, rec)
  OBVIOUS
<1>2. rec.src_ip \in Addresses
  BY DEF Row
<1>3. n \in Nat /\ \A value, bits :
              /\ WithPrefix(T, value, bits) \in SUBSET (0 .. n - 1)
              /\ WithPrefix(U, value, bits) =
                   IF Node(rec.src_ip, bits) = Node(value, bits)
                   THEN WithPrefix(T, value, bits) \cup {n} ELSE WithPrefix(T, value, bits)
  BY <1>1, OneMorePrefix
<1>4. /\ more.count = [node \in path \cup DOMAIN trie.count |->
                         At(trie.count, node, 0) + (IF node \in path THEN 1 ELSE 0)]
  BY DEF TrieAdd
<1>8. PICK list : list = Append(At(trie.rows, leaf, <<>>), n)
  OBVIOUS
<1>9. more.rows = Put(trie.rows, leaf, list)
  BY <1>8 DEF TrieAdd
<1> HIDE DEF more, n, leaf
<1>10. /\ \A node : At(more.rows, node, <<>>) = IF node = leaf THEN list ELSE At(trie.rows, node, <<>>)
       /\ DOMAIN more.rows = {leaf} \cup DOMAIN trie.rows
  <2>1. ASSUME NEW node PROVE At(more.rows, node, <<>>) = IF node = leaf THEN list ELSE At(trie.rows, node, <<>>)
    <3>1. At(Put(trie.rows, leaf, list), node, <<>>) = IF node = leaf THEN list ELSE At(trie.rows, node, <<>>)
      BY DEF At, Put
    <3> QED
      BY <1>9, <3>1
  <2>2. DOMAIN Put(trie.rows, leaf, list) = {leaf} \cup DOMAIN trie.rows
    BY DEF Put
  <2> QED
    BY <1>9, <2>1, <2>2
<1>5. ASSUME NEW node \in DOMAIN more.rows PROVE \E value \in Addresses : node = Node(value, Depth)
  <2>1. node = leaf \/ node \in DOMAIN trie.rows
    BY <1>10
  <2> QED
    BY <1>2, <2>1 DEF ExactTrie, leaf
<1>6. ASSUME NEW value \in Addresses
      PROVE  Lists(At(more.rows, Node(value, Depth), <<>>), WithPrefix(U, value, Depth))
  <2> DEFINE was == At(trie.rows, Node(value, Depth), <<>>)
  <2>1. Lists(was, WithPrefix(T, value, Depth))
    BY DEF ExactTrie
  <2>2. CASE leaf = Node(value, Depth)
    <3>1. At(more.rows, Node(value, Depth), <<>>) = Append(was, n)
      BY <1>8, <1>10, <2>2
    <3>2. WithPrefix(U, value, Depth) = WithPrefix(T, value, Depth) \cup {n}
      BY <1>3, <2>2 DEF leaf
    <3> HIDE DEF was
    <3>3. WithPrefix(T, value, Depth) \in SUBSET (0 .. n - 1)
      BY <1>3
    <3>4. Lists(Append(was, n), WithPrefix(T, value, Depth) \cup {n})
      BY <1>3, <2>1, <3>3, ListsMore
    <3> QED
      BY <3>1, <3>2, <3>4
  <2>3. CASE leaf # Node(value, Depth)
    <3>1. At(more.rows, Node(value, Depth), <<>>) = was
      BY <1>10, <2>3
    <3>2. WithPrefix(U, value, Depth) = WithPrefix(T, value, Depth)
      BY <1>3, <2>3 DEF leaf
    <3> QED
      BY <2>1, <3>1, <3>2
  <2> QED
    BY <2>2, <2>3
<1>7. ASSUME NEW value \in Addresses, NEW bits \in 0 .. Depth
      PROVE  At(more.count, Node(value, bits), 0) = Cardinality(WithPrefix(U, value, bits))
  <2> DEFINE node == Node(value, bits)
             S == WithPrefix(T, value, bits)
  <2>1. At(trie.count, node, 0) = Cardinality(S)
    BY DEF ExactTrie
  <2>2. node \in path <=> Node(rec.src_ip, bits) = node
    <3>1. \A b \in 0 .. Depth : Node(rec.src_ip, b) = node => b = bits
      BY DEF Node
    <3> QED
      BY <3>1
  <2>3. S \in SUBSET (0 .. n - 1)
    BY <1>3
  <2>4. IsFiniteSet(S) /\ Cardinality(S) \in Nat
    BY <1>3, <2>3, AscendingEnumerates
  <2> HIDE DEF node, S
  <2>5. At(more.count, node, 0) = At(trie.count, node, 0) + (IF node \in path THEN 1 ELSE 0)
    <3>1. CASE node \in path \cup DOMAIN trie.count
      BY <1>4, <3>1 DEF At
    <3>2. CASE node \notin path \cup DOMAIN trie.count
      <4>1. At(more.count, node, 0) = 0 /\ At(trie.count, node, 0) = 0
        BY <1>4, <3>2 DEF At
      <4> QED
        BY <3>2, <4>1
    <3> QED
      BY <3>1, <3>2
  <2>6. WithPrefix(U, value, bits) = IF node \in path THEN S \cup {n} ELSE S
    BY <1>3, <2>2 DEF node, S
  <2>7. n \notin S
    BY <1>3, <2>3
  <2>8. Cardinality(S \cup {n}) = Cardinality(S) + 1
    BY <2>4, <2>7, FS_AddElement
  <2> QED
    BY <2>1, <2>4, <2>5, <2>6, <2>8 DEF node
<1> QED
  BY <1>1, <1>5, <1>6, <1>7 DEF ExactTrie, more, n

LEMMA PortAddIsExact ==
  ASSUME NEW T \in Seq(Row), NEW rec \in Row, NEW hash, ExactTable(hash, T)
  PROVE  ExactTable(PortAdd(hash, rec.dst_port, Len(T)), Append(T, rec))
<1> DEFINE n == Len(T)
<1>1. PICK U : U = Append(T, rec)
  OBVIOUS
<1>2. rec.dst_port \in Ports
  BY DEF Row
<1>3. n \in Nat /\ \A port :
              /\ WithPort(T, port) \in SUBSET (0 .. n - 1)
              /\ WithPort(U, port) =
                   IF rec.dst_port = port THEN WithPort(T, port) \cup {n} ELSE WithPort(T, port)
  BY <1>1, OneMorePort
<1>4. PICK more : more = PortAdd(hash, rec.dst_port, n)
  OBVIOUS
<1>5. DOMAIN hash = Ports
  BY DEF ExactTable
<1>6. DOMAIN more = Ports /\ \A port \in Ports :
        more[port] = IF port = rec.dst_port THEN Append(hash[port], n) ELSE hash[port]
  BY <1>4, <1>5 DEF PortAdd
<1> HIDE DEF n
<1>7. ASSUME NEW port \in Ports PROVE Lists(more[port], WithPort(U, port))
  <2>1. Lists(hash[port], WithPort(T, port))
    BY DEF ExactTable
  <2>2. CASE port = rec.dst_port
    <3>1. Lists(Append(hash[port], n), WithPort(T, port) \cup {n})
      BY <1>3, <2>1, ListsMore
    <3> QED
      BY <1>3, <1>6, <2>2, <3>1
  <2>3. CASE port # rec.dst_port
    BY <1>3, <1>6, <2>1, <2>3
  <2> QED
    BY <2>2, <2>3
<1> QED
  BY <1>1, <1>4, <1>6, <1>7 DEF ExactTable, n

LEMMA BitmapAddIsExact ==
  ASSUME NEW T \in Seq(Row), NEW rec \in Row, NEW bitmap, ExactBitmaps(bitmap, T)
  PROVE  ExactBitmaps(BitmapAdd(bitmap, rec.proto, Len(T)), Append(T, rec))
<1>1. PICK U : U = Append(T, rec)
  OBVIOUS
<1>2. \A proto : WithProto(U, proto) =
        IF rec.proto = proto THEN WithProto(T, proto) \cup {Len(T)} ELSE WithProto(T, proto)
  BY <1>1, OneMoreProto
<1>3. ASSUME NEW proto \in Bytes
      PROVE  At(BitmapAdd(bitmap, rec.proto, Len(T)), proto, {}) = WithProto(U, proto)
  <2>1. At(bitmap, proto, {}) = WithProto(T, proto)
    BY DEF ExactBitmaps
  <2>4. PICK e : e = At(bitmap, rec.proto, {}) \cup {Len(T)}
    OBVIOUS
  <2>5. BitmapAdd(bitmap, rec.proto, Len(T)) = Put(bitmap, rec.proto, e)
    BY <2>4 DEF BitmapAdd
  <2>2. At(BitmapAdd(bitmap, rec.proto, Len(T)), proto, {}) =
          IF proto = rec.proto THEN At(bitmap, rec.proto, {}) \cup {Len(T)} ELSE At(bitmap, proto, {})
    <3>1. At(Put(bitmap, rec.proto, e), proto, {}) = IF proto = rec.proto THEN e ELSE At(bitmap, proto, {})
      BY DEF At, Put
    <3> QED
      BY <2>4, <2>5, <3>1
  <2> QED
    BY <1>2, <2>1, <2>2
<1> QED
  BY <1>1, <1>3 DEF ExactBitmaps

\* A record more, indexed under the row it gets.
LEMMA AddIsExact ==
  ASSUME NEW T \in Seq(Row), NEW rec \in Row, NEW ix, Exact(ix, T)
  PROVE  Exact(AddRecord(ix, rec, Len(T)), Append(T, rec))
<1>1. Len(T) \in Nat /\ Len(Append(T, rec)) = Len(T) + 1
  OBVIOUS
<1>2. Max({ix.rows, Len(T) + 1}) = Len(T) + 1
  <2>1. {ix.rows, Len(T) + 1} \in SUBSET Int /\ \A k \in {ix.rows, Len(T) + 1} : k <= Len(T) + 1
    BY <1>1 DEF Exact
  <2> QED
    BY <2>1, MaxIs
<1>3. PICK more : more = AddRecord(ix, rec, Len(T))
  OBVIOUS
<1>4. /\ more.trie = TrieAdd(ix.trie, rec.src_ip, Len(T))
      /\ more.hash = PortAdd(ix.hash, rec.dst_port, Len(T))
      /\ more.bitmap = BitmapAdd(ix.bitmap, rec.proto, Len(T))
      /\ more.rows = Len(T) + 1
  BY <1>2, <1>3 DEF AddRecord
<1>5. ExactTrie(ix.trie, T) /\ ExactTable(ix.hash, T) /\ ExactBitmaps(ix.bitmap, T)
  BY DEF Exact
<1>6. /\ ExactTrie(more.trie, Append(T, rec)) /\ ExactTable(more.hash, Append(T, rec))
      /\ ExactBitmaps(more.bitmap, Append(T, rec))
  BY <1>4, <1>5, TrieAddIsExact, PortAddIsExact, BitmapAddIsExact
<1> QED
  BY <1>1, <1>3, <1>4, <1>6 DEF Exact

\* Empty indexes index the empty table.
LEMMA NothingIsExact ==
  /\ ExactTrie(EmptyTrie, <<>>) /\ ExactTable(EmptyTable, <<>>)
  /\ Exact(Empty, <<>>)
<1>1. \A value, bits : WithPrefix(<<>>, value, bits) = {}
  BY DEF WithPrefix
<1>2. \A port : WithPort(<<>>, port) = {} /\ WithProto(<<>>, port) = {}
  BY DEF WithPort, WithProto
<1>3. Cardinality({}) = 0
  BY FS_EmptySet
<1>4. ExactTrie(EmptyTrie, <<>>)
  <2>1. DOMAIN EmptyTrie.rows = {} /\ \A node : At(EmptyTrie.rows, node, <<>>) = <<>>
    BY DEF EmptyTrie, At
  <2>2. \A node : At(EmptyTrie.count, node, 0) = 0
    BY DEF EmptyTrie, At
  <2> QED
    BY <1>1, <1>3, <2>1, <2>2, ListsNothing DEF ExactTrie
<1>5. ExactTable(EmptyTable, <<>>)
  BY <1>2, ListsNothing DEF ExactTable, EmptyTable, Ports
<1>6. ExactBitmaps(<<>>, <<>>)
  BY <1>2 DEF ExactBitmaps, At
<1> QED
  BY <1>4, <1>5, <1>6 DEF Exact, Empty

\* Indexes that grow with a table index what the table has become.
LEMMA GrowingIsExact ==
  ASSUME NEW T \in Seq(Row), NEW records \in Seq(Row), NEW ix, Exact(ix, T)
  PROVE  Exact(Growing(ix, records, Len(T))[Len(records)], T \o records)
<1> DEFINE n == Len(records)
           g == Growing(ix, records, Len(T))
           upto(k) == T \o SubSeq(records, 1, k)
           S == {k \in 0 .. n : Exact(g[k], upto(k))}
<1>0. n \in Nat /\ Len(T) \in Nat
  OBVIOUS
<1>1. g = [k \in 0 .. n |-> IF k = 0 THEN ix ELSE AddRecord(g[k - 1], records[k], Len(T) + k - 1)]
  BY GrowingDef
<1>2. upto(0) = T /\ upto(n) = T \o records
  OBVIOUS
<1>3. \A k \in 0 .. n - 1 : /\ upto(k + 1) = Append(upto(k), records[k + 1])
                           /\ upto(k) \in Seq(Row) /\ Len(upto(k)) = Len(T) + k
                           /\ records[k + 1] \in Row
  OBVIOUS
<1> HIDE DEF n, g, upto
<1>4. g[0] = ix /\ \A k \in 0 .. n - 1 : g[k + 1] = AddRecord(g[k], records[k + 1], Len(T) + k)
  <2>1. 0 \in 0 .. n
    BY <1>0
  <2>2. ASSUME NEW k \in 0 .. n - 1 PROVE g[k + 1] = AddRecord(g[k], records[k + 1], Len(T) + k)
    <3>1. PICK j \in 0 .. n : j = k + 1
      BY <1>0
    <3>2. j # 0 /\ j - 1 = k /\ Len(T) + j - 1 = Len(T) + k
      BY <1>0, <3>1
    <3>3. g[j] = AddRecord(g[j - 1], records[j], Len(T) + j - 1)
      BY <1>1, <3>2
    <3> QED
      BY <3>1, <3>2, <3>3
  <2> QED
    BY <1>1, <2>1, <2>2
<1>5. 0 \in S
  BY <1>0, <1>2, <1>4
<1>6. ASSUME NEW k \in 0 .. n - 1, k \in S PROVE k + 1 \in S
  <2>1. Exact(g[k], upto(k))
    BY <1>6
  <2>2. Exact(AddRecord(g[k], records[k + 1], Len(upto(k))), Append(upto(k), records[k + 1]))
    BY <1>3, <2>1, AddIsExact
  <2>3. k + 1 \in 0 .. n
    BY <1>0
  <2> QED
    BY <1>3, <1>4, <2>2, <2>3
<1>7. 0 .. n \subseteq S
  <2> HIDE DEF S
  <2> QED
    BY <1>0, <1>5, <1>6, InductionUpTo
<1>8. n \in 0 .. n
  BY <1>0
<1>9. Exact(g[n], upto(n))
  BY <1>7, <1>8
<1> QED
  BY <1>2, <1>9 DEF n, g

\* Those that are built from a table index it.
LEMMA BuildIsExact ==
  ASSUME NEW T \in Seq(Row)
  PROVE  Exact(Build(T), T)
<1> DEFINE n == Len(T)
           g == Filling(T)
           upto(k) == SubSeq(T, 1, k)
           S == {k \in 0 .. n : ExactTrie(g[k].trie, upto(k)) /\ ExactTable(g[k].hash, upto(k))}
<1>0. n \in Nat
  OBVIOUS
<1>1. g = [k \in 0 .. n |-> IF k = 0 THEN [trie |-> EmptyTrie, hash |-> EmptyTable]
              ELSE [trie |-> TrieAdd(g[k - 1].trie, T[k].src_ip, k - 1),
                    hash |-> PortAdd(g[k - 1].hash, T[k].dst_port, k - 1)]]
  BY FillingDef
<1>2. upto(0) = <<>> /\ upto(n) = T
  OBVIOUS
<1>3. \A k \in 0 .. n - 1 : /\ upto(k + 1) = Append(upto(k), T[k + 1])
                           /\ upto(k) \in Seq(Row) /\ Len(upto(k)) = k
                           /\ T[k + 1] \in Row
  OBVIOUS
<1>4. /\ Build(T).trie = g[n].trie /\ Build(T).hash = g[n].hash /\ Build(T).rows = n
      /\ Build(T).bitmap = BulkBitmaps([i \in DOMAIN T |-> T[i].proto])
  BY DEF Build
<1> HIDE DEF n, g, upto
<1>5. /\ g[0].trie = EmptyTrie /\ g[0].hash = EmptyTable
      /\ \A k \in 0 .. n - 1 : /\ g[k + 1].trie = TrieAdd(g[k].trie, T[k + 1].src_ip, k)
                              /\ g[k + 1].hash = PortAdd(g[k].hash, T[k + 1].dst_port, k)
  <2>1. 0 \in 0 .. n
    BY <1>0
  <2>2. ASSUME NEW k \in 0 .. n - 1
        PROVE  /\ g[k + 1].trie = TrieAdd(g[k].trie, T[k + 1].src_ip, k)
               /\ g[k + 1].hash = PortAdd(g[k].hash, T[k + 1].dst_port, k)
    <3>1. PICK j \in 0 .. n : j = k + 1
      BY <1>0
    <3>2. j # 0 /\ j - 1 = k
      BY <1>0, <3>1
    <3>3. g[j] = [trie |-> TrieAdd(g[j - 1].trie, T[j].src_ip, j - 1),
                  hash |-> PortAdd(g[j - 1].hash, T[j].dst_port, j - 1)]
      BY <1>1, <3>2
    <3> QED
      BY <3>1, <3>2, <3>3
  <2>3. g[0] = [trie |-> EmptyTrie, hash |-> EmptyTable]
    BY <1>1, <2>1
  <2> QED
    BY <2>2, <2>3
<1>6. 0 \in S
  BY <1>0, <1>2, <1>5, NothingIsExact
<1>7. ASSUME NEW k \in 0 .. n - 1, k \in S PROVE k + 1 \in S
  <2>1. ExactTrie(g[k].trie, upto(k)) /\ ExactTable(g[k].hash, upto(k))
    BY <1>7
  <2>2. /\ ExactTrie(TrieAdd(g[k].trie, T[k + 1].src_ip, k), Append(upto(k), T[k + 1]))
        /\ ExactTable(PortAdd(g[k].hash, T[k + 1].dst_port, k), Append(upto(k), T[k + 1]))
    BY <1>3, <2>1, TrieAddIsExact, PortAddIsExact
  <2>3. k + 1 \in 0 .. n
    BY <1>0
  <2> QED
    BY <1>3, <1>5, <2>2, <2>3
<1>8. 0 .. n \subseteq S
  <2> HIDE DEF S
  <2> QED
    BY <1>0, <1>6, <1>7, InductionUpTo
<1>9. ExactTrie(Build(T).trie, T) /\ ExactTable(Build(T).hash, T)
  <2>1. n \in 0 .. n
    BY <1>0
  <2> QED
    BY <1>2, <1>4, <1>8, <2>1
<1>10. ASSUME NEW proto \in Bytes PROVE At(Build(T).bitmap, proto, {}) = WithProto(T, proto)
  <2> DEFINE values == [i \in DOMAIN T |-> T[i].proto]
  <2>1. DOMAIN T = 1 .. n /\ Len(values) = n /\ \A i \in 1 .. n : values[i] = T[i].proto
    BY <1>0 DEF n
  <2>2. ToSet(values) = {values[i] : i \in 1 .. n}
    BY <2>1 DEF ToSet
  <2> HIDE DEF values
  <2>3. {r \in 0 .. Len(values) - 1 : values[r + 1] = proto} = WithProto(T, proto)
    <3>1. \A r \in 0 .. n - 1 : r + 1 \in 1 .. n
      BY <1>0
    <3> QED
      BY <2>1, <3>1 DEF WithProto, n
  <2>4. proto \notin ToSet(values) => WithProto(T, proto) = {}
    <3>1. \A r \in 0 .. n - 1 : r + 1 \in 1 .. n
      BY <1>0
    <3> QED
      BY <2>1, <2>2, <3>1 DEF WithProto, n
  <2>5. Build(T).bitmap = [value \in ToSet(values) |-> {r \in 0 .. Len(values) - 1 : values[r + 1] = value}]
    BY <1>4 DEF BulkBitmaps, values
  <2> QED
    BY <2>3, <2>4, <2>5 DEF At
<1> QED
  BY <1>4, <1>9, <1>10 DEF Exact, ExactBitmaps, n

-----------------------------------------------------------------------------
(* What lookups return.                                                    *)

\* The leaves below a node list, together, the rows whose addresses have its bits.
LEMMA PrefixFinds ==
  ASSUME NEW T \in Seq(Row), NEW trie, ExactTrie(trie, T), NEW value \in Addresses, NEW bits \in 0 .. Depth
  PROVE  PrefixRows(trie, value, bits) = Ascending(WithPrefix(T, value, bits))
<1> DEFINE n == Len(T)
           E == Entries(trie, value, bits)
           v == [e \in E |-> trie.rows[e[1]][e[2]]]
           R == WithPrefix(T, value, bits)
<1>0. n \in Nat /\ \A r \in 0 .. n - 1 : T[r + 1] \in Row
  OBVIOUS
<1>1. \A leaf \in DOMAIN trie.rows : \E u \in Addresses : leaf = <<Depth, u>>
  BY LeafIs DEF ExactTrie, Addresses
<1>2. ASSUME NEW u \in Addresses
      PROVE  /\ Lists(At(trie.rows, <<Depth, u>>, <<>>), WithPrefix(T, u, Depth))
             /\ WithPrefix(T, u, Depth) = {r \in 0 .. n - 1 : T[r + 1].src_ip = u}
  <2>1. \A r \in 0 .. n - 1 : T[r + 1].src_ip \in Addresses
    BY <1>0 DEF Row
  <2>2. \A w \in Addresses : Node(w, Depth) = <<Depth, w>>
    BY LeafIs DEF Addresses
  <2>3. Lists(At(trie.rows, Node(u, Depth), <<>>), WithPrefix(T, u, Depth))
    BY DEF ExactTrie
  <2>4. ASSUME NEW r \in 0 .. n - 1
        PROVE  Node(T[r + 1].src_ip, Depth) = Node(u, Depth) <=> T[r + 1].src_ip = u
    BY <2>1, <2>2
  <2> QED
    BY <2>2, <2>3, <2>4 DEF WithPrefix
\* An entry is a row of some address below the node.
<1>3. ASSUME NEW e \in E
      PROVE  \E u \in Addresses :
               /\ e[1] = <<Depth, u>> /\ e = <<e[1], e[2]>> /\ Node(u, bits) = Node(value, bits)
               /\ trie.rows[e[1]] = At(trie.rows, <<Depth, u>>, <<>>)
               /\ e[2] \in 1 .. Len(trie.rows[e[1]])
               /\ trie.rows[e[1]][e[2]] \in WithPrefix(T, u, Depth)
  <2>1. PICK leaf \in Below(trie, value, bits) : e \in {leaf} \X DOMAIN trie.rows[leaf]
    BY DEF Entries
  <2>2. leaf \in DOMAIN trie.rows /\ Node(leaf[2], bits) = Node(value, bits)
    BY DEF Below
  <2>3. e[1] = leaf /\ e[2] \in DOMAIN trie.rows[leaf] /\ e = <<e[1], e[2]>>
    BY <2>1
  <2>4. PICK u \in Addresses : leaf = <<Depth, u>>
    BY <1>1, <2>2
  <2>5. leaf[2] = u
    BY <2>4
  <2>6. trie.rows[leaf] = At(trie.rows, <<Depth, u>>, <<>>)
    BY <2>2, <2>4 DEF At
  <2>7. Lists(trie.rows[leaf], WithPrefix(T, u, Depth))
    BY <1>2, <2>6
  <2>8. /\ DOMAIN trie.rows[leaf] = 1 .. Len(trie.rows[leaf])
        /\ \A i \in DOMAIN trie.rows[leaf] : trie.rows[leaf][i] \in WithPrefix(T, u, Depth)
    BY <2>7 DEF Lists
  <2> QED
    BY <2>2, <2>3, <2>4, <2>5, <2>6, <2>8
<1>4. Range(v) \subseteq R
  <2>1. ASSUME NEW e \in E PROVE trie.rows[e[1]][e[2]] \in R
    <3>1. PICK u \in Addresses : /\ Node(u, bits) = Node(value, bits)
                                 /\ trie.rows[e[1]][e[2]] \in WithPrefix(T, u, Depth)
      BY <1>3
    <3>2. PICK r : r = trie.rows[e[1]][e[2]]
      OBVIOUS
    <3>3. r \in 0 .. n - 1 /\ T[r + 1].src_ip = u
      BY <1>2, <3>1, <3>2
    <3> QED
      BY <3>1, <3>2, <3>3 DEF WithPrefix
  <2> QED
    BY <2>1 DEF Range
<1>5. R \subseteq Range(v)
  <2>1. SUFFICES ASSUME NEW r \in R PROVE \E e \in E : trie.rows[e[1]][e[2]] = r
    BY DEF Range
  <2>2. r \in 0 .. n - 1 /\ Node(T[r + 1].src_ip, bits) = Node(value, bits)
    BY DEF WithPrefix
  <2>3. PICK u \in Addresses : u = T[r + 1].src_ip
    BY <1>0, <2>2 DEF Row
  <2> DEFINE leaf == <<Depth, u>>
             list == At(trie.rows, leaf, <<>>)
  <2>4. Lists(list, WithPrefix(T, u, Depth)) /\ r \in WithPrefix(T, u, Depth)
    BY <1>2, <2>2, <2>3
  <2>5. PICK i \in 1 .. Len(list) : list[i] = r
    BY <2>4 DEF Lists, Enumerates
  <2>6. DOMAIN list = 1 .. Len(list)
    BY <2>4 DEF Lists
  <2>7. leaf \in DOMAIN trie.rows /\ list = trie.rows[leaf]
    BY <2>5 DEF At
  <2>8. leaf[2] = u
    OBVIOUS
  <2>9. leaf \in Below(trie, value, bits)
    BY <2>2, <2>3, <2>7, <2>8 DEF Below
  <2> HIDE DEF leaf, list
  <2>10. <<leaf, i>> \in E
    BY <2>5, <2>6, <2>7, <2>9 DEF Entries
  <2> QED
    BY <2>5, <2>7, <2>10
<1>6. ASSUME NEW d \in E, NEW e \in E, trie.rows[d[1]][d[2]] = trie.rows[e[1]][e[2]]
      PROVE  d = e
  <2>1. PICK u \in Addresses :
          /\ d[1] = <<Depth, u>> /\ d = <<d[1], d[2]>>
          /\ trie.rows[d[1]] = At(trie.rows, <<Depth, u>>, <<>>)
          /\ d[2] \in 1 .. Len(trie.rows[d[1]])
          /\ trie.rows[d[1]][d[2]] \in WithPrefix(T, u, Depth)
    BY <1>3
  <2>2. PICK w \in Addresses :
          /\ e[1] = <<Depth, w>> /\ e = <<e[1], e[2]>>
          /\ trie.rows[e[1]] = At(trie.rows, <<Depth, w>>, <<>>)
          /\ e[2] \in 1 .. Len(trie.rows[e[1]])
          /\ trie.rows[e[1]][e[2]] \in WithPrefix(T, w, Depth)
    BY <1>3
  <2>3. u = w
    BY <1>2, <1>6, <2>1, <2>2
  <2>4. d[1] = e[1]
    BY <2>1, <2>2, <2>3
  <2>5. PICK list : list = trie.rows[d[1]]
    OBVIOUS
  <2>6. \A i, j \in 1 .. Len(list) : i < j => list[i] < list[j]
    BY <1>2, <2>1, <2>5 DEF Lists, Enumerates
  <2>7. \A i \in 1 .. Len(list) : list[i] \in Int
    <3>1. WithPrefix(T, u, Depth) \subseteq Int
      BY DEF WithPrefix
    <3>2. list \in [1 .. Len(list) -> WithPrefix(T, u, Depth)]
      BY <1>2, <2>1, <2>5 DEF Lists, Enumerates
    <3> QED
      BY <3>1, <3>2
  <2>8. d[2] \in 1 .. Len(list) /\ e[2] \in 1 .. Len(list) /\ list[d[2]] = list[e[2]]
    BY <1>6, <2>1, <2>2, <2>4, <2>5
  <2>9. ~(d[2] < e[2]) /\ ~(e[2] < d[2])
    BY <2>6, <2>7, <2>8
  <2>10. d[2] = e[2]
    BY <2>8, <2>9
  <2> QED
    BY <2>1, <2>2, <2>4, <2>10
<1>7. Range(v) = R
  BY <1>4, <1>5
<1>8. DOMAIN v = E /\ \A a, b \in E : v[a] = v[b] => a = b
  BY <1>6
<1>9. IsFiniteSet(E)
  <2>1. R \in SUBSET (0 .. n - 1)
    BY DEF WithPrefix
  <2>2. IsFiniteSet(R)
    BY <1>0, <2>1, AscendingEnumerates
  <2>3. v \in [E -> R]
    BY <1>7 DEF Range
  <2> HIDE DEF v, R, E
  <2>4. v \in Injection(E, R)
    BY <1>8, <2>3, Fun_IsInj
  <2> QED
    BY <2>2, <2>4, FS_Injection
<1>10. PrefixRows(trie, value, bits) = Sorted(v)
  BY DEF PrefixRows
<1> HIDE DEF v, R, E
<1>11. Sorted(v) = Ascending(Range(v))
  BY <1>8, <1>9, SortedOfDifferent
<1> QED
  BY <1>7, <1>10, <1>11 DEF R

IndexInv == CaptureInv /\ Exact(grown, table)

\* The invariant of the store and its indexes is inductive.
LEMMA StepIndexInv ==
  ASSUME IndexInv, [CaptureNext]_captureVars
  PROVE  IndexInv'
<1>1. CaptureInv' /\ Adds
  BY StepCaptureInv DEF IndexInv
<1>2. CASE UNCHANGED <<table, grown>>
  BY <1>1, <1>2 DEF IndexInv
<1>3. ASSUME NEW records \in Seq(Row), Store(records) PROVE IndexInv'
  <2>1. table' = table \o records /\ grown' = Growing(grown, records, Len(table))[Len(records)]
    BY <1>3 DEF Store
  <2>2. table \in Seq(Row) /\ Exact(grown, table)
    BY DEF IndexInv, CaptureInv
  <2>3. Exact(grown', table')
    BY <2>1, <2>2, GrowingIsExact
  <2> QED
    BY <1>1, <2>3 DEF IndexInv
<1> QED
  BY <1>1, <1>2, <1>3 DEF Adds

LEMMA IndexInvariance == CaptureSpec => []IndexInv
<1>1. CaptureInit => IndexInv
  BY InitCaptureInv, NothingIsExact DEF IndexInv
<1>2. IndexInv /\ [CaptureNext]_captureVars => IndexInv'
  BY StepIndexInv
<1> QED
  BY <1>1, <1>2, PTL DEF CaptureSpec

\* The rows with a property, said in two ways.
LEMMA RowNumbers ==
  ASSUME NEW T, Len(T) \in Nat, DOMAIN T = 1 .. Len(T), NEW S \in SUBSET DOMAIN T, NEW R,
         R = {r \in 0 .. Len(T) - 1 : r + 1 \in S}
  PROVE  {i - 1 : i \in S} = R
<1>1. ASSUME NEW i \in S PROVE i - 1 \in R
  <2>1. i \in 1 .. Len(T)
    OBVIOUS
  <2>2. i - 1 \in 0 .. Len(T) - 1 /\ (i - 1) + 1 = i
    BY <2>1
  <2> QED
    BY <2>2
<1>2. ASSUME NEW r \in R PROVE \E i \in S : r = i - 1
  <2>1. r \in 0 .. Len(T) - 1 /\ r + 1 \in S
    OBVIOUS
  <2>2. (r + 1) - 1 = r
    BY <2>1
  <2> QED
    BY <2>1, <2>2
<1> QED
  BY <1>1, <1>2

\* Exact indexes find exactly.
LEMMA ExactFinds ==
  ASSUME NEW T \in Seq(Row), NEW ix, Exact(ix, T)
  PROVE  /\ ix.rows = Len(T)
         /\ \A value \in Addresses, bits \in 0 .. Depth :
              LET S == {i \in DOMAIN T :
                          T[i].src_ip \div 2 ^ (Depth - bits) = value \div 2 ^ (Depth - bits)}
              IN  /\ PrefixRows(ix.trie, value, bits) = Ascending({i - 1 : i \in S})
                  /\ PrefixCount(ix.trie, value, bits) = Len(PrefixRows(ix.trie, value, bits))
         /\ \A port \in -1 .. NumPorts :
              LET S == {i \in DOMAIN T : T[i].dst_port = port}
              IN  /\ PortRows(ix.hash, port) = Ascending({i - 1 : i \in S})
                  /\ PortCount(ix.hash, port) = Len(PortRows(ix.hash, port))
         /\ \A proto \in Bytes :
              LET S == {i \in DOMAIN T : T[i].proto = proto}
              IN  /\ BitmapRows(ix.bitmap, proto) = Ascending({i - 1 : i \in S})
                  /\ BitmapCount(ix.bitmap, proto) = Len(BitmapRows(ix.bitmap, proto))
<1> DEFINE n == Len(T)
<1>0. n \in Nat /\ DOMAIN T = 1 .. n /\ \A r \in 0 .. n - 1 : r + 1 \in DOMAIN T
  OBVIOUS
<1>1. ASSUME NEW value \in Addresses, NEW bits \in 0 .. Depth
      PROVE  LET S == {i \in DOMAIN T :
                         T[i].src_ip \div 2 ^ (Depth - bits) = value \div 2 ^ (Depth - bits)}
             IN  /\ PrefixRows(ix.trie, value, bits) = Ascending({i - 1 : i \in S})
                 /\ PrefixCount(ix.trie, value, bits) = Len(PrefixRows(ix.trie, value, bits))
  <2> DEFINE S == {i \in DOMAIN T :
                     T[i].src_ip \div 2 ^ (Depth - bits) = value \div 2 ^ (Depth - bits)}
             R == WithPrefix(T, value, bits)
  <2>1. R = {r \in 0 .. n - 1 : r + 1 \in S}
    BY <1>0 DEF WithPrefix, Node
  <2>2. {i - 1 : i \in S} = R
    BY <1>0, <2>1, RowNumbers
  <2>3. PrefixRows(ix.trie, value, bits) = Ascending(R)
    BY PrefixFinds DEF Exact
  <2>4. PrefixCount(ix.trie, value, bits) = Cardinality(R)
    BY DEF Exact, ExactTrie, PrefixCount
  <2>5. R \in SUBSET (0 .. n - 1)
    BY DEF WithPrefix
  <2>6. Len(Ascending(R)) = Cardinality(R)
    BY <1>0, <2>5, AscendingEnumerates
  <2> QED
    BY <2>2, <2>3, <2>4, <2>6
<1>2. ASSUME NEW port \in -1 .. NumPorts
      PROVE  LET S == {i \in DOMAIN T : T[i].dst_port = port}
             IN  /\ PortRows(ix.hash, port) = Ascending({i - 1 : i \in S})
                 /\ PortCount(ix.hash, port) = Len(PortRows(ix.hash, port))
  <2> DEFINE S == {i \in DOMAIN T : T[i].dst_port = port}
             R == WithPort(T, port)
  <2>1. R = {r \in 0 .. n - 1 : r + 1 \in S}
    BY <1>0 DEF WithPort
  <2>2. {i - 1 : i \in S} = R
    BY <1>0, <2>1, RowNumbers
  <2>3. R \in SUBSET (0 .. n - 1)
    BY DEF WithPort
  <2>4. Lists(PortRows(ix.hash, port), R)
    <3>1. DOMAIN ix.hash = Ports
      BY DEF Exact, ExactTable
    <3>2. CASE port \in Ports
      BY <3>1, <3>2 DEF PortRows, At, Exact, ExactTable
    <3>3. CASE port \notin Ports
      <4>1. \A r \in 0 .. n - 1 : T[r + 1].dst_port \in Ports
        <5>1. \A r \in 0 .. n - 1 : T[r + 1] \in Row
          BY <1>0
        <5> QED
          BY <5>1 DEF Row
      <4>2. R = {}
        BY <3>3, <4>1 DEF WithPort
      <4>3. PortRows(ix.hash, port) = <<>>
        BY <3>1, <3>3 DEF PortRows, At
      <4> QED
        BY <4>2, <4>3, ListsNothing
    <3> QED
      BY <3>2, <3>3
  <2>5. PortRows(ix.hash, port) = Ascending(R)
    BY <1>0, <2>3, <2>4, ListIsAscending
  <2> QED
    BY <2>2, <2>5 DEF PortCount
<1>3. ASSUME NEW proto \in Bytes
      PROVE  LET S == {i \in DOMAIN T : T[i].proto = proto}
             IN  /\ BitmapRows(ix.bitmap, proto) = Ascending({i - 1 : i \in S})
                 /\ BitmapCount(ix.bitmap, proto) = Len(BitmapRows(ix.bitmap, proto))
  <2> DEFINE S == {i \in DOMAIN T : T[i].proto = proto}
             R == WithProto(T, proto)
  <2>1. R = {r \in 0 .. n - 1 : r + 1 \in S}
    BY <1>0 DEF WithProto
  <2>2. {i - 1 : i \in S} = R
    BY <1>0, <2>1, RowNumbers
  <2>3. R \in SUBSET (0 .. n - 1)
    BY DEF WithProto
  <2>4. At(ix.bitmap, proto, {}) = R
    BY DEF Exact, ExactBitmaps
  <2>5. Len(Ascending(R)) = Cardinality(R)
    BY <1>0, <2>3, AscendingEnumerates
  <2> QED
    BY <2>2, <2>4, <2>5 DEF BitmapRows, BitmapCount
<1>4. ix.rows = n
  BY DEF Exact
<1> QED
  BY <1>1, <1>2, <1>3, <1>4

\* Whatever rows the store gets, one by one or read back, every lookup in every
\* index finds exactly the rows that it should, in order, and counts them.
THEOREM LookupsFindExactly == CaptureSpec => []IndexesFindExactly
<1>1. ASSUME IndexInv PROVE IndexesFindExactly
  <2>1. table \in Seq(Row) /\ Exact(grown, table) /\ Exact(Build(table), table)
    <3>1. table \in Seq(Row) /\ Exact(grown, table)
      BY <1>1 DEF IndexInv, CaptureInv
    <3> QED
      BY <3>1, BuildIsExact
  <2>2. PICK built : built = Build(table)
    OBVIOUS
  <2> DEFINE Finds(found, count, S) == found = Ascending({i - 1 : i \in S}) /\ count = Len(found)
             Found(ix) ==
               /\ ix.rows = Len(table)
               /\ \A value \in Addresses, bits \in 0 .. Depth :
                    Finds(PrefixRows(ix.trie, value, bits), PrefixCount(ix.trie, value, bits),
                          {i \in DOMAIN table :
                             table[i].src_ip \div 2 ^ (Depth - bits) = value \div 2 ^ (Depth - bits)})
               /\ \A port \in -1 .. NumPorts :
                    Finds(PortRows(ix.hash, port), PortCount(ix.hash, port),
                          {i \in DOMAIN table : table[i].dst_port = port})
               /\ \A proto \in Bytes :
                    Finds(BitmapRows(ix.bitmap, proto), BitmapCount(ix.bitmap, proto),
                          {i \in DOMAIN table : table[i].proto = proto})
  <2>3. ASSUME NEW ix, Exact(ix, table) PROVE Found(ix)
    BY <2>1, <2>3, ExactFinds, Zenon
  <2>4. Found(grown)
    BY <2>1, <2>3, Zenon
  <2>5. Found(Build(table))
    BY <2>1, <2>3, Zenon
  <2> QED
    BY <2>4, <2>5, Zenon DEF IndexesFindExactly
<1>2. IndexInv => IndexesFindExactly
  BY <1>1
<1> QED
  BY <1>2, IndexInvariance, PTL

-----------------------------------------------------------------------------
(* The indexes that are saved.                                             *)

Steps == {"idle", "check", "mtimes", "load", "build", "truncate", "dump", "ready"}

Dumps == [mtimes : [Columns -> Nat], rows : 0 .. MaxRows, indexes : [Columns -> Content]]

StoreTypes ==
  /\ file \in [Columns -> Content] /\ mtime \in [Columns -> Nat]
  /\ meta \in 0 .. MaxRows
  /\ column \in Columns
  /\ generation \in 0 .. MaxGeneration /\ rowCount \in 0 .. MaxRows

ProcessTypes ==
  /\ pc \in [Processes -> Steps]
  /\ rows \in [Processes -> 0 .. MaxRows]
  /\ cursor \in [Processes -> Columns]
  /\ snap \in [Processes -> [Columns -> Nat]]
  /\ index \in [Processes -> [Columns -> Content]]

Types == StoreTypes /\ ProcessTypes /\ saved \in {Absent, Torn} \cup Dumps

\* A loop over the columns starts at the first of them.
LoopsStartAtOne ==
  \A p \in Processes : pc[p] \notin {"check", "mtimes", "build"} => cursor[p] = 1

\* An index of a column and the time it is filed under: that time has been, and
\* if the file still has it, then the index is that of the file.
TrueOf(c, time, ix) == time <= mtime[c] /\ (time = mtime[c] => ix = file[c])

SavedIsTrue ==
  saved \in Dumps => \A c \in Columns : TrueOf(c, saved.mtimes[c], saved.indexes[c])

\* The columns that a process has an index of.
Built(p, c) == pc[p] \in {"truncate", "dump", "ready"} \/ (pc[p] = "build" /\ c < cursor[p])

BuiltIsTrue ==
  \A p \in Processes, c \in Columns :
    /\ snap[p][c] <= mtime[c]
    /\ Built(p, c) => TrueOf(c, snap[p][c], index[p][c])

IInv == Types /\ LoopsStartAtOne /\ SavedIsTrue /\ BuiltIsTrue

-------------------------------------------------------------------------------

LEMMA FirstColumn == 1 \in Columns /\ NumColumns \in Columns
BY ColumnsAssumption DEF Columns

LEMMA EmptyTypes ==
  EachColumn(Nothing) \in [Columns -> Content] /\ EachColumn(0) \in [Columns -> Nat]
BY BoundsAssumption DEF EachColumn, Nothing, Content

\* Neither of the files that hold no indexes has the number of rows of a store.
LEMMA NotADump == Absent \notin Dumps /\ Torn \notin Dumps
BY BoundsAssumption DEF Absent, Torn, Dumps

LEMMA InitIInv == Init => IInv
<1> SUFFICES ASSUME Init PROVE IInv
  OBVIOUS
<1>1. StoreTypes
  BY EmptyTypes, FirstColumn, BoundsAssumption DEF Init, StoreTypes
<1>2. ProcessTypes
  BY EmptyTypes, FirstColumn, BoundsAssumption DEF Init, ProcessTypes, Steps
<1>3. LoopsStartAtOne
  BY DEF Init, LoopsStartAtOne
<1>4. SavedIsTrue
  BY NotADump DEF Init, SavedIsTrue
<1>5. BuiltIsTrue
  BY DEF Init, BuiltIsTrue, Built, EachColumn
<1> QED
  BY <1>1, <1>2, <1>3, <1>4, <1>5 DEF IInv, Types, Init

\* What the writer does to the files leaves every index true: a file that is
\* written gets a time that no index can be filed under yet.
LEMMA WriterIInv ==
  ASSUME IInv, BeginRebuild \/ BeginFlush \/ WriteColumn \/ WriteMeta
  PROVE  IInv'
<1>1. UNCHANGED <<saved, pc, rows, cursor, snap, index>>
  BY DEF BeginRebuild, BeginFlush, WriteColumn, WriteMeta, processVars
<1>2. StoreTypes'
  <2>0. StoreTypes
    BY DEF IInv, Types
  <2>1. CASE BeginRebuild
    BY <2>0, <2>1, BoundsAssumption DEF BeginRebuild, StoreTypes
  <2>2. CASE BeginFlush
    BY <2>0, <2>2, BoundsAssumption DEF BeginFlush, StoreTypes
  <2>3. CASE WriteColumn
    <3>1. [generation |-> generation, rows |-> rowCount] \in Content
      BY <2>0 DEF StoreTypes, Content
    <3>2. file' \in [Columns -> Content] /\ mtime' \in [Columns -> Nat]
      BY <2>0, <2>3, <3>1 DEF StoreTypes, WriteColumn
    <3>3. column' \in Columns
      BY <2>0, <2>3, ColumnsAssumption DEF StoreTypes, WriteColumn, Columns
    <3> QED
      BY <2>0, <2>3, <3>2, <3>3 DEF StoreTypes, WriteColumn
  <2>4. CASE WriteMeta
    BY <2>0, <2>4 DEF WriteMeta, StoreTypes
  <2> QED
    BY <2>1, <2>2, <2>3, <2>4
<1>3. \A c \in Columns : \/ mtime'[c] = mtime[c] /\ file'[c] = file[c]
                         \/ mtime'[c] = mtime[c] + 1
  BY DEF IInv, Types, StoreTypes, BeginRebuild, BeginFlush, WriteColumn, WriteMeta
<1>4. \A c \in Columns, time \in Nat : \A ix : TrueOf(c, time, ix) => TrueOf(c, time, ix)'
  <2> SUFFICES ASSUME NEW c \in Columns, NEW time \in Nat, NEW ix, TrueOf(c, time, ix)
               PROVE  time <= mtime'[c] /\ (time = mtime'[c] => ix = file'[c])
    BY DEF TrueOf
  <2>1. mtime[c] \in Nat
    BY DEF IInv, Types, StoreTypes
  <2> QED
    BY <1>3, <2>1 DEF TrueOf
<1>5. Types' /\ LoopsStartAtOne'
  BY <1>1, <1>2 DEF IInv, Types, ProcessTypes, LoopsStartAtOne
<1>6. SavedIsTrue'
  <2> SUFFICES ASSUME saved' \in Dumps, NEW c \in Columns
               PROVE  TrueOf(c, saved.mtimes[c], saved.indexes[c])'
    BY DEF SavedIsTrue
  <2>1. saved \in Dumps /\ TrueOf(c, saved.mtimes[c], saved.indexes[c])
    BY <1>1 DEF IInv, SavedIsTrue
  <2>2. saved.mtimes[c] \in Nat
    BY <2>1 DEF Dumps
  <2> QED
    BY <1>1, <1>4, <2>1, <2>2 DEF TrueOf
<1>7. BuiltIsTrue'
  <2> SUFFICES ASSUME NEW p \in Processes, NEW c \in Columns
               PROVE  /\ snap'[p][c] <= mtime'[c]
                      /\ Built(p, c)' => TrueOf(c, snap[p][c], index[p][c])'
    BY DEF BuiltIsTrue
  <2>1. snap[p][c] \in Nat /\ mtime[c] \in Nat
    BY DEF IInv, Types, StoreTypes, ProcessTypes
  <2>2. /\ snap[p][c] <= mtime[c]
        /\ Built(p, c) => TrueOf(c, snap[p][c], index[p][c])
    BY DEF IInv, BuiltIsTrue
  <2>3. Built(p, c)' = Built(p, c)
    BY <1>1 DEF Built
  <2>4. snap'[p][c] <= mtime'[c]
    BY <1>1, <1>3, <2>1, <2>2
  <2> QED
    BY <1>1, <1>4, <2>1, <2>2, <2>3, <2>4 DEF TrueOf
<1> QED
  BY <1>5, <1>6, <1>7 DEF IInv

\* A step of process p that leaves the store alone need only be true to itself.
LEMMA ProcessKeeps ==
  ASSUME IInv, NEW p \in Processes, UNCHANGED store,
         ProcessTypes', saved' \in {Absent, Torn} \cup Dumps, SavedIsTrue',
         \A q \in Processes \ {p} :
           /\ pc'[q] = pc[q] /\ cursor'[q] = cursor[q]
           /\ snap'[q] = snap[q] /\ index'[q] = index[q],
         pc'[p] \notin {"check", "mtimes", "build"} => cursor'[p] = 1,
         \A c \in Columns :
           /\ snap'[p][c] <= mtime[c]
           /\ Built(p, c)' => TrueOf(c, snap'[p][c], index'[p][c])
  PROVE  IInv'
<1>1. Types'
  BY DEF IInv, Types, StoreTypes, store
<1>2. LoopsStartAtOne'
  BY DEF IInv, LoopsStartAtOne
<1>3. BuiltIsTrue'
  <2> SUFFICES ASSUME NEW q \in Processes, NEW c \in Columns
               PROVE  /\ snap'[q][c] <= mtime'[c]
                      /\ Built(q, c)' => TrueOf(c, snap[q][c], index[q][c])'
    BY DEF BuiltIsTrue
  <2>1. mtime' = mtime /\ file' = file
    BY DEF store
  <2>2. CASE q = p
    BY <2>1, <2>2 DEF TrueOf
  <2>3. CASE q # p
    BY <2>1, <2>3 DEF IInv, BuiltIsTrue, Built, TrueOf
  <2> QED
    BY <2>2, <2>3
<1> QED
  BY <1>1, <1>2, <1>3 DEF IInv

\* A process that ends forgets what it had.
LEMMA ExitIInv ==
  ASSUME IInv, NEW p \in Processes, NEW from, Goes(p, from, "idle"), Forget(p), saved' = saved
  PROVE  IInv'
<1>1. UNCHANGED store
  BY DEF Goes
<1>2. ProcessTypes'
  BY EmptyTypes, FirstColumn, BoundsAssumption
     DEF IInv, Types, ProcessTypes, Goes, Forget, Steps
<1>3. SavedIsTrue'
  BY <1>1 DEF IInv, SavedIsTrue, TrueOf, store
<1>4. pc'[p] = "idle" /\ cursor'[p] = 1 /\ snap'[p] = EachColumn(0)
  BY DEF IInv, Types, ProcessTypes, Goes, Forget
<1>5. \A c \in Columns : snap'[p][c] <= mtime[c]
  BY <1>4 DEF IInv, Types, StoreTypes, EachColumn
<1>6. \A c \in Columns : ~Built(p, c)'
  BY <1>4 DEF Built
<1>7. \A q \in Processes \ {p} : /\ pc'[q] = pc[q] /\ cursor'[q] = cursor[q]
                                 /\ snap'[q] = snap[q] /\ index'[q] = index[q]
  BY DEF IInv, Types, ProcessTypes, Goes, Forget
<1> QED
  BY <1>1, <1>2, <1>3, <1>4, <1>5, <1>6, <1>7, ProcessKeeps DEF IInv, Types

\* One turn of a loop: the cursor stays on a column, and is on the first one
\* when the loop has ended.
LEMMA LoopTurn ==
  ASSUME IInv, NEW p \in Processes, NEW loop, NEW after \in Steps, Column(p, loop, after),
         loop \in {"check", "mtimes", "build"}
  PROVE  /\ pc[p] = loop /\ UNCHANGED store
         /\ pc' \in [Processes -> Steps] /\ cursor' \in [Processes -> Columns]
         /\ \/ /\ cursor[p] = NumColumns /\ cursor'[p] = 1 /\ pc'[p] = after
            \/ /\ cursor[p] < NumColumns /\ cursor'[p] = cursor[p] + 1 /\ pc'[p] = loop
         /\ \A q \in Processes \ {p} : pc'[q] = pc[q] /\ cursor'[q] = cursor[q]
<1>1. /\ pc \in [Processes -> Steps] /\ cursor \in [Processes -> Columns]
      /\ cursor[p] \in Columns /\ loop \in Steps
  BY DEF IInv, Types, ProcessTypes, Steps
<1>2. /\ pc[p] = loop /\ UNCHANGED store
      /\ pc' = [pc EXCEPT ![p] = IF cursor[p] = NumColumns THEN after ELSE loop]
      /\ cursor' = [cursor EXCEPT ![p] = IF @ = NumColumns THEN 1 ELSE @ + 1]
  BY DEF Column, Goes
<1>3. CASE cursor[p] = NumColumns
  BY <1>1, <1>2, <1>3, FirstColumn
<1>4. CASE cursor[p] # NumColumns
  <2>1. cursor[p] < NumColumns /\ cursor[p] + 1 \in Columns
    BY <1>1, <1>4, ColumnsAssumption DEF Columns
  <2> QED
    BY <1>1, <1>2, <1>4, <2>1
<1> QED
  BY <1>3, <1>4

LEMMA SavedStays ==
  ASSUME IInv, UNCHANGED store, saved' = saved
  PROVE  SavedIsTrue' /\ saved' \in {Absent, Torn} \cup Dumps
BY DEF IInv, Types, SavedIsTrue, TrueOf, store

LEMMA ReadMetaIInv ==
  ASSUME IInv, NEW p \in Processes, ReadMeta(p)
  PROVE  IInv'
<1>1. UNCHANGED <<store, saved, cursor, snap, index>> /\ pc'[p] = "check"
  BY DEF ReadMeta, Goes, IInv, Types, ProcessTypes
<1>2. ProcessTypes'
  BY DEF IInv, Types, StoreTypes, ProcessTypes, ReadMeta, Goes, Steps
<1>3. \A c \in Columns : snap'[p][c] <= mtime[c] /\ ~Built(p, c)'
  BY <1>1 DEF IInv, BuiltIsTrue, Built
<1>4. \A q \in Processes \ {p} : /\ pc'[q] = pc[q] /\ cursor'[q] = cursor[q]
                                 /\ snap'[q] = snap[q] /\ index'[q] = index[q]
  BY <1>1 DEF IInv, Types, ProcessTypes, ReadMeta, Goes
<1> QED
  BY <1>1, <1>2, <1>3, <1>4, SavedStays, ProcessKeeps

LEMMA CheckSizeIInv ==
  ASSUME IInv, NEW p \in Processes, CheckSize(p)
  PROVE  IInv'
<1>1. CASE GivesUp(p, "check")
  BY <1>1, ExitIInv DEF GivesUp
<1>2. CASE Column(p, "check", "mtimes") /\ UNCHANGED <<saved, rows, snap, index>>
  <2>1. "mtimes" \in Steps
    BY DEF Steps
  <2>2. /\ UNCHANGED store /\ pc' \in [Processes -> Steps]
        /\ cursor' \in [Processes -> Columns]
        /\ pc'[p] \in {"check", "mtimes"}
        /\ \A q \in Processes \ {p} : pc'[q] = pc[q] /\ cursor'[q] = cursor[q]
    BY <1>2, <2>1, LoopTurn
  <2>3. ProcessTypes'
    BY <1>2, <2>2 DEF IInv, Types, ProcessTypes
  <2>4. \A c \in Columns : snap'[p][c] <= mtime[c] /\ ~Built(p, c)'
    BY <1>2, <2>2 DEF IInv, BuiltIsTrue, Built
  <2> QED
    BY <1>2, <2>2, <2>3, <2>4, SavedStays, ProcessKeeps
<1> QED
  BY <1>1, <1>2 DEF CheckSize

LEMMA TakeMtimeIInv ==
  ASSUME IInv, NEW p \in Processes, TakeMtime(p)
  PROVE  IInv'
<1>1. "load" \in Steps /\ Column(p, "mtimes", "load") /\ UNCHANGED <<saved, rows, index>>
  BY DEF Steps, TakeMtime
<1>2. /\ UNCHANGED store /\ pc' \in [Processes -> Steps]
      /\ cursor' \in [Processes -> Columns]
      /\ pc'[p] = "mtimes" \/ (pc'[p] = "load" /\ cursor'[p] = 1)
      /\ \A q \in Processes \ {p} : pc'[q] = pc[q] /\ cursor'[q] = cursor[q]
  BY <1>1, LoopTurn
<1>3. /\ snap' = [snap EXCEPT ![p][cursor[p]] = mtime[cursor[p]]]
      /\ snap \in [Processes -> [Columns -> Nat]] /\ mtime \in [Columns -> Nat]
      /\ cursor[p] \in Columns
  BY DEF TakeMtime, IInv, Types, StoreTypes, ProcessTypes
<1>4. ProcessTypes'
  BY <1>1, <1>2, <1>3 DEF IInv, Types, ProcessTypes
<1>5. \A c \in Columns : snap'[p][c] <= mtime[c]
  BY <1>3 DEF IInv, BuiltIsTrue
<1>6. \A c \in Columns : ~Built(p, c)'
  BY <1>2 DEF Built
<1>7. \A q \in Processes \ {p} : snap'[q] = snap[q]
  BY <1>3
<1> QED
  BY <1>1, <1>2, <1>4, <1>5, <1>6, <1>7, SavedStays, ProcessKeeps

\* What is loaded is filed under the times that the process has taken itself.
LEMMA LoadIInv ==
  ASSUME IInv, NEW p \in Processes, Load(p)
  PROVE  IInv'
<1>1. UNCHANGED <<store, saved, rows, cursor, snap>> /\ pc[p] = "load"
  BY DEF Load, Goes
<1>2. /\ pc \in [Processes -> Steps] /\ index \in [Processes -> [Columns -> Content]]
      /\ rows[p] \in 0 .. MaxRows /\ cursor[p] = 1
  BY <1>1 DEF IInv, Types, ProcessTypes, LoopsStartAtOne
<1>3. \A c \in Columns : snap'[p][c] <= mtime[c]
  BY <1>1 DEF IInv, BuiltIsTrue
<1>4. CASE Fresh(p) /\ Goes(p, "load", "ready") /\ index' = [index EXCEPT ![p] = saved.indexes]
  <2>1. saved \in Dumps /\ saved.mtimes = snap[p]
    BY <1>2, <1>4, BoundsAssumption DEF IInv, Types, Fresh, Absent, Torn
  <2>2. index' \in [Processes -> [Columns -> Content]] /\ index'[p] = saved.indexes
    BY <1>2, <1>4, <2>1 DEF Dumps
  <2>3. pc' = [pc EXCEPT ![p] = "ready"]
    BY <1>4 DEF Goes
  <2>4. ProcessTypes'
    BY <1>1, <1>2, <2>2, <2>3 DEF IInv, Types, ProcessTypes, Steps
  <2>5. \A c \in Columns : TrueOf(c, snap'[p][c], index'[p][c])
    BY <1>1, <2>1, <2>2 DEF IInv, SavedIsTrue
  <2>6. \A q \in Processes \ {p} : pc'[q] = pc[q] /\ index'[q] = index[q]
    BY <1>2, <1>4, <2>3
  <2> QED
    BY <1>1, <1>2, <1>3, <2>4, <2>5, <2>6, SavedStays, ProcessKeeps
<1>5. CASE Goes(p, "load", "build") /\ UNCHANGED index
  <2>1. pc' = [pc EXCEPT ![p] = "build"]
    BY <1>5 DEF Goes
  <2>2. ProcessTypes'
    BY <1>1, <1>2, <1>5, <2>1 DEF IInv, Types, ProcessTypes, Steps
  <2>3. \A c \in Columns : ~Built(p, c)'
    BY <1>1, <1>2, <2>1 DEF Built, Columns
  <2>4. \A q \in Processes \ {p} : pc'[q] = pc[q]
    BY <1>2, <2>1
  <2> QED
    BY <1>1, <1>2, <1>3, <1>5, <2>1, <2>2, <2>3, <2>4, SavedStays, ProcessKeeps
<1> QED
  BY <1>4, <1>5 DEF Load

\* A column is read after its time was taken: if it has that time still, what
\* was read is what the file holds.
LEMMA BuildColumnIInv ==
  ASSUME IInv, NEW p \in Processes, BuildColumn(p)
  PROVE  IInv'
<1>1. CASE GivesUp(p, "build")
  BY <1>1, ExitIInv DEF GivesUp
<1>2. CASE /\ Column(p, "build", "truncate")
           /\ index' = [index EXCEPT ![p][cursor[p]] = file[cursor[p]]]
           /\ UNCHANGED <<saved, rows, snap>>
  <2>1. "truncate" \in Steps
    BY DEF Steps
  <2>2. /\ UNCHANGED store /\ pc[p] = "build" /\ pc' \in [Processes -> Steps]
        /\ cursor' \in [Processes -> Columns]
        /\ \/ cursor[p] = NumColumns /\ cursor'[p] = 1 /\ pc'[p] = "truncate"
           \/ /\ cursor[p] < NumColumns /\ cursor'[p] = cursor[p] + 1
              /\ pc'[p] = "build"
        /\ \A q \in Processes \ {p} : pc'[q] = pc[q] /\ cursor'[q] = cursor[q]
    BY <1>2, <2>1, LoopTurn
  <2>3. /\ index \in [Processes -> [Columns -> Content]] /\ file \in [Columns -> Content]
        /\ cursor[p] \in Columns
    BY DEF IInv, Types, StoreTypes, ProcessTypes
  <2>4. ProcessTypes'
    BY <1>2, <2>2, <2>3 DEF IInv, Types, ProcessTypes
  <2>5. ASSUME NEW c \in Columns
        PROVE  /\ snap'[p][c] <= mtime[c]
               /\ Built(p, c)' => TrueOf(c, snap'[p][c], index'[p][c])
    <3>1. snap'[p][c] = snap[p][c] /\ snap[p][c] <= mtime[c]
      BY <1>2 DEF IInv, BuiltIsTrue
    <3>2. CASE c = cursor[p]
      <4>1. index'[p][c] = file[c]
        BY <1>2, <2>3, <3>2
      <4> QED
        BY <3>1, <4>1 DEF TrueOf
    <3>3. CASE c # cursor[p]
      <4>1. index'[p][c] = index[p][c]
        BY <1>2, <2>3, <3>3
      <4>2. Built(p, c)' => c < cursor[p]
        BY <2>2, <2>3, <3>3 DEF Built, Columns
      <4>3. c < cursor[p] => Built(p, c)
        BY <2>2 DEF Built
      <4> QED
        BY <3>1, <4>1, <4>2, <4>3 DEF IInv, BuiltIsTrue
    <3> QED
      BY <3>2, <3>3
  <2>6. \A q \in Processes \ {p} : index'[q] = index[q]
    BY <1>2, <2>3
  <2> QED
    BY <1>2, <2>2, <2>4, <2>5, <2>6, SavedStays, ProcessKeeps
<1> QED
  BY <1>1, <1>2 DEF BuildColumn

\* A process that has all its indexes goes on having them.
LEMMA BuiltIInv ==
  ASSUME IInv, NEW p \in Processes, NEW from \in {"truncate", "dump"},
         NEW to \in {"dump", "ready"}, Goes(p, from, to),
         UNCHANGED <<rows, cursor, snap, index>>,
         saved' \in {Absent, Torn} \cup Dumps, SavedIsTrue'
  PROVE  IInv'
<1>1. UNCHANGED store /\ pc' = [pc EXCEPT ![p] = to] /\ pc[p] = from
  BY DEF Goes
<1>2. pc \in [Processes -> Steps] /\ pc'[p] = to
  BY <1>1 DEF IInv, Types, ProcessTypes
<1>3. ProcessTypes'
  BY <1>1, <1>2 DEF IInv, Types, ProcessTypes, Steps
<1>4. \A c \in Columns : snap'[p][c] <= mtime[c] /\ TrueOf(c, snap'[p][c], index'[p][c])
  BY <1>1 DEF IInv, BuiltIsTrue, Built
<1>5. cursor'[p] = 1
  BY <1>1 DEF IInv, LoopsStartAtOne
<1>6. \A q \in Processes \ {p} : pc'[q] = pc[q]
  BY <1>1, <1>2
<1> QED
  BY <1>1, <1>3, <1>4, <1>5, <1>6, ProcessKeeps

LEMMA TruncateSavedIInv ==
  ASSUME IInv, NEW p \in Processes, TruncateSaved(p)
  PROVE  IInv'
<1>1. CASE Goes(p, "truncate", "dump") /\ saved' = Torn
  <2>1. SavedIsTrue'
    BY <1>1, NotADump DEF SavedIsTrue
  <2> QED
    BY <1>1, <2>1, BuiltIInv DEF TruncateSaved
<1>2. CASE Goes(p, "truncate", "ready") /\ UNCHANGED saved
  BY <1>2, SavedStays, BuiltIInv DEF TruncateSaved, Goes
<1> QED
  BY <1>1, <1>2 DEF TruncateSaved

LEMMA DumpIInv ==
  ASSUME IInv, NEW p \in Processes, Dump(p)
  PROVE  IInv'
<1> DEFINE dumped == [mtimes |-> snap[p], rows |-> rows[p], indexes |-> index[p]]
<1>1. Goes(p, "dump", "ready") /\ saved' \in {Torn, dumped}
  BY DEF Dump, SavedMtimes
<1>2. dumped \in Dumps
  BY DEF Dumps, IInv, Types, ProcessTypes
<1>3. \A c \in Columns : TrueOf(c, snap[p][c], index[p][c])
  BY <1>1 DEF IInv, BuiltIsTrue, Built, Goes
<1>4. SavedIsTrue'
  <2>1. CASE saved' = Torn
    BY <2>1, NotADump DEF SavedIsTrue
  <2>2. CASE saved' = dumped
    BY <1>1, <1>3, <2>2 DEF SavedIsTrue, TrueOf, Goes, store
  <2> QED
    BY <1>1, <2>1, <2>2
<1> QED
  BY <1>1, <1>2, <1>4, BuiltIInv DEF Dump

LEMMA StepIInv == IInv /\ [Next]_vars => IInv'
<1> SUFFICES ASSUME IInv, [Next]_vars PROVE IInv'
  OBVIOUS
<1>1. CASE UNCHANGED vars
  BY <1>1 DEF IInv, Types, StoreTypes, ProcessTypes, LoopsStartAtOne, SavedIsTrue,
              BuiltIsTrue, Built, TrueOf, vars, store, processVars
<1>2. CASE \E p \in Processes : Process(p)
  <2>1. PICK p \in Processes : Process(p)
    BY <1>2
  <2>2. CASE Exit(p)
    BY <2>2, ExitIInv DEF Exit
  <2> QED
    BY <2>1, <2>2, ReadMetaIInv, CheckSizeIInv, TakeMtimeIInv, LoadIInv, BuildColumnIInv,
       TruncateSavedIInv, DumpIInv DEF Process
<1> QED
  BY <1>1, <1>2, WriterIInv DEF Next

LEMMA Invariance == Spec => []IInv
BY InitIInv, StepIInv, PTL DEF Spec

\* As long as the files have the times that a process took, the indexes it works
\* with are those of the files: load_or_build never takes stale indexes for fresh
\* ones, whoever saved them, over any number of processes, flushes and rebuilds.
THEOREM FreshIndexes == Spec => []FreshWhileUnchanged
<1>1. IInv => FreshWhileUnchanged
  <2> SUFFICES ASSUME IInv, NEW p \in Processes, pc[p] = "ready", mtime = snap[p]
               PROVE  index[p] = file
    BY DEF FreshWhileUnchanged
  <2>1. \A c \in Columns : index[p][c] = file[c]
    BY DEF IInv, BuiltIsTrue, Built, TrueOf
  <2>2. index[p] \in [Columns -> Content] /\ file \in [Columns -> Content]
    BY DEF IInv, Types, StoreTypes, ProcessTypes
  <2> QED
    BY <2>1, <2>2
<1> QED
  BY <1>1, Invariance, PTL
-----------------------------------------------------------------------------
(* The bounded heap.                                                       *)

\* How far an item is from being evicted.
Weight(x, largest) == IF largest THEN x.key ELSE -x.key

\* Items have numbers for keys.
Keyed(Item) == \A x \in Item : x.key \in Int

\* What is evicted first weighs less.
LEMMA EvictableIs ==
  ASSUME NEW Item, Keyed(Item), NEW largest
  PROVE  /\ \A x \in Item : Weight(x, largest) \in Int
         /\ \A a, b \in Item :
              EvictableAbove(a, b, largest) <=> Weight(a, largest) < Weight(b, largest)
<1>1. \A x \in Item : x.key \in Int
  BY DEF Keyed
<1> QED
  BY <1>1 DEF Weight, EvictableAbove

\* The recursive definitions have the functions they describe.
LEMMA RisingDef ==
  ASSUME NEW heap, NEW largest, Len(heap) \in Nat
  PROVE  Rising(heap, largest) =
           [k \in 0 .. Len(heap) |->
              IF k = 0 THEN [heap |-> heap, at |-> Len(heap)]
              ELSE RiseOnce(Rising(heap, largest)[k - 1], largest)]
<1> DEFINE Value(g, k) == IF k = 0 THEN [heap |-> heap, at |-> Len(heap)]
                          ELSE RiseOnce(g[k - 1], largest)
           Is(g, n) == g = [k \in 0 .. n |-> Value(g, k)]
           S == {n \in Nat : \E g : Is(g, n)}
<1>1. 0 \in S
  <2>1. Is([k \in 0 .. 0 |-> [heap |-> heap, at |-> Len(heap)]], 0)
    OBVIOUS
  <2> QED
    BY <2>1
<1>2. ASSUME NEW n \in Nat, n \in S PROVE n + 1 \in S
  <2>1. PICK g : Is(g, n)
    BY <1>2
  <2>2. PICK x : x = Value(g, n + 1)
    OBVIOUS
  <2>3. PICK h : h = [k \in 0 .. n + 1 |-> IF k = n + 1 THEN x ELSE g[k]]
    OBVIOUS
  <2>4. ASSUME NEW k \in 0 .. n + 1 PROVE h[k] = Value(h, k)
    <3>1. h[n + 1] = x /\ \A j \in 0 .. n : h[j] = g[j]
      BY <2>3, Extended
    <3>2. \A j \in 1 .. n + 1 : h[j - 1] = g[j - 1]
      BY <2>3, Extended
    <3>3. \A j \in 0 .. n : g[j] = Value(g, j)
      BY <2>1
    <3>4. (k = n + 1 \/ k \in 0 .. n) /\ (k = 0 \/ k \in 1 .. n + 1)
      OBVIOUS
    <3> QED
      BY <2>2, <3>1, <3>2, <3>3, <3>4
  <2>5. Is(h, n + 1)
    BY <2>3, <2>4
  <2> HIDE DEF Is
  <2> QED
    BY <2>5
<1>3. Nat \subseteq S
  <2> HIDE DEF S
  <2> QED
    BY <1>1, <1>2, Induction
<1>4. \E g : Is(g, Len(heap))
  BY <1>3
<1> QED
  BY <1>4 DEF Rising

LEMMA SinkingDef ==
  ASSUME NEW heap, NEW largest, Len(heap) \in Nat
  PROVE  Sinking(heap, largest) =
           [k \in 0 .. Len(heap) |->
              IF k = 0 THEN [heap |-> heap, at |-> 1]
              ELSE SinkOnce(Sinking(heap, largest)[k - 1], largest)]
<1> DEFINE Value(g, k) == IF k = 0 THEN [heap |-> heap, at |-> 1]
                          ELSE SinkOnce(g[k - 1], largest)
           Is(g, n) == g = [k \in 0 .. n |-> Value(g, k)]
           S == {n \in Nat : \E g : Is(g, n)}
<1>1. 0 \in S
  <2>1. Is([k \in 0 .. 0 |-> [heap |-> heap, at |-> 1]], 0)
    OBVIOUS
  <2> QED
    BY <2>1
<1>2. ASSUME NEW n \in Nat, n \in S PROVE n + 1 \in S
  <2>1. PICK g : Is(g, n)
    BY <1>2
  <2>2. PICK x : x = Value(g, n + 1)
    OBVIOUS
  <2>3. PICK h : h = [k \in 0 .. n + 1 |-> IF k = n + 1 THEN x ELSE g[k]]
    OBVIOUS
  <2>4. ASSUME NEW k \in 0 .. n + 1 PROVE h[k] = Value(h, k)
    <3>1. h[n + 1] = x /\ \A j \in 0 .. n : h[j] = g[j]
      BY <2>3, Extended
    <3>2. \A j \in 1 .. n + 1 : h[j - 1] = g[j - 1]
      BY <2>3, Extended
    <3>3. \A j \in 0 .. n : g[j] = Value(g, j)
      BY <2>1
    <3>4. (k = n + 1 \/ k \in 0 .. n) /\ (k = 0 \/ k \in 1 .. n + 1)
      OBVIOUS
    <3> QED
      BY <2>2, <3>1, <3>2, <3>3, <3>4
  <2>5. Is(h, n + 1)
    BY <2>3, <2>4
  <2> HIDE DEF Is
  <2> QED
    BY <2>5
<1>3. Nat \subseteq S
  <2> HIDE DEF S
  <2> QED
    BY <1>1, <1>2, Induction
<1>4. \E g : Is(g, Len(heap))
  BY <1>3
<1> QED
  BY <1>4 DEF Sinking

LEMMA PushingDef ==
  ASSUME NEW items, NEW n, NEW largest, Len(items) \in Nat
  PROVE  Pushing(items, n, largest) =
           [k \in 0 .. Len(items) |->
              IF k = 0 THEN <<>>
              ELSE Push(Pushing(items, n, largest)[k - 1], items[k], n, largest)]
<1> DEFINE Value(g, k) == IF k = 0 THEN <<>>
                          ELSE Push(g[k - 1], items[k], n, largest)
           Is(g, m) == g = [k \in 0 .. m |-> Value(g, k)]
           S == {m \in Nat : \E g : Is(g, m)}
<1>1. 0 \in S
  <2>1. Is([k \in 0 .. 0 |-> <<>>], 0)
    OBVIOUS
  <2> QED
    BY <2>1
<1>2. ASSUME NEW m \in Nat, m \in S PROVE m + 1 \in S
  <2>1. PICK g : Is(g, m)
    BY <1>2
  <2>2. PICK x : x = Value(g, m + 1)
    OBVIOUS
  <2>3. PICK h : h = [k \in 0 .. m + 1 |-> IF k = m + 1 THEN x ELSE g[k]]
    OBVIOUS
  <2>4. ASSUME NEW k \in 0 .. m + 1 PROVE h[k] = Value(h, k)
    <3>1. h[m + 1] = x /\ \A j \in 0 .. m : h[j] = g[j]
      BY <2>3, Extended
    <3>2. \A j \in 1 .. m + 1 : h[j - 1] = g[j - 1]
      BY <2>3, Extended
    <3>3. \A j \in 0 .. m : g[j] = Value(g, j)
      BY <2>1
    <3>4. (k = m + 1 \/ k \in 0 .. m) /\ (k = 0 \/ k \in 1 .. m + 1)
      OBVIOUS
    <3> QED
      BY <2>2, <3>1, <3>2, <3>3, <3>4
  <2>5. Is(h, m + 1)
    BY <2>3, <2>4
  <2> HIDE DEF Is
  <2> QED
    BY <2>5
<1>3. Nat \subseteq S
  <2> HIDE DEF S
  <2> QED
    BY <1>1, <1>2, Induction
<1>4. \E g : Is(g, Len(items))
  BY <1>3
<1> QED
  BY <1>4 DEF Pushing
-----------------------------------------------------------------------------
(* Sifting, said of the weights of the items.                              *)

\* The places of a heap and their parents.
LEMMA ParentIs ==
  ASSUME NEW m \in Nat
  PROVE  \A j \in 2 .. m : j \div 2 \in 1 .. m /\ j \div 2 < j
OBVIOUS

\* The parent of no item but, perhaps, the one at place at weighs more than it.
OrderedBut(w, m, at) == \A j \in 2 .. m : j # at => w[j \div 2] <= w[j]

\* No item below place at weighs less than the item above.
BelowAbove(w, m, at) == \A j \in 2 .. m : j \div 2 = at /\ at > 1 => w[at \div 2] <= w[j]

\* v is w with what is at i and at j exchanged.
Exchanged(v, w, m, i, j) ==
  v[i] = w[j] /\ v[j] = w[i] /\ \A k \in 1 .. m : k # i /\ k # j => v[k] = w[k]

\* The item at place at changes places with its parent.
LEMMA RisingKeepsOrder ==
  ASSUME NEW m \in Nat, NEW w \in [1 .. m -> Int], NEW v \in [1 .. m -> Int],
         NEW at \in 2 .. m, NEW p, p = at \div 2,
         OrderedBut(w, m, at), BelowAbove(w, m, at), w[at] < w[p],
         Exchanged(v, w, m, at, p)
  PROVE  OrderedBut(v, m, p) /\ BelowAbove(v, m, p)
<1>0. v[at] = w[p] /\ v[p] = w[at] /\ \A i \in 1 .. m : i # at /\ i # p => v[i] = w[i]
  BY DEF Exchanged
<1>1. p \in 1 .. m /\ p < at /\ at \in 1 .. m
  BY ParentIs
<1>2. \A i \in 1 .. m : w[i] \in Int /\ v[i] \in Int
  OBVIOUS
<1>3. ASSUME NEW j \in 2 .. m, j # p PROVE v[j \div 2] <= v[j]
  <2>1. j \in 1 .. m /\ j \div 2 \in 1 .. m /\ j \div 2 < j
    BY ParentIs
  <2>2. CASE j = at
    BY <1>0, <1>1, <1>2, <2>2
  <2>3. CASE j # at /\ j \div 2 = at
    <3>1. w[p] <= w[j]
      BY <1>0, <1>1, <2>3 DEF BelowAbove
    <3> QED
      BY <1>0, <1>3, <2>1, <2>3, <3>1
  <2>4. CASE j # at /\ j \div 2 = p
    <3>1. w[p] <= w[j]
      BY <1>0, <2>4 DEF OrderedBut
    <3>2. v[j] = w[j]
      BY <1>0, <1>3, <2>1, <2>4
    <3>3. v[j \div 2] = w[at] /\ w[p] \in Int /\ w[at] \in Int /\ w[j] \in Int
      BY <1>0, <1>1, <1>2, <2>1, <2>4
    <3> QED
      BY <3>1, <3>2, <3>3
  <2>5. CASE j # at /\ j \div 2 # at /\ j \div 2 # p
    <3>1. w[j \div 2] <= w[j]
      BY <1>0, <2>5 DEF OrderedBut
    <3> QED
      BY <1>0, <1>3, <2>1, <2>5, <3>1
  <2> QED
    BY <1>0, <2>2, <2>3, <2>4, <2>5
<1>4. ASSUME NEW j \in 2 .. m, j \div 2 = p, p > 1 PROVE v[p \div 2] <= v[j]
  <2>1. p \in 2 .. m /\ p \div 2 \in 1 .. m /\ p \div 2 < p
    BY <1>0, <1>1, <1>4, ParentIs
  <2>2. v[p \div 2] = w[p \div 2] /\ w[p \div 2] <= w[p]
    <3>1. p \div 2 # at /\ p \div 2 # p /\ p # at
      BY <1>0, <1>1, <2>1
    <3>2. v[p \div 2] = w[p \div 2]
      BY <1>0, <2>1, <3>1
    <3> QED
      BY <1>0, <2>1, <3>1, <3>2 DEF OrderedBut
  <2>3. CASE j = at
    BY <1>0, <2>2, <2>3
  <2>4. CASE j # at
    <3>1. w[p] <= w[j]
      BY <1>0, <1>4, <2>4 DEF OrderedBut
    <3>2. j \in 1 .. m /\ j # p
      BY <1>0, <1>4, ParentIs
    <3>3. v[j] = w[j]
      BY <1>0, <2>4, <3>2
    <3> QED
      <4>1. w[p] \in Int /\ w[j] \in Int /\ w[p \div 2] \in Int
        BY <1>0, <1>1, <1>2, <2>1, <3>2
      <4> QED
        BY <2>2, <3>1, <3>3, <4>1
  <2> QED
    BY <1>0, <2>3, <2>4
<1> QED
  BY <1>3, <1>4 DEF OrderedBut, BelowAbove

\* The same of an item that weighs more than its children.
OrderedAbove(w, m, at) == \A j \in 2 .. m : j \div 2 # at => w[j \div 2] <= w[j]

\* The item at place at changes places with the lighter of its children.
LEMMA SinkingKeepsOrder ==
  ASSUME NEW m \in Nat, NEW w \in [1 .. m -> Int], NEW v \in [1 .. m -> Int],
         NEW at \in 1 .. m, NEW c \in 2 .. m, c \div 2 = at,
         OrderedAbove(w, m, at), BelowAbove(w, m, at), w[c] < w[at],
         \A j \in 2 .. m : j \div 2 = at => w[c] <= w[j],
         Exchanged(v, w, m, at, c)
  PROVE  OrderedAbove(v, m, c) /\ BelowAbove(v, m, c)
<1>0. v[at] = w[c] /\ v[c] = w[at] /\ \A i \in 1 .. m : i # at /\ i # c => v[i] = w[i]
  BY DEF Exchanged
<1>1. at < c /\ c \in 1 .. m
  BY ParentIs
<1>2. \A i \in 1 .. m : w[i] \in Int /\ v[i] \in Int
  OBVIOUS
<1>3. ASSUME NEW j \in 2 .. m, j \div 2 # c PROVE v[j \div 2] <= v[j]
  <2>1. j \in 1 .. m /\ j \div 2 \in 1 .. m /\ j \div 2 < j
    BY ParentIs
  <2>2. CASE j = c
    <3>1. v[j \div 2] = w[c] /\ v[j] = w[at] /\ w[c] \in Int /\ w[at] \in Int
      BY <1>0, <1>1, <1>2, <2>2
    <3> QED
      BY <3>1
  <2>3. CASE j = at
    <3>1. w[at \div 2] <= w[c]
      <4>1. at > 1
        BY <1>0, <2>3
      <4> QED
        BY <4>1 DEF BelowAbove
    <3>2. v[j \div 2] = w[j \div 2]
      BY <1>0, <1>1, <1>3, <2>1, <2>3
    <3> QED
      BY <1>0, <2>3, <3>1, <3>2
  <2>4. CASE j # c /\ j \div 2 = at
    <3>1. w[c] <= w[j]
      BY <1>0, <2>4
    <3>2. j # at
      BY <1>0, <2>1, <2>4
    <3>3. v[j] = w[j]
      BY <1>0, <2>1, <2>4, <3>2
    <3> QED
      BY <1>0, <2>4, <3>1, <3>3
  <2>5. CASE j # c /\ j # at /\ j \div 2 # at
    <3>1. w[j \div 2] <= w[j]
      BY <1>0, <2>5 DEF OrderedAbove
    <3> QED
      BY <1>0, <1>3, <2>1, <2>5, <3>1
  <2> QED
    BY <1>0, <2>2, <2>3, <2>4, <2>5
<1>4. ASSUME NEW j \in 2 .. m, j \div 2 = c PROVE v[c \div 2] <= v[j]
  <2>1. j \in 1 .. m /\ c < j
    BY <1>0, <1>4, ParentIs
  <2>2. v[j] = w[j]
    BY <1>0, <1>1, <2>1
  <2>3. w[c] <= w[j]
    BY <1>0, <1>1, <1>4 DEF OrderedAbove
  <2> QED
    BY <1>0, <2>2, <2>3
<1> QED
  BY <1>3, <1>4 DEF OrderedAbove, BelowAbove

\* The root of a heap in order weighs least.
LEMMA RootIsLeast ==
  ASSUME NEW m \in Nat, NEW w \in [1 .. m -> Int], \A j \in 2 .. m : w[j \div 2] <= w[j]
  PROVE  \A i \in 1 .. m : w[1] <= w[i]
<1> DEFINE Lighter == {i \in 1 .. m : ~(w[1] <= w[i])}
<1>1. SUFFICES ASSUME Lighter # {} PROVE FALSE
  OBVIOUS
<1>2. PICK i \in Lighter : \A j \in Lighter : i <= j
  <2>1. Lighter \in SUBSET Nat
    OBVIOUS
  <2> HIDE DEF Lighter
  <2> QED
    BY <1>1, <2>1, LeastNatural
<1>3. i \in 1 .. m /\ ~(w[1] <= w[i])
  BY <1>2
<1>4. w[1] \in Int /\ w[i] \in Int
  BY <1>3
<1>5. i \in 2 .. m
  BY <1>3, <1>4
<1>6. i \div 2 \in 1 .. m /\ i \div 2 < i /\ w[i \div 2] <= w[i] /\ w[i \div 2] \in Int
  BY <1>5, ParentIs
<1>7. i \div 2 \in Lighter
  BY <1>3, <1>4, <1>6
<1> QED
  BY <1>2, <1>6, <1>7

-----------------------------------------------------------------------------
(* Sifting a heap.                                                         *)

Weights(h, largest) == [i \in 1 .. Len(h) |-> Weight(h[i], largest)]

HeapOrdered(h, largest) ==
  \A j \in 2 .. Len(h) : Weights(h, largest)[j \div 2] <= Weights(h, largest)[j]

\* The m items of h are those at these places, all different, among the first k, and
\* the others of these are left out because n, which are enough, weigh no less.
Placed(place, h, m, items, k, n, largest) ==
  /\ place \in [1 .. m -> 1 .. k]
  /\ \A i, j \in 1 .. m : place[i] = place[j] => i = j
  /\ \A i \in 1 .. m : h[i] = items[place[i]]
  /\ \A j \in 1 .. k :
       \/ \E i \in 1 .. m : place[i] = j
       \/ m = n /\ \A i \in 1 .. m : Weight(items[j], largest) <= Weight(h[i], largest)

Keeps(h, items, k, n, largest) == \E place : Placed(place, h, Len(h), items, k, n, largest)

\* The weights of a heap's items, as a function.
LEMMA WeightsAre ==
  ASSUME NEW Item, Keyed(Item), NEW h \in Seq(Item), NEW largest
  PROVE  /\ Weights(h, largest) \in [1 .. Len(h) -> Int]
         /\ \A i \in 1 .. Len(h) : /\ h[i] \in Item
                                   /\ Weights(h, largest)[i] = Weight(h[i], largest)
                                   /\ Weights(h, largest)[i] \in Int
<1>1. \A i \in 1 .. Len(h) : h[i] \in Item
  OBVIOUS
<1>2. \A i \in 1 .. Len(h) : Weight(h[i], largest) \in Int
  BY <1>1, EvictableIs
<1> QED
  BY <1>1, <1>2 DEF Weights

\* The order of the items does not matter.
Permutes(q, m) ==
  /\ q \in [1 .. m -> 1 .. m]
  /\ \A i, j \in 1 .. m : q[i] = q[j] => i = j
  /\ \A j \in 1 .. m : \E i \in 1 .. m : q[i] = j

Along(g, h, q, m) == \A i \in 1 .. m : g[i] = h[q[i]]

\* Items put in another order keep as much.
LEMMA AnyOrderKeeps ==
  ASSUME NEW h, NEW g, NEW m \in Nat, Len(h) = m, Len(g) = m,
         NEW q, Permutes(q, m), Along(g, h, q, m),
         NEW items, NEW k, NEW n, NEW largest, Keeps(h, items, k, n, largest)
  PROVE  Keeps(g, items, k, n, largest)
<1> USE DEF Permutes, Along
<1>0. PICK place : Placed(place, h, m, items, k, n, largest)
  BY DEF Keeps
<1>1. /\ place \in [1 .. m -> 1 .. k]
      /\ \A i, j \in 1 .. m : place[i] = place[j] => i = j
      /\ \A i \in 1 .. m : h[i] = items[place[i]]
      /\ \A j \in 1 .. k :
           \/ \E i \in 1 .. m : place[i] = j
           \/ m = n /\ \A i \in 1 .. m : Weight(items[j], largest) <= Weight(h[i], largest)
  BY <1>0 DEF Placed
<1> DEFINE other == [i \in 1 .. m |-> place[q[i]]]
<1>2. \A i \in 1 .. m : q[i] \in 1 .. m /\ other[i] = place[q[i]]
  OBVIOUS
<1>3. other \in [1 .. m -> 1 .. k]
  BY <1>1, <1>2
<1> HIDE DEF other
<1>4. \A i, j \in 1 .. m : other[i] = other[j] => i = j
  BY <1>1, <1>2
<1>5. ASSUME NEW i \in 1 .. m PROVE g[i] = items[other[i]]
  <2>1. g[i] = h[q[i]] /\ q[i] \in 1 .. m /\ other[i] = place[q[i]]
    BY <1>2
  <2>2. h[q[i]] = items[place[q[i]]]
    BY <1>1, <2>1
  <2> QED
    BY <2>1, <2>2
<1>6. ASSUME NEW j \in 1 .. k
      PROVE  \/ \E i \in 1 .. m : other[i] = j
             \/ m = n /\ \A i \in 1 .. m : Weight(items[j], largest) <= Weight(g[i], largest)
  <2>1. CASE \E i \in 1 .. m : place[i] = j
    <3>1. PICK i \in 1 .. m : place[i] = j
      BY <2>1
    <3>2. PICK a \in 1 .. m : q[a] = i
      OBVIOUS
    <3> QED
      BY <1>2, <3>1, <3>2
  <2>2. CASE m = n /\ \A i \in 1 .. m : Weight(items[j], largest) <= Weight(h[i], largest)
    <3>1. \A i \in 1 .. m : Weight(items[j], largest) <= Weight(g[i], largest)
      BY <1>2, <2>2
    <3> QED
      BY <2>2, <3>1
  <2> QED
    BY <1>1, <2>1, <2>2
<1>7. Placed(other, g, m, items, k, n, largest)
  BY <1>3, <1>4, <1>5, <1>6 DEF Placed
<1> QED
  BY <1>7 DEF Keeps

\* Two items change places.
KeepsAsMuch(g, h, largest) ==
  \A items, k, n : Keeps(h, items, k, n, largest) => Keeps(g, items, k, n, largest)

\* Two items that change places exchange their weights, and none is lost.
LEMMA SwapIs ==
  ASSUME NEW h, NEW g, NEW m \in Nat, Len(h) = m, Len(g) = m,
         NEW at \in 1 .. m, NEW j \in 1 .. m, j # at, NEW largest, Exchanged(g, h, m, at, j)
  PROVE  /\ Exchanged(Weights(g, largest), Weights(h, largest), m, at, j)
         /\ KeepsAsMuch(g, h, largest)
<1> DEFINE q == [i \in 1 .. m |-> IF i = at THEN j ELSE IF i = j THEN at ELSE i]
<1>0. g[at] = h[j] /\ g[j] = h[at] /\ \A i \in 1 .. m : i # at /\ i # j => g[i] = h[i]
  BY DEF Exchanged
<1>1. \A i \in 1 .. m : Weights(h, largest)[i] = Weight(h[i], largest)
  BY DEF Weights
<1>2. \A i \in 1 .. m : Weights(g, largest)[i] = Weight(g[i], largest)
  BY DEF Weights
<1>3. /\ Weights(g, largest)[at] = Weights(h, largest)[j]
      /\ Weights(g, largest)[j] = Weights(h, largest)[at]
  BY <1>0, <1>1, <1>2
<1>4. ASSUME NEW i \in 1 .. m, i # at /\ i # j
      PROVE  Weights(g, largest)[i] = Weights(h, largest)[i]
  <2>1. g[i] = h[i]
    BY <1>0, <1>4
  <2> QED
    BY <1>1, <1>2, <2>1
<1>5. Permutes(q, m)
  <2>1. q \in [1 .. m -> 1 .. m] /\ \A a, b \in 1 .. m : q[a] = q[b] => a = b
    OBVIOUS
  <2>2. \A b \in 1 .. m : q[b] \in 1 .. m /\ q[q[b]] = b
    OBVIOUS
  <2> QED
    BY <2>1, <2>2 DEF Permutes
<1>6. Along(g, h, q, m)
  BY <1>0 DEF Along
<1> HIDE DEF q
<1>7. ASSUME NEW items, NEW k, NEW n, Keeps(h, items, k, n, largest)
      PROVE  Keeps(g, items, k, n, largest)
  BY <1>5, <1>6, <1>7, AnyOrderKeeps
<1> QED
  BY <1>3, <1>4, <1>7 DEF Exchanged, KeepsAsMuch

\* Moved exchanges the items at the two places.
LEMMA MovedIs ==
  ASSUME NEW Item, NEW s, s.heap \in Seq(Item), NEW m \in Nat, Len(s.heap) = m,
         s.at \in 1 .. m, NEW j \in 1 .. m, j # s.at, NEW t, t = Moved(s, j)
  PROVE  /\ t.heap \in Seq(Item) /\ Len(t.heap) = m /\ t.at = j
         /\ Exchanged(t.heap, s.heap, m, s.at, j)
<1>1. t.heap = [s.heap EXCEPT ![s.at] = s.heap[j], ![j] = s.heap[s.at]] /\ t.at = j
  BY DEF Moved
<1>2. s.heap \in [1 .. m -> Item]
  OBVIOUS
<1>3. t.heap \in [1 .. m -> Item] /\ Exchanged(t.heap, s.heap, m, s.at, j)
  BY <1>1, <1>2 DEF Exchanged
<1>4. t.heap \in Seq(Item) /\ Len(t.heap) = m
  BY <1>3
<1> QED
  BY <1>1, <1>3, <1>4

\* _sift_up before each round: only the item on its way may be out of order.
OnItsWayUp(s, Item, m, largest) ==
  /\ s.heap \in Seq(Item) /\ Len(s.heap) = m /\ s.at \in 1 .. m
  /\ OrderedBut(Weights(s.heap, largest), m, s.at)
  /\ BelowAbove(Weights(s.heap, largest), m, s.at)

Risen(s, largest) ==
  s.at > 1 => Weights(s.heap, largest)[s.at \div 2] <= Weights(s.heap, largest)[s.at]

\* A round brings the item nearer the root, or finds it in order.
LEMMA RiseOnceIs ==
  ASSUME NEW Item, Keyed(Item), NEW largest, NEW m \in Nat, NEW s,
         OnItsWayUp(s, Item, m, largest), NEW t, t = RiseOnce(s, largest)
  PROVE  /\ OnItsWayUp(t, Item, m, largest)
         /\ KeepsAsMuch(t.heap, s.heap, largest)
         /\ IF Risen(s, largest) THEN t = s ELSE t.at < s.at
<1> DEFINE w == Weights(s.heap, largest)
<1>0. PICK p : p = s.at \div 2
  OBVIOUS
<1>1. /\ s.heap \in Seq(Item) /\ Len(s.heap) = m /\ s.at \in 1 .. m
      /\ OrderedBut(w, m, s.at) /\ BelowAbove(w, m, s.at)
  BY DEF OnItsWayUp
<1>2. /\ w \in [1 .. m -> Int]
      /\ \A i \in 1 .. m : s.heap[i] \in Item /\ w[i] = Weight(s.heap[i], largest) /\ w[i] \in Int
  BY <1>1, WeightsAre
<1>3. CASE s.at = 1
  <2>1. t = s /\ Risen(s, largest)
    BY <1>3 DEF RiseOnce, Risen
  <2> QED
    BY <2>1 DEF KeepsAsMuch
<1>4. CASE s.at # 1
  <2>1. s.at \in 2 .. m /\ s.at > 1
    BY <1>1, <1>4
  <2>2. p \in 1 .. m /\ p < s.at
    BY <1>0, <2>1, ParentIs
  <2>3. EvictableAbove(s.heap[s.at], s.heap[p], largest) <=> w[s.at] < w[p]
    BY <1>1, <1>2, <2>2, EvictableIs
  <2>4. CASE ~(w[s.at] < w[p])
    <3>1. t = s
      BY <1>0, <2>3, <2>4 DEF RiseOnce
    <3>2. Risen(s, largest)
      BY <1>0, <1>1, <1>2, <2>2, <2>4 DEF Risen
    <3> QED
      BY <3>1, <3>2 DEF KeepsAsMuch
  <2>5. CASE w[s.at] < w[p]
    <3>1. t = Moved(s, p)
      BY <1>0, <2>1, <2>3, <2>5 DEF RiseOnce
    <3>2. p # s.at
      BY <1>1, <2>2
    <3> DEFINE v == Weights(t.heap, largest)
    <3>3. /\ t.heap \in Seq(Item) /\ Len(t.heap) = m /\ t.at = p
          /\ Exchanged(v, w, m, s.at, p)
          /\ KeepsAsMuch(t.heap, s.heap, largest)
      <4>1. /\ t.heap \in Seq(Item) /\ Len(t.heap) = m /\ t.at = p
            /\ Exchanged(t.heap, s.heap, m, s.at, p)
        BY <1>1, <2>2, <3>1, <3>2, MovedIs
      <4> QED
        BY <1>1, <2>2, <3>2, <4>1, SwapIs
    <3>4. v \in [1 .. m -> Int]
      BY <3>3, WeightsAre
    <3>5. ~Risen(s, largest)
      <4>1. ~(w[p] <= w[s.at])
        BY <1>1, <1>2, <2>2, <2>5
      <4> QED
        BY <1>0, <2>1, <4>1 DEF Risen
    <3>6. w \in [1 .. m -> Int] /\ OrderedBut(w, m, s.at) /\ BelowAbove(w, m, s.at)
      BY <1>1, <1>2
    <3>7. OrderedBut(v, m, p) /\ BelowAbove(v, m, p)
      <4> HIDE DEF v, w
      <4> QED
        BY <1>0, <2>1, <2>5, <3>3, <3>4, <3>6, RisingKeepsOrder
    <3> QED
      BY <2>2, <3>3, <3>5, <3>7 DEF OnItsWayUp
  <2> QED
    BY <2>4, <2>5
<1> QED
  BY <1>3, <1>4

\* _sift_up restores the order of a heap whose last item alone may be out of order.
LEMMA SiftUpIs ==
  ASSUME NEW Item, Keyed(Item), NEW largest, NEW h \in Seq(Item), NEW m \in Nat, m # 0,
         Len(h) = m, OrderedBut(Weights(h, largest), m, m), NEW g, g = SiftUp(h, largest)
  PROVE  /\ g \in Seq(Item) /\ Len(g) = m /\ HeapOrdered(g, largest)
         /\ KeepsAsMuch(g, h, largest)
<1> DEFINE r == Rising(h, largest)
           S == {k \in 0 .. m : /\ OnItsWayUp(r[k], Item, m, largest)
                                /\ KeepsAsMuch(r[k].heap, h, largest)
                                /\ Risen(r[k], largest) \/ r[k].at <= m - k}
<1>1. /\ r[0] = [heap |-> h, at |-> m]
      /\ \A k \in 0 .. m - 1 : r[k + 1] = RiseOnce(r[k], largest)
  <2>1. r = [k \in 0 .. m |-> IF k = 0 THEN [heap |-> h, at |-> m]
                              ELSE RiseOnce(r[k - 1], largest)]
    BY RisingDef
  <2>2. \A k \in 0 .. m - 1 : k + 1 \in 0 .. m /\ k + 1 # 0 /\ (k + 1) - 1 = k
    OBVIOUS
  <2>3. 0 \in 0 .. m
    OBVIOUS
  <2> HIDE DEF r
  <2> QED
    BY <2>1, <2>2, <2>3
<1> HIDE DEF r
<1>2. 0 \in S
  <2>1. r[0].heap = h /\ r[0].at = m
    BY <1>1
  <2>2. BelowAbove(Weights(h, largest), m, m)
    <3>1. \A j \in 2 .. m : j \div 2 # m
      BY ParentIs
    <3> QED
      BY <3>1 DEF BelowAbove
  <2>3. OnItsWayUp(r[0], Item, m, largest)
    BY <2>1, <2>2 DEF OnItsWayUp
  <2>4. KeepsAsMuch(r[0].heap, h, largest)
    BY <2>1 DEF KeepsAsMuch
  <2> QED
    BY <2>1, <2>3, <2>4
<1>3. ASSUME NEW k \in 0 .. m - 1, k \in S PROVE k + 1 \in S
  <2>1. /\ OnItsWayUp(r[k], Item, m, largest) /\ KeepsAsMuch(r[k].heap, h, largest)
        /\ Risen(r[k], largest) \/ r[k].at <= m - k
    BY <1>3
  <2>2. r[k + 1] = RiseOnce(r[k], largest)
    BY <1>1
  <2>3. /\ OnItsWayUp(r[k + 1], Item, m, largest)
        /\ KeepsAsMuch(r[k + 1].heap, r[k].heap, largest)
        /\ IF Risen(r[k], largest) THEN r[k + 1] = r[k] ELSE r[k + 1].at < r[k].at
    BY <2>1, <2>2, RiseOnceIs
  <2>4. KeepsAsMuch(r[k + 1].heap, h, largest)
    BY <2>1, <2>3 DEF KeepsAsMuch
  <2>5. Risen(r[k + 1], largest) \/ r[k + 1].at <= m - (k + 1)
    <3>1. CASE Risen(r[k], largest)
      BY <2>3, <3>1
    <3>2. CASE ~Risen(r[k], largest)
      <4>1. r[k].at \in Nat /\ r[k + 1].at \in Nat
        BY <2>1, <2>3 DEF OnItsWayUp
      <4> QED
        BY <2>1, <2>3, <3>2, <4>1
    <3> QED
      BY <3>1, <3>2
  <2> QED
    BY <2>3, <2>4, <2>5
<1>4. m \in S
  <2> HIDE DEF S
  <2>1. 0 .. m \subseteq S
    BY <1>2, <1>3, InductionUpTo
  <2> QED
    BY <2>1
<1>5. g = r[m].heap
  BY DEF SiftUp, r
<1>6. /\ OnItsWayUp(r[m], Item, m, largest) /\ KeepsAsMuch(g, h, largest)
      /\ Risen(r[m], largest)
  <2>1. OnItsWayUp(r[m], Item, m, largest) => r[m].at \in 1 .. m
    BY DEF OnItsWayUp
  <2> QED
    BY <1>4, <1>5, <2>1
<1>7. HeapOrdered(g, largest)
  <2>1. ASSUME NEW j \in 2 .. m PROVE Weights(g, largest)[j \div 2] <= Weights(g, largest)[j]
    <3>1. CASE j = r[m].at
      <4>1. r[m].at > 1
        BY <3>1
      <4> QED
        BY <1>5, <1>6, <3>1, <4>1 DEF Risen
    <3>2. CASE j # r[m].at
      BY <1>5, <1>6, <3>2 DEF OnItsWayUp, OrderedBut
    <3> QED
      BY <3>1, <3>2
  <2>2. Len(g) = m
    BY <1>5, <1>6 DEF OnItsWayUp
  <2> QED
    BY <2>1, <2>2 DEF HeapOrdered
<1> QED
  BY <1>5, <1>6, <1>7 DEF OnItsWayUp

\* _sift_down before each round: only the item on its way may weigh too much.
OnItsWayDown(s, Item, m, largest) ==
  /\ s.heap \in Seq(Item) /\ Len(s.heap) = m /\ s.at \in 1 .. m
  /\ OrderedAbove(Weights(s.heap, largest), m, s.at)
  /\ BelowAbove(Weights(s.heap, largest), m, s.at)

Sunk(s, largest) == Top(s.heap, s.at, largest) = s.at

\* The place that goes on top has the least weight of an item and its children.
LEMMA TopIs ==
  ASSUME NEW Item, Keyed(Item), NEW largest, NEW h \in Seq(Item), NEW m \in Nat, Len(h) = m,
         NEW at \in 1 .. m, NEW w, w = Weights(h, largest), NEW top, top = Top(h, at, largest)
  PROVE  /\ top # at => top \in 2 .. m /\ top \div 2 = at /\ w[top] < w[at]
         /\ \A j \in 2 .. m : j \div 2 = at => w[top] <= w[j]
<1>1. /\ \A i \in 1 .. m : w[i] \in Int
      /\ \A i, j \in 1 .. m : EvictableAbove(h[i], h[j], largest) <=> w[i] < w[j]
  BY WeightsAre, EvictableIs
<1> DEFINE Better(a, child) ==
             IF child <= m /\ EvictableAbove(h[child], h[a], largest) THEN child ELSE a
<1>2. PICK b : b = Better(at, 2 * at)
  OBVIOUS
<1>3. top = Better(b, 2 * at + 1)
  BY <1>2 DEF Top
<1>4. ASSUME NEW a \in 1 .. m, NEW child \in Nat \ {0}
      PROVE  /\ Better(a, child) \in 1 .. m
             /\ Better(a, child) = a \/ Better(a, child) = child
             /\ w[Better(a, child)] <= w[a] /\ (child <= m => w[Better(a, child)] <= w[child])
             /\ Better(a, child) # a => w[Better(a, child)] < w[a]
  <2>1. w[a] \in Int
    BY <1>1
  <2>2. CASE child <= m
    <3>1. child \in 1 .. m /\ w[child] \in Int
      BY <1>1, <2>2
    <3> QED
      BY <1>1, <2>1, <2>2, <3>1
  <2>3. CASE ~(child <= m)
    BY <2>1, <2>3
  <2> QED
    BY <2>2, <2>3
<1> HIDE DEF Better
<1>5. /\ b \in 1 .. m /\ b \in {at, 2 * at}
      /\ w[b] <= w[at] /\ (2 * at <= m => w[b] <= w[2 * at]) /\ (b # at => w[b] < w[at])
  <2>1. 2 * at \in Nat \ {0}
    OBVIOUS
  <2> QED
    BY <1>2, <1>4, <2>1
<1>6. /\ top \in 1 .. m /\ top \in {b, 2 * at + 1}
      /\ w[top] <= w[b] /\ (2 * at + 1 <= m => w[top] <= w[2 * at + 1])
      /\ (top # b => w[top] < w[b])
  <2>1. 2 * at + 1 \in Nat \ {0}
    OBVIOUS
  <2> QED
    BY <1>3, <1>4, <1>5, <2>1
<1>7. w[b] \in Int /\ w[top] \in Int /\ w[at] \in Int
  BY <1>1, <1>5, <1>6
<1>8. ASSUME top # at PROVE top \in 2 .. m /\ top \div 2 = at /\ w[top] < w[at]
  <2>1. w[top] < w[at]
    BY <1>5, <1>6, <1>7, <1>8
  <2>2. top \in {2 * at, 2 * at + 1}
    BY <1>5, <1>6, <1>8
  <2>3. top \in 2 .. m
    BY <1>6, <2>2
  <2>4. top \div 2 = at
    BY <2>2
  <2> QED
    BY <2>1, <2>3, <2>4
<1>9. ASSUME NEW j \in 2 .. m, j \div 2 = at PROVE w[top] <= w[j]
  <2>1. j = 2 * at \/ j = 2 * at + 1
    BY <1>9
  <2>2. CASE j = 2 * at
    <3>1. w[b] <= w[j] /\ w[j] \in Int
      BY <1>1, <1>5, <2>2
    <3>2. w[top] <= w[b]
      BY <1>6
    <3> QED
      BY <1>7, <3>1, <3>2
  <2>3. CASE j = 2 * at + 1
    BY <1>6, <2>3
  <2> QED
    BY <2>1, <2>2, <2>3
<1> QED
  BY <1>8, <1>9

\* A round brings the item further down, or finds it in order.
LEMMA SinkOnceIs ==
  ASSUME NEW Item, Keyed(Item), NEW largest, NEW m \in Nat, NEW s,
         OnItsWayDown(s, Item, m, largest), NEW t, t = SinkOnce(s, largest)
  PROVE  /\ OnItsWayDown(t, Item, m, largest)
         /\ KeepsAsMuch(t.heap, s.heap, largest)
         /\ IF Sunk(s, largest) THEN t = s ELSE t.at > s.at
<1> DEFINE w == Weights(s.heap, largest)
<1>0. PICK c : c = Top(s.heap, s.at, largest)
  OBVIOUS
<1>1. /\ s.heap \in Seq(Item) /\ Len(s.heap) = m /\ s.at \in 1 .. m
      /\ OrderedAbove(w, m, s.at) /\ BelowAbove(w, m, s.at)
  BY DEF OnItsWayDown
<1>2. w \in [1 .. m -> Int]
  BY <1>1, WeightsAre
<1>3. /\ c # s.at => c \in 2 .. m /\ c \div 2 = s.at /\ w[c] < w[s.at]
      /\ \A j \in 2 .. m : j \div 2 = s.at => w[c] <= w[j]
  BY <1>0, <1>1, TopIs
<1>4. CASE c = s.at
  <2>1. t = s /\ Sunk(s, largest)
    BY <1>0, <1>4 DEF SinkOnce, Sunk
  <2> QED
    BY <2>1 DEF KeepsAsMuch
<1>5. CASE c # s.at
  <2>1. t = Moved(s, c) /\ ~Sunk(s, largest)
    BY <1>0, <1>5 DEF SinkOnce, Sunk
  <2>2. c \in 2 .. m /\ c \in 1 .. m /\ c > s.at
    BY <1>3, <1>5, ParentIs
  <2> DEFINE v == Weights(t.heap, largest)
  <2>3. /\ t.heap \in Seq(Item) /\ Len(t.heap) = m /\ t.at = c
        /\ Exchanged(t.heap, s.heap, m, s.at, c)
    BY <1>1, <1>5, <2>1, <2>2, MovedIs
  <2>4. Exchanged(v, w, m, s.at, c) /\ KeepsAsMuch(t.heap, s.heap, largest)
    BY <1>1, <1>5, <2>2, <2>3, SwapIs
  <2>5. v \in [1 .. m -> Int]
    BY <2>3, WeightsAre
  <2>6. OrderedAbove(v, m, c) /\ BelowAbove(v, m, c)
    <3> HIDE DEF v, w
    <3> QED
      BY <1>1, <1>2, <1>3, <1>5, <2>2, <2>4, <2>5, SinkingKeepsOrder
  <2> QED
    BY <2>1, <2>2, <2>3, <2>4, <2>6 DEF OnItsWayDown
<1> QED
  BY <1>4, <1>5

\* _sift_down restores the order of a heap whose root alone may weigh too much.
LEMMA SiftDownIs ==
  ASSUME NEW Item, Keyed(Item), NEW largest, NEW h \in Seq(Item), NEW m \in Nat, m # 0,
         Len(h) = m, OrderedAbove(Weights(h, largest), m, 1), NEW g, g = SiftDown(h, largest)
  PROVE  /\ g \in Seq(Item) /\ Len(g) = m /\ HeapOrdered(g, largest)
         /\ KeepsAsMuch(g, h, largest)
<1> DEFINE r == Sinking(h, largest)
           S == {k \in 0 .. m : /\ OnItsWayDown(r[k], Item, m, largest)
                                /\ KeepsAsMuch(r[k].heap, h, largest)
                                /\ Sunk(r[k], largest) \/ r[k].at > k}
<1>1. /\ r[0] = [heap |-> h, at |-> 1]
      /\ \A k \in 0 .. m - 1 : r[k + 1] = SinkOnce(r[k], largest)
  <2>1. r = [k \in 0 .. m |-> IF k = 0 THEN [heap |-> h, at |-> 1]
                              ELSE SinkOnce(r[k - 1], largest)]
    BY SinkingDef
  <2>2. \A k \in 0 .. m - 1 : k + 1 \in 0 .. m /\ k + 1 # 0 /\ (k + 1) - 1 = k
    OBVIOUS
  <2>3. 0 \in 0 .. m
    OBVIOUS
  <2> HIDE DEF r
  <2> QED
    BY <2>1, <2>2, <2>3
<1> HIDE DEF r
<1>2. 0 \in S
  <2>1. r[0].heap = h /\ r[0].at = 1
    BY <1>1
  <2>2. BelowAbove(Weights(h, largest), m, 1)
    BY DEF BelowAbove
  <2>3. OnItsWayDown(r[0], Item, m, largest)
    BY <2>1, <2>2 DEF OnItsWayDown
  <2>4. KeepsAsMuch(r[0].heap, h, largest)
    BY <2>1 DEF KeepsAsMuch
  <2> QED
    BY <2>1, <2>3, <2>4
<1>3. ASSUME NEW k \in 0 .. m - 1, k \in S PROVE k + 1 \in S
  <2>1. /\ OnItsWayDown(r[k], Item, m, largest) /\ KeepsAsMuch(r[k].heap, h, largest)
        /\ Sunk(r[k], largest) \/ r[k].at > k
    BY <1>3
  <2>2. r[k + 1] = SinkOnce(r[k], largest)
    BY <1>1
  <2>3. /\ OnItsWayDown(r[k + 1], Item, m, largest)
        /\ KeepsAsMuch(r[k + 1].heap, r[k].heap, largest)
        /\ IF Sunk(r[k], largest) THEN r[k + 1] = r[k] ELSE r[k + 1].at > r[k].at
    BY <2>1, <2>2, SinkOnceIs
  <2>4. KeepsAsMuch(r[k + 1].heap, h, largest)
    BY <2>1, <2>3 DEF KeepsAsMuch
  <2>5. Sunk(r[k + 1], largest) \/ r[k + 1].at > k + 1
    <3>1. CASE Sunk(r[k], largest)
      BY <2>3, <3>1
    <3>2. CASE ~Sunk(r[k], largest)
      <4>1. r[k].at \in Nat /\ r[k + 1].at \in Nat
        BY <2>1, <2>3 DEF OnItsWayDown
      <4> QED
        BY <2>1, <2>3, <3>2, <4>1
    <3> QED
      BY <3>1, <3>2
  <2> QED
    BY <2>3, <2>4, <2>5
<1>4. m \in S
  <2> HIDE DEF S
  <2>1. 0 .. m \subseteq S
    BY <1>2, <1>3, InductionUpTo
  <2> QED
    BY <2>1
<1>5. g = r[m].heap
  BY DEF SiftDown, r
<1>6. /\ OnItsWayDown(r[m], Item, m, largest) /\ KeepsAsMuch(g, h, largest)
      /\ Sunk(r[m], largest)
  <2>1. OnItsWayDown(r[m], Item, m, largest) => r[m].at \in 1 .. m
    BY DEF OnItsWayDown
  <2> QED
    BY <1>4, <1>5, <2>1
<1>7. /\ g \in Seq(Item) /\ Len(g) = m /\ r[m].at \in 1 .. m
      /\ OrderedAbove(Weights(g, largest), m, r[m].at)
  BY <1>5, <1>6 DEF OnItsWayDown
<1>8. HeapOrdered(g, largest)
  <2>1. \A j \in 2 .. m : j \div 2 = r[m].at
                            => Weights(g, largest)[r[m].at] <= Weights(g, largest)[j]
    <3>1. r[m].at = Top(g, r[m].at, largest)
      BY <1>5, <1>6 DEF Sunk
    <3> QED
      BY <1>7, <3>1, TopIs
  <2>2. ASSUME NEW j \in 2 .. m PROVE Weights(g, largest)[j \div 2] <= Weights(g, largest)[j]
    <3>1. CASE j \div 2 = r[m].at
      BY <2>1, <3>1
    <3>2. CASE j \div 2 # r[m].at
      BY <1>7, <3>2 DEF OrderedAbove
    <3> QED
      BY <3>1, <3>2
  <2> QED
    BY <1>7, <2>2 DEF HeapOrdered
<1> QED
  BY <1>6, <1>7, <1>8

\* A heap of the best n of the first k items.
HeapOf(h, Item, items, k, n, largest) ==
  /\ h \in Seq(Item) /\ Len(h) = IF n < k THEN n ELSE k
  /\ HeapOrdered(h, largest)
  /\ Keeps(h, items, k, n, largest)

\* An item is appended while there is room.
LEMMA AppendKeeps ==
  ASSUME NEW Item, NEW items, NEW largest, NEW n \in Nat, NEW k \in Nat, NEW h \in Seq(Item),
         k < n, Len(h) = k, Keeps(h, items, k, n, largest), items[k + 1] \in Item
  PROVE  Keeps(Append(h, items[k + 1]), items, k + 1, n, largest)
<1> DEFINE g == Append(h, items[k + 1])
           m == k + 1
<1>1. PICK place : Placed(place, h, k, items, k, n, largest)
  BY DEF Keeps
<1> DEFINE other == [i \in 1 .. m |-> IF i = m THEN m ELSE place[i]]
<1>2. Len(g) = m /\ g[m] = items[m] /\ \A i \in 1 .. k : g[i] = h[i]
  OBVIOUS
<1>3. /\ \A i \in 1 .. m : i = m \/ i \in 1 .. k
      /\ \A i \in 1 .. k : i \in 1 .. m /\ i # m
      /\ m \in 1 .. m
  OBVIOUS
<1>4. other[m] = m /\ \A i \in 1 .. k : other[i] = place[i] /\ place[i] \in 1 .. k
  BY <1>1, <1>3 DEF Placed
<1>5. other \in [1 .. m -> 1 .. m]
  BY <1>3, <1>4
<1> HIDE DEF other
<1>6. \A i, j \in 1 .. m : other[i] = other[j] => i = j
  <2>1. \A i, j \in 1 .. k : place[i] = place[j] => i = j
    BY <1>1 DEF Placed
  <2> QED
    BY <1>3, <1>4, <2>1
<1>7. \A i \in 1 .. m : g[i] = items[other[i]]
  <2>1. \A i \in 1 .. k : h[i] = items[place[i]]
    BY <1>1 DEF Placed
  <2> HIDE DEF g, m
  <2> QED
    BY <1>2, <1>3, <1>4, <2>1
<1>8. \A j \in 1 .. m : \E i \in 1 .. m : other[i] = j
  <2>1. \A j \in 1 .. k : \E i \in 1 .. k : place[i] = j
    BY <1>1 DEF Placed
  <2> HIDE DEF m
  <2> QED
    BY <1>3, <1>4, <2>1
<1>9. Placed(other, g, m, items, m, n, largest)
  BY <1>5, <1>6, <1>7, <1>8 DEF Placed
<1> QED
  BY <1>2, <1>9 DEF Keeps

\* An item takes the place of the root.
RootReplaced(g, h, x) == g = [h EXCEPT ![1] = x]

LEMMA ReplacingKeeps ==
  ASSUME NEW Item, Keyed(Item), NEW items \in Seq(Item), NEW largest, NEW n \in Nat, n # 0,
         NEW k \in 0 .. Len(items) - 1, NEW h \in Seq(Item), Len(h) = n,
         HeapOrdered(h, largest), Keeps(h, items, k, n, largest),
         Weight(h[1], largest) < Weight(items[k + 1], largest),
         NEW g, RootReplaced(g, h, items[k + 1])
  PROVE  /\ g \in Seq(Item) /\ Len(g) = n
         /\ OrderedAbove(Weights(g, largest), n, 1)
         /\ Keeps(g, items, k + 1, n, largest)
<1> DEFINE W(x) == Weight(x, largest)
           w == Weights(h, largest)
<1>1. h \in [1 .. n -> Item] /\ 1 \in 1 .. n /\ items[k + 1] \in Item
  OBVIOUS
<1>2. g \in [1 .. n -> Item] /\ g[1] = items[k + 1] /\ \A i \in 2 .. n : g[i] = h[i]
  BY <1>1 DEF RootReplaced
<1>3. g \in Seq(Item) /\ Len(g) = n
  BY <1>2
<1>4. \A i \in 1 .. n : W(h[i]) \in Int /\ W(g[i]) \in Int /\ W(h[1]) <= W(h[i])
  <2>1. /\ w \in [1 .. n -> Int]
        /\ \A i \in 1 .. n : w[i] = W(h[i]) /\ w[i] \in Int
    BY WeightsAre
  <2>2. \A j \in 2 .. n : w[j \div 2] <= w[j]
    BY DEF HeapOrdered
  <2>3. \A i \in 1 .. n : w[1] <= w[i]
    <3> HIDE DEF w
    <3> QED
      BY <2>1, <2>2, RootIsLeast
  <2>4. \A i \in 1 .. n : W(g[i]) \in Int
    BY <1>2, EvictableIs
  <2> QED
    BY <1>1, <2>1, <2>3, <2>4
<1>5. OrderedAbove(Weights(g, largest), n, 1)
  <2>1. SUFFICES ASSUME NEW j \in 2 .. n, j \div 2 # 1
                 PROVE  Weights(g, largest)[j \div 2] <= Weights(g, largest)[j]
    BY DEF OrderedAbove
  <2>2. PICK p : p = j \div 2
    OBVIOUS
  <2>3. p \in 2 .. n
    BY <2>1, <2>2, ParentIs
  <2>4. \A i \in 2 .. n : Weights(g, largest)[i] = Weights(h, largest)[i]
    BY <1>2, <1>3 DEF Weights
  <2>5. Weights(h, largest)[p] <= Weights(h, largest)[j]
    BY <2>2 DEF HeapOrdered
  <2> QED
    BY <2>2, <2>3, <2>4, <2>5
<1>6. PICK place : Placed(place, h, n, items, k, n, largest)
  BY DEF Keeps
<1> DEFINE other == [i \in 1 .. n |-> IF i = 1 THEN k + 1 ELSE place[i]]
<1>7. \A i \in 1 .. n : place[i] \in 1 .. k /\ (i = 1 \/ i \in 2 .. n)
  <2>1. place \in [1 .. n -> 1 .. k]
    BY <1>6 DEF Placed
  <2>2. \A i \in 1 .. n : i = 1 \/ i \in 2 .. n
    OBVIOUS
  <2> QED
    BY <2>1, <2>2
<1>8. other[1] = k + 1 /\ \A i \in 2 .. n : other[i] = place[i] /\ i \in 1 .. n
  BY <1>1
<1>9. other \in [1 .. n -> 1 .. k + 1]
  BY <1>7
<1> HIDE DEF other
<1>10. \A i, j \in 1 .. n : other[i] = other[j] => i = j
  <2>1. \A i, j \in 1 .. n : place[i] = place[j] => i = j
    BY <1>6 DEF Placed
  <2>2. \A i \in 2 .. n : place[i] # k + 1
    BY <1>7, <1>8
  <2> QED
    BY <1>7, <1>8, <2>1, <2>2
<1>11. \A i \in 1 .. n : g[i] = items[other[i]]
  <2>1. \A i \in 1 .. n : h[i] = items[place[i]]
    BY <1>6 DEF Placed
  <2> QED
    BY <1>2, <1>7, <1>8, <2>1
<1>12. ASSUME NEW j \in 1 .. k + 1, ~ \E i \in 1 .. n : other[i] = j
       PROVE  \A i \in 1 .. n : W(items[j]) <= W(g[i])
  <2>1. j \in 1 .. k
    BY <1>1, <1>8, <1>12
  <2>2. W(items[j]) <= W(h[1])
    <3>1. CASE \E i \in 1 .. n : place[i] = j
      <4>1. PICK i \in 1 .. n : place[i] = j
        BY <3>1
      <4>2. i = 1
        BY <1>7, <1>8, <1>12, <4>1
      <4>3. h[1] = items[j]
        BY <1>6, <4>1, <4>2 DEF Placed
      <4> QED
        BY <1>1, <1>4, <4>3
    <3>2. CASE ~ \E i \in 1 .. n : place[i] = j
      BY <1>1, <1>6, <2>1, <3>2 DEF Placed
    <3> QED
      BY <3>1, <3>2
  <2>3. W(items[j]) \in Int
    <3>1. items[j] \in Item
      BY <2>1
    <3> QED
      BY <3>1, EvictableIs
  <2>4. \A i \in 1 .. n : W(h[1]) <= W(g[i])
    <3>1. \A i \in 2 .. n : W(g[i]) = W(h[i])
      BY <1>2
    <3>2. W(h[1]) <= W(g[1])
      BY <1>1, <1>2, <1>4
    <3> QED
      BY <1>4, <1>7, <1>8, <3>1, <3>2
  <2>5. W(h[1]) \in Int /\ \A i \in 1 .. n : W(g[i]) \in Int
    BY <1>1, <1>4
  <2> HIDE DEF W
  <2> QED
    BY <2>2, <2>3, <2>4, <2>5
<1>13. Placed(other, g, n, items, k + 1, n, largest)
  BY <1>9, <1>10, <1>11, <1>12 DEF Placed
<1> QED
  BY <1>3, <1>5, <1>13 DEF Keeps

\* An item is left out.
LEMMA LeavingOutKeeps ==
  ASSUME NEW items, NEW largest, NEW n \in Nat, NEW k \in Nat, NEW h, Len(h) = n,
         Keeps(h, items, k, n, largest),
         \A i \in 1 .. n : Weight(items[k + 1], largest) <= Weight(h[i], largest)
  PROVE  Keeps(h, items, k + 1, n, largest)
<1>1. PICK place : Placed(place, h, n, items, k, n, largest)
  BY DEF Keeps
<1>2. place \in [1 .. n -> 1 .. k + 1]
  <2>1. place \in [1 .. n -> 1 .. k]
    BY <1>1 DEF Placed
  <2> QED
    BY <2>1
<1>3. \A j \in 1 .. k + 1 : j = k + 1 \/ j \in 1 .. k
  OBVIOUS
<1>4. Placed(place, h, n, items, k + 1, n, largest)
  BY <1>1, <1>2, <1>3 DEF Placed
<1> QED
  BY <1>4 DEF Keeps

\* push, for one more item.
LEMMA PushIs ==
  ASSUME NEW Item, Keyed(Item), NEW items \in Seq(Item), NEW largest, NEW n \in Nat,
         NEW k \in 0 .. Len(items) - 1, NEW h, HeapOf(h, Item, items, k, n, largest),
         NEW g, g = Push(h, items[k + 1], n, largest)
  PROVE  HeapOf(g, Item, items, k + 1, n, largest)
<1>1. /\ h \in Seq(Item) /\ Len(h) = IF n < k THEN n ELSE k
      /\ HeapOrdered(h, largest) /\ Keeps(h, items, k, n, largest)
  BY DEF HeapOf
<1>2. items[k + 1] \in Item
  OBVIOUS
<1>3. CASE n = 0
  <2>1. g = h /\ Len(h) = n
    BY <1>1, <1>3 DEF Push
  <2>2. Keeps(h, items, k + 1, n, largest)
    BY <1>1, <1>3, <2>1, LeavingOutKeeps
  <2>3. Len(g) = IF n < k + 1 THEN n ELSE k + 1
    BY <1>3, <2>1
  <2> QED
    BY <1>1, <2>1, <2>2, <2>3 DEF HeapOf
<1>4. CASE n # 0 /\ Len(h) < n
  <2>1. k < n /\ Len(h) = k
    BY <1>1, <1>4
  <2> DEFINE a == Append(h, items[k + 1])
             m == k + 1
  <2>2. g = SiftUp(a, largest)
    BY <1>4 DEF Push
  <2>3. a \in Seq(Item) /\ Len(a) = m /\ \A i \in 1 .. k : a[i] = h[i]
    BY <1>1, <1>2, <2>1
  <2>4. OrderedBut(Weights(a, largest), m, m)
    <3>1. SUFFICES ASSUME NEW j \in 2 .. m, j # m
                   PROVE  Weights(a, largest)[j \div 2] <= Weights(a, largest)[j]
      BY DEF OrderedBut
    <3>2. PICK p : p = j \div 2
      OBVIOUS
    <3>3. j \in 2 .. k
      BY <3>1
    <3>4. p \in 1 .. k
      BY <3>2, <3>3, ParentIs
    <3>5. \A i \in 1 .. k : Weights(a, largest)[i] = Weights(h, largest)[i]
      BY <2>1, <2>3 DEF Weights
    <3>6. Weights(h, largest)[p] <= Weights(h, largest)[j]
      BY <1>1, <2>1, <3>2, <3>3 DEF HeapOrdered
    <3> HIDE DEF a
    <3> QED
      BY <3>2, <3>3, <3>4, <3>5, <3>6
  <2>5. Keeps(a, items, m, n, largest)
    BY <1>1, <1>2, <2>1, AppendKeeps
  <2> HIDE DEF a
  <2>6. /\ g \in Seq(Item) /\ Len(g) = m /\ HeapOrdered(g, largest)
        /\ KeepsAsMuch(g, a, largest)
    <3>1. m \in Nat /\ m # 0
      OBVIOUS
    <3> HIDE DEF m
    <3> QED
      BY <2>2, <2>3, <2>4, <3>1, SiftUpIs
  <2>7. Keeps(g, items, m, n, largest)
    BY <2>5, <2>6 DEF KeepsAsMuch
  <2> QED
    BY <2>1, <2>6, <2>7 DEF HeapOf
<1>5. CASE n # 0 /\ Len(h) >= n
  <2>1. Len(h) = n /\ n <= k
    BY <1>1, <1>5
  <2>2. h[1] \in Item
    BY <1>1, <1>5, <2>1
  <2>3. EvictableAbove(h[1], items[k + 1], largest)
          <=> Weight(h[1], largest) < Weight(items[k + 1], largest)
    BY <1>2, <2>2, EvictableIs
  <2>4. CASE Weight(h[1], largest) < Weight(items[k + 1], largest)
    <3>1. PICK a : a = [h EXCEPT ![1] = items[k + 1]]
      OBVIOUS
    <3>2. g = SiftDown(a, largest)
      BY <1>5, <2>1, <2>3, <2>4, <3>1 DEF Push
    <3>3. /\ a \in Seq(Item) /\ Len(a) = n
          /\ OrderedAbove(Weights(a, largest), n, 1)
          /\ Keeps(a, items, k + 1, n, largest)
      <4>1. h \in Seq(Item) /\ Len(h) = n /\ n # 0
        BY <1>1, <1>5, <2>1
      <4>2. HeapOrdered(h, largest) /\ Keeps(h, items, k, n, largest)
        BY <1>1
      <4>3. RootReplaced(a, h, items[k + 1])
        BY <3>1 DEF RootReplaced
      <4> QED
        BY <2>4, <4>1, <4>2, <4>3, ReplacingKeeps
    <3>4. /\ g \in Seq(Item) /\ Len(g) = n /\ HeapOrdered(g, largest)
          /\ KeepsAsMuch(g, a, largest)
      BY <1>5, <3>2, <3>3, SiftDownIs
    <3>5. Keeps(g, items, k + 1, n, largest)
      BY <3>3, <3>4 DEF KeepsAsMuch
    <3> QED
      BY <2>1, <3>4, <3>5 DEF HeapOf
  <2>5. CASE ~(Weight(h[1], largest) < Weight(items[k + 1], largest))
    <3>1. g = h
      BY <1>5, <2>1, <2>3, <2>5 DEF Push
    <3>2. \A i \in 1 .. n : Weight(items[k + 1], largest) <= Weight(h[i], largest)
      <4> DEFINE w == Weights(h, largest)
      <4>1. /\ w \in [1 .. n -> Int]
            /\ \A i \in 1 .. n : w[i] = Weight(h[i], largest) /\ w[i] \in Int
        BY <1>1, <2>1, WeightsAre
      <4>2. \A j \in 2 .. n : w[j \div 2] <= w[j]
        BY <1>1, <2>1 DEF HeapOrdered
      <4>3. \A i \in 1 .. n : w[1] <= w[i]
        <5> HIDE DEF w
        <5> QED
          BY <4>1, <4>2, RootIsLeast
      <4>4. Weight(items[k + 1], largest) \in Int
        BY <1>2, EvictableIs
      <4>5. 1 \in 1 .. n
        BY <1>5
      <4> HIDE DEF w
      <4> QED
        BY <2>5, <4>1, <4>3, <4>4, <4>5
    <3>3. Keeps(h, items, k + 1, n, largest)
      BY <1>1, <2>1, <3>2, LeavingOutKeeps
    <3> QED
      BY <1>1, <2>1, <3>1, <3>3 DEF HeapOf
  <2> QED
    BY <2>4, <2>5
<1> QED
  BY <1>1, <1>3, <1>4, <1>5

\* The heap after all items.
LEMMA PushingIs ==
  ASSUME NEW Item, Keyed(Item), NEW items \in Seq(Item), NEW largest, NEW n \in Nat
  PROVE  HeapOf(Pushing(items, n, largest)[Len(items)], Item, items, Len(items), n, largest)
<1> DEFINE r == Pushing(items, n, largest)
           S == {k \in 0 .. Len(items) : HeapOf(r[k], Item, items, k, n, largest)}
<1>1. /\ r[0] = <<>>
      /\ \A k \in 0 .. Len(items) - 1 : r[k + 1] = Push(r[k], items[k + 1], n, largest)
  <2>1. r = [k \in 0 .. Len(items) |-> IF k = 0 THEN <<>>
                                       ELSE Push(r[k - 1], items[k], n, largest)]
    BY PushingDef
  <2>2. \A k \in 0 .. Len(items) - 1 :
          k + 1 \in 0 .. Len(items) /\ k + 1 # 0 /\ (k + 1) - 1 = k
    OBVIOUS
  <2>3. 0 \in 0 .. Len(items)
    OBVIOUS
  <2> HIDE DEF r
  <2> QED
    BY <2>1, <2>2, <2>3
<1> HIDE DEF r
<1>2. 0 \in S
  <2> DEFINE none == [i \in 1 .. 0 |-> 0]
  <2>1. Placed(none, <<>>, 0, items, 0, n, largest)
    BY DEF Placed
  <2>2. Keeps(<<>>, items, 0, n, largest)
    BY <2>1 DEF Keeps
  <2>3. HeapOrdered(<<>>, largest)
    BY DEF HeapOrdered
  <2>4. <<>> \in Seq(Item) /\ Len(<<>>) = IF n < 0 THEN n ELSE 0
    OBVIOUS
  <2>5. HeapOf(<<>>, Item, items, 0, n, largest)
    BY <2>2, <2>3, <2>4 DEF HeapOf
  <2>6. 0 \in 0 .. Len(items)
    OBVIOUS
  <2> QED
    BY <1>1, <2>5, <2>6
<1>3. ASSUME NEW k \in 0 .. Len(items) - 1, k \in S PROVE k + 1 \in S
  BY <1>1, <1>3, PushIs
<1>4. 0 .. Len(items) \subseteq S
  <2> HIDE DEF S
  <2> QED
    BY <1>2, <1>3, InductionUpTo
<1>5. Len(items) \in 0 .. Len(items)
  OBVIOUS
<1> QED
  BY <1>4, <1>5 DEF r

-----------------------------------------------------------------------------
(* Sorting what the heap has kept.                                         *)

\* The item at i comes before the one at j.
First(w, i, j) == w[i] > w[j] \/ (w[i] = w[j] /\ i < j)

FirstOf(w, m, j) == {i \in 1 .. m : First(w, i, j)}

Rank(w, m, j) == Cardinality(FirstOf(w, m, j))

\* As an order First is strict and total, so the ranks are the numbers below m.
LEMMA RankIs ==
  ASSUME NEW m \in Nat, NEW w \in [1 .. m -> Int]
  PROVE  /\ \A j \in 1 .. m : Rank(w, m, j) \in 0 .. m - 1
         /\ \A i, j \in 1 .. m : First(w, i, j) => Rank(w, m, i) < Rank(w, m, j)
<1>1. IsFiniteSet(1 .. m) /\ Cardinality(1 .. m) = m
  BY FS_Interval
<1>2. ASSUME NEW j \in 1 .. m
      PROVE  IsFiniteSet(FirstOf(w, m, j)) /\ Rank(w, m, j) \in 0 .. m - 1
  <2>1. FirstOf(w, m, j) \in SUBSET (1 .. m) /\ j \notin FirstOf(w, m, j)
    BY DEF FirstOf, First
  <2>2. /\ IsFiniteSet(FirstOf(w, m, j)) /\ Rank(w, m, j) <= m
        /\ m = Rank(w, m, j) => 1 .. m = FirstOf(w, m, j)
    BY <1>1, <2>1, FS_Subset DEF Rank
  <2>3. Rank(w, m, j) \in Nat
    BY <2>2, FS_CardinalityType DEF Rank
  <2> QED
    BY <2>1, <2>2, <2>3
<1>3. ASSUME NEW i \in 1 .. m, NEW j \in 1 .. m, First(w, i, j)
      PROVE  Rank(w, m, i) < Rank(w, m, j)
  <2>1. FirstOf(w, m, i) \subseteq FirstOf(w, m, j)
    BY <1>3 DEF FirstOf, First
  <2>2. i \in FirstOf(w, m, j) /\ i \notin FirstOf(w, m, i)
    BY <1>3 DEF FirstOf, First
  <2>3. IsFiniteSet(FirstOf(w, m, j)) /\ Rank(w, m, i) \in Int /\ Rank(w, m, j) \in Int
    BY <1>2
  <2>4. /\ Rank(w, m, i) <= Rank(w, m, j)
        /\ Rank(w, m, j) = Rank(w, m, i) => FirstOf(w, m, j) = FirstOf(w, m, i)
    BY <2>1, <2>3, FS_Subset DEF Rank
  <2> QED
    BY <2>2, <2>3, <2>4
<1> QED
  BY <1>2, <1>3

\* So the ranks put the items in order.
LEMMA RanksPutInOrder ==
  ASSUME NEW m \in Nat, NEW w \in [1 .. m -> Int], NEW q,
         q = [k \in 1 .. m |-> CHOOSE j \in 1 .. m : Rank(w, m, j) = k - 1]
  PROVE  Permutes(q, m) /\ \A i, j \in 1 .. m : i < j => w[q[j]] <= w[q[i]]
<1> DEFINE rank == [j \in 1 .. m |-> Rank(w, m, j)]
<1>1. IsFiniteSet(1 .. m) /\ Cardinality(1 .. m) = m
  BY FS_Interval
<1>2. IsFiniteSet(0 .. m - 1) /\ Cardinality(0 .. m - 1) = m
  <2>1. 0 \in Int /\ m - 1 \in Int /\ m = IF 0 > m - 1 THEN 0 ELSE (m - 1) - 0 + 1
    OBVIOUS
  <2> QED
    BY <2>1, FS_Interval, Zenon
<1>3. /\ rank \in [1 .. m -> 0 .. m - 1]
      /\ \A i \in 1 .. m : rank[i] \in Int /\ 0 <= rank[i] /\ rank[i] < m
  BY RankIs
<1>4. \A i, j \in 1 .. m : i = j \/ First(w, i, j) \/ First(w, j, i)
  BY DEF First
<1>5. \A i, j \in 1 .. m : First(w, i, j) => rank[i] < rank[j]
  BY RankIs
<1> HIDE DEF rank
<1>6. \A i, j \in 1 .. m : rank[i] = rank[j] => i = j
  <2>1. \A i, j \in 1 .. m : rank[i] = rank[j] => ~(rank[i] < rank[j]) /\ ~(rank[j] < rank[i])
    BY <1>3
  <2> QED
    BY <1>4, <1>5, <2>1, Zenon
<1>7. rank \in Surjection(1 .. m, 0 .. m - 1)
  <2>1. rank \in Injection(1 .. m, 0 .. m - 1)
    BY <1>3, <1>6, Fun_IsInj
  <2> QED
    BY <1>1, <1>2, <2>1, FS_Injection
<1>8. ASSUME NEW k \in 1 .. m PROVE q[k] \in 1 .. m /\ rank[q[k]] = k - 1
  <2>1. k - 1 \in 0 .. m - 1
    OBVIOUS
  <2>2. PICK j \in 1 .. m : rank[j] = k - 1
    BY <1>7, <2>1 DEF Surjection
  <2>3. \A i \in 1 .. m : rank[i] = Rank(w, m, i)
    BY DEF rank
  <2>4. q[k] = CHOOSE i \in 1 .. m : Rank(w, m, i) = k - 1
    OBVIOUS
  <2> QED
    BY <2>2, <2>3, <2>4
<1>9. q \in [1 .. m -> 1 .. m]
  BY <1>8
<1>10. \A i, j \in 1 .. m : q[i] = q[j] => i = j
  <2>1. \A i, j \in 1 .. m : q[i] = q[j] => i - 1 = j - 1
    BY <1>8, Zenon
  <2>2. \A i, j \in 1 .. m : i - 1 = j - 1 => i = j
    OBVIOUS
  <2> QED
    BY <2>1, <2>2
<1>11. ASSUME NEW j \in 1 .. m PROVE \E i \in 1 .. m : q[i] = j
  <2>1. PICK i \in 1 .. m : i - 1 = rank[j]
    <3>1. PICK r \in 0 .. m - 1 : r = rank[j]
      BY <1>3
    <3>2. r + 1 \in 1 .. m /\ (r + 1) - 1 = r
      OBVIOUS
    <3> QED
      BY <3>1, <3>2, Zenon
  <2>2. q[i] \in 1 .. m /\ rank[q[i]] = rank[j]
    BY <1>8, <2>1, Zenon
  <2> QED
    BY <1>6, <2>2, Zenon
<1>12. ASSUME NEW i \in 1 .. m, NEW j \in 1 .. m, i < j PROVE w[q[j]] <= w[q[i]]
  <2>1. q[i] \in 1 .. m /\ q[j] \in 1 .. m /\ rank[q[i]] < rank[q[j]]
    <3>1. rank[q[i]] = i - 1 /\ rank[q[j]] = j - 1 /\ q[i] \in 1 .. m /\ q[j] \in 1 .. m
      BY <1>8, Zenon
    <3> QED
      BY <1>12, <3>1
  <2>2. ~First(w, q[j], q[i])
    BY <1>3, <1>5, <2>1
  <2>3. w[q[i]] \in Int /\ w[q[j]] \in Int
    BY <2>1
  <2> QED
    BY <2>2, <2>3 DEF First
<1> QED
  BY <1>9, <1>10, <1>11, <1>12 DEF Permutes

\* sorted() loses no item, and puts the best first.
LEMMA StableSortIs ==
  ASSUME NEW Item, Keyed(Item), NEW h \in Seq(Item), NEW m \in Nat, Len(h) = m, NEW largest,
         NEW g, g = StableSort(h, largest)
  PROVE  /\ g \in Seq(Item) /\ Len(g) = m
         /\ \E q : Permutes(q, m) /\ Along(g, h, q, m)
         /\ \A i, j \in 1 .. m : i < j => Weight(g[j], largest) <= Weight(g[i], largest)
<1> DEFINE w == Weights(h, largest)
           q == [k \in 1 .. m |-> CHOOSE j \in 1 .. m : Rank(w, m, j) = k - 1]
           Before(i, j) == \/ IF largest THEN h[i].key > h[j].key
                                         ELSE h[i].key < h[j].key
                           \/ h[i].key = h[j].key /\ i < j
           NumBefore(j) == Cardinality({i \in 1 .. m : Before(i, j)})
<1>1. /\ w \in [1 .. m -> Int] /\ DOMAIN h = 1 .. m
      /\ \A i \in 1 .. m : h[i] \in Item /\ w[i] = Weight(h[i], largest) /\ w[i] \in Int
  BY WeightsAre
<1>2. \A i \in 1 .. m : h[i].key \in Int /\ w[i] = IF largest THEN h[i].key ELSE -h[i].key
  BY <1>1 DEF Keyed, Weight
<1> HIDE DEF w
<1>3. \A i, j \in 1 .. m : Before(i, j) <=> First(w, i, j)
  BY <1>2 DEF First
<1>4. \A j \in 1 .. m : NumBefore(j) = Rank(w, m, j)
  <2>1. ASSUME NEW j \in 1 .. m PROVE {i \in 1 .. m : Before(i, j)} = FirstOf(w, m, j)
    <3> HIDE DEF Before
    <3> QED
      BY <1>3 DEF FirstOf
  <2> QED
    BY <2>1 DEF Rank
<1>5. g = [k \in 1 .. m |-> h[CHOOSE j \in 1 .. m : NumBefore(j) = k - 1]]
  BY <1>1 DEF StableSort
<1> HIDE DEF NumBefore
<1>6. \A k \in 1 .. m : (CHOOSE j \in 1 .. m : NumBefore(j) = k - 1) = q[k]
  BY <1>4
<1>7. g = [k \in 1 .. m |-> h[q[k]]]
  BY <1>5, <1>6
<1>8. Permutes(q, m) /\ \A i, j \in 1 .. m : i < j => w[q[j]] <= w[q[i]]
  BY <1>1, RanksPutInOrder
<1> HIDE DEF q
<1>9. \A i \in 1 .. m : q[i] \in 1 .. m
  BY <1>8 DEF Permutes
<1>10. g \in Seq(Item) /\ Len(g) = m
  BY <1>1, <1>7, <1>9
<1>11. Along(g, h, q, m)
  BY <1>7 DEF Along
<1>12. \A i, j \in 1 .. m : i < j => Weight(g[j], largest) <= Weight(g[i], largest)
  BY <1>1, <1>7, <1>8, <1>9
<1> QED
  BY <1>8, <1>10, <1>11, <1>12

\* top_n: of any items it returns as many as are asked for or there are, the best first,
\* each of them at a place of its own among the items, and none it leaves out is better
\* than one it returns; so the heap, which holds no more than n items at any moment,
\* loses nothing that a sort of all of them would have kept (topn.py:28-71).
THEOREM HeapKeepsTheTop ==
  ASSUME NEW Item, Keyed(Item), NEW items \in Seq(Item), NEW n \in Nat, NEW largest,
         NEW best, best = TopOf(items, n, largest)
  PROVE  /\ best \in Seq(Item) /\ Len(best) = IF n < Len(items) THEN n ELSE Len(items)
         /\ \A i, j \in 1 .. Len(best) : i < j => ~EvictableAbove(best[i], best[j], largest)
         /\ Keeps(best, items, Len(items), n, largest)
<1>1. PICK h : h = Pushing(items, n, largest)[Len(items)]
  OBVIOUS
<1>2. HeapOf(h, Item, items, Len(items), n, largest)
  BY <1>1, PushingIs
<1>3. /\ h \in Seq(Item) /\ Len(h) = IF n < Len(items) THEN n ELSE Len(items)
      /\ Keeps(h, items, Len(items), n, largest)
  BY <1>2 DEF HeapOf
<1>4. PICK m \in Nat : m = Len(h)
  BY <1>3
<1>5. best = StableSort(h, largest)
  BY <1>1 DEF TopOf
<1>6. /\ best \in Seq(Item) /\ Len(best) = m
      /\ \E q : Permutes(q, m) /\ Along(best, h, q, m)
      /\ \A i, j \in 1 .. m : i < j => Weight(best[j], largest) <= Weight(best[i], largest)
  BY <1>3, <1>4, <1>5, StableSortIs
<1>7. PICK q : Permutes(q, m) /\ Along(best, h, q, m)
  BY <1>6
<1>8. Keeps(best, items, Len(items), n, largest)
  BY <1>3, <1>4, <1>6, <1>7, AnyOrderKeeps
<1>9. ASSUME NEW i \in 1 .. m, NEW j \in 1 .. m, i < j
      PROVE  ~EvictableAbove(best[i], best[j], largest)
  <2>1. best[i] \in Item /\ best[j] \in Item
    BY <1>6
  <2>2. Weight(best[j], largest) <= Weight(best[i], largest)
    BY <1>6, <1>9
  <2> QED
    BY <2>1, <2>2, EvictableIs
<1> QED
  BY <1>3, <1>4, <1>6, <1>8, <1>9

\* The best of a are the best of b: a are some of b, and no other of b is better.
Descending(a, m) == \A i, j \in 1 .. m : i < j => a[j] <= a[i]

Within(c, a, b, m, l) ==
  /\ c \in [1 .. m -> 1 .. l]
  /\ \A i, j \in 1 .. m : c[i] = c[j] => i = j
  /\ \A i \in 1 .. m : b[c[i]] = a[i]
  /\ \A j \in 1 .. l : (\E i \in 1 .. m : c[i] = j) \/ (\A i \in 1 .. m : b[j] <= a[i])

\* There are fewer places before the k-th than up to it.
LEMMA NoRoomBefore ==
  ASSUME NEW k \in Nat, k # 0, NEW f \in [1 .. k -> 1 .. k - 1],
         \A i, j \in 1 .. k : f[i] = f[j] => i = j
  PROVE  FALSE
<1>1. IsFiniteSet(1 .. k) /\ Cardinality(1 .. k) = k
  BY FS_Interval
<1>2. IsFiniteSet(1 .. k - 1) /\ Cardinality(1 .. k - 1) = k - 1
  <2>1. 1 \in Int /\ k - 1 \in Int /\ k - 1 = IF 1 > k - 1 THEN 0 ELSE (k - 1) - 1 + 1
    OBVIOUS
  <2> QED
    BY <2>1, FS_Interval, Zenon
<1>3. Cardinality(1 .. k - 1) < Cardinality(1 .. k)
  BY <1>1, <1>2
<1>4. \E i, j \in 1 .. k : i # j /\ f[i] = f[j]
  BY <1>1, <1>2, <1>3, FS_PigeonHole, Zenon
<1> QED
  BY <1>4

\* Then place for place they are equal, as k items need k places.
LEMMA SameBest ==
  ASSUME NEW m \in Nat, NEW l \in Nat, NEW a \in [1 .. m -> Int], NEW b \in [1 .. l -> Int],
         Descending(a, m), Descending(b, l), NEW c, Within(c, a, b, m, l)
  PROVE  \A k \in 1 .. m : k \in 1 .. l => a[k] = b[k]
<1> SUFFICES ASSUME NEW k \in 1 .. m, k \in 1 .. l PROVE a[k] = b[k]
  OBVIOUS
<1>1. /\ \A i \in 1 .. m : a[i] \in Int /\ c[i] \in 1 .. l /\ b[c[i]] = a[i]
      /\ \A i, j \in 1 .. m : c[i] = c[j] => i = j
      /\ \A j \in 1 .. l : b[j] \in Int
  BY DEF Within
<1>2. k \in Nat /\ k # 0 /\ \A i \in 1 .. k : i \in 1 .. m /\ i \in 1 .. l
  OBVIOUS
<1>3. ASSUME a[k] > b[k] PROVE FALSE
  <2> DEFINE f == [i \in 1 .. k |-> c[i]]
  <2>1. ASSUME NEW i \in 1 .. k PROVE c[i] \in 1 .. k - 1
    <3>1. a[k] <= a[i]
      BY <1>1, <1>2 DEF Descending
    <3>2. PICK j \in 1 .. l : j = c[i] /\ b[j] = a[i]
      BY <1>1, <1>2
    <3>3. b[j] > b[k]
      BY <1>1, <1>2, <1>3, <3>1, <3>2
    <3>4. ~(k < j) /\ j # k
      BY <1>1, <1>2, <3>3 DEF Descending
    <3> QED
      BY <3>2, <3>4
  <2>2. f \in [1 .. k -> 1 .. k - 1]
    BY <2>1
  <2>3. \A i, j \in 1 .. k : f[i] = f[j] => i = j
    BY <1>1, <1>2
  <2> HIDE DEF f
  <2> QED
    BY <1>2, <2>2, <2>3, NoRoomBefore
<1>4. ASSUME a[k] < b[k] PROVE FALSE
  <2> DEFINE f == [j \in 1 .. k |-> CHOOSE i \in 1 .. k - 1 : c[i] = j]
  <2>1. ASSUME NEW j \in 1 .. k PROVE \E i \in 1 .. k - 1 : c[i] = j
    <3>1. b[k] <= b[j]
      BY <1>1, <1>2 DEF Descending
    <3>2. b[j] > a[k]
      BY <1>1, <1>2, <1>4, <3>1
    <3>3. ~(\A i \in 1 .. m : b[j] <= a[i])
      BY <1>1, <1>2, <3>2
    <3>4. PICK i \in 1 .. m : c[i] = j
      BY <1>2, <3>3 DEF Within
    <3>5. a[i] = b[j]
      BY <1>1, <3>4
    <3>6. ~(k < i) /\ i # k
      BY <1>1, <1>2, <3>2, <3>5 DEF Descending
    <3>7. i \in 1 .. k - 1
      BY <3>6
    <3> QED
      BY <3>4, <3>7
  <2>2. \A j \in 1 .. k : f[j] \in 1 .. k - 1 /\ c[f[j]] = j
    BY <2>1
  <2>3. f \in [1 .. k -> 1 .. k - 1]
    BY <2>2
  <2> HIDE DEF f
  <2>4. \A i, j \in 1 .. k : f[i] = f[j] => i = j
    BY <2>2, Zenon
  <2> QED
    BY <1>2, <2>3, <2>4, NoRoomBefore
<1> QED
  BY <1>1, <1>2, <1>3, <1>4

\* Where the items are that are kept, in an order of all of them.
LEMMA KeptWithin ==
  ASSUME NEW g, NEW m \in Nat, Len(g) = m, NEW items, NEW l \in Nat, Len(items) = l,
         NEW n, NEW largest, Keeps(g, items, l, n, largest),
         NEW all, Len(all) = l, NEW q, Permutes(q, l), Along(all, items, q, l)
  PROVE  \E c : Within(c, Weights(g, largest), Weights(all, largest), m, l)
<1>1. PICK place : Placed(place, g, m, items, l, n, largest)
  BY DEF Keeps
<1>2. /\ \A i \in 1 .. m : place[i] \in 1 .. l /\ g[i] = items[place[i]]
      /\ \A i, j \in 1 .. m : place[i] = place[j] => i = j
      /\ \A j \in 1 .. l :
           \/ \E i \in 1 .. m : place[i] = j
           \/ \A i \in 1 .. m : Weight(items[j], largest) <= Weight(g[i], largest)
  BY <1>1 DEF Placed
<1>3. /\ \A i \in 1 .. l : q[i] \in 1 .. l
      /\ \A i, j \in 1 .. l : q[i] = q[j] => i = j
      /\ \A j \in 1 .. l : \E i \in 1 .. l : q[i] = j
      /\ \A i \in 1 .. l : all[i] = items[q[i]]
  BY DEF Permutes, Along
<1>4. /\ \A i \in 1 .. m : Weights(g, largest)[i] = Weight(g[i], largest)
      /\ \A j \in 1 .. l : Weights(all, largest)[j] = Weight(all[j], largest)
  BY DEF Weights
<1> DEFINE c == [i \in 1 .. m |-> CHOOSE j \in 1 .. l : q[j] = place[i]]
<1>5. \A i \in 1 .. m : c[i] \in 1 .. l /\ q[c[i]] = place[i]
  BY <1>2, <1>3
<1>6. c \in [1 .. m -> 1 .. l]
  BY <1>5
<1> HIDE DEF c
<1>7. \A i, j \in 1 .. m : c[i] = c[j] => i = j
  <2>1. ASSUME NEW i \in 1 .. m, NEW j \in 1 .. m, c[i] = c[j] PROVE place[i] = place[j]
    BY <1>5, <2>1
  <2> QED
    BY <1>2, <2>1
<1>8. ASSUME NEW i \in 1 .. m PROVE Weights(all, largest)[c[i]] = Weights(g, largest)[i]
  <2>1. c[i] \in 1 .. l /\ all[c[i]] = items[q[c[i]]]
    BY <1>3, <1>5
  <2>2. all[c[i]] = g[i]
    BY <1>2, <1>5, <2>1
  <2> QED
    BY <1>4, <2>1, <2>2
<1>9. ASSUME NEW j \in 1 .. l, ~ \E i \in 1 .. m : c[i] = j
      PROVE  \A i \in 1 .. m : Weights(all, largest)[j] <= Weights(g, largest)[i]
  <2>1. ~ \E i \in 1 .. m : place[i] = q[j]
    <3>1. ASSUME NEW i \in 1 .. m, place[i] = q[j] PROVE FALSE
      <4>1. c[i] \in 1 .. l /\ q[c[i]] = q[j]
        BY <1>5, <3>1
      <4>2. c[i] = j
        BY <1>3, <4>1
      <4> QED
        BY <1>9, <4>2
    <3> QED
      BY <3>1
  <2>2. \A i \in 1 .. m : Weight(items[q[j]], largest) <= Weight(g[i], largest)
    BY <1>2, <1>3, <2>1, Zenon
  <2>3. Weights(all, largest)[j] = Weight(items[q[j]], largest)
    <3>1. all[j] = items[q[j]] /\ Weights(all, largest)[j] = Weight(all[j], largest)
      BY <1>3, <1>4
    <3> QED
      BY <3>1
  <2> QED
    BY <1>4, <2>2, <2>3
<1>10. Within(c, Weights(g, largest), Weights(all, largest), m, l)
  BY <1>6, <1>7, <1>8, <1>9, Zenon DEF Within
<1> QED
  BY <1>10

\* What top_n returns has, place for place, the keys that a sort of all items begins
\* with: ORDER BY with LIMIT, which goes through the heap, puts the same keys first as
\* ORDER BY alone, which sorts (executor.py:231-238); only which of the items of one key
\* it keeps may differ.
THEOREM HeapAgreesWithSort ==
  ASSUME NEW Item, Keyed(Item), NEW items \in Seq(Item), NEW n \in Nat, NEW largest,
         NEW best, best = TopOf(items, n, largest),
         NEW all, all = StableSort(items, largest), NEW k \in 1 .. Len(best)
  PROVE  best[k].key = all[k].key
<1>1. PICK m \in Nat, l \in Nat : l = Len(items) /\ m = IF n < l THEN n ELSE l
  OBVIOUS
<1>2. /\ best \in Seq(Item) /\ Len(best) = m /\ Keeps(best, items, l, n, largest)
      /\ \A i, j \in 1 .. m : i < j => ~EvictableAbove(best[i], best[j], largest)
  BY <1>1, HeapKeepsTheTop
<1>3. k \in 1 .. m /\ k \in 1 .. l
  BY <1>1, <1>2
<1>4. /\ all \in Seq(Item) /\ Len(all) = l
      /\ \E q : Permutes(q, l) /\ Along(all, items, q, l)
      /\ \A i, j \in 1 .. l : i < j => Weight(all[j], largest) <= Weight(all[i], largest)
  BY <1>1, StableSortIs
<1>5. /\ Weights(best, largest) \in [1 .. m -> Int]
      /\ \A i \in 1 .. m : best[i] \in Item /\ Weights(best, largest)[i] = Weight(best[i], largest)
  BY <1>2, WeightsAre
<1>6. /\ Weights(all, largest) \in [1 .. l -> Int]
      /\ \A i \in 1 .. l : all[i] \in Item /\ Weights(all, largest)[i] = Weight(all[i], largest)
  BY <1>4, WeightsAre
<1>7. Descending(Weights(best, largest), m)
  <2>1. SUFFICES ASSUME NEW i \in 1 .. m, NEW j \in 1 .. m, i < j
                 PROVE  Weights(best, largest)[j] <= Weights(best, largest)[i]
    BY DEF Descending
  <2>2. ~(Weight(best[i], largest) < Weight(best[j], largest))
    BY <1>2, <1>5, <2>1, EvictableIs
  <2>3. Weights(best, largest)[i] \in Int /\ Weights(best, largest)[j] \in Int
    BY <1>5
  <2> QED
    BY <1>5, <2>2, <2>3
<1>8. Descending(Weights(all, largest), l)
  BY <1>4, <1>6 DEF Descending
<1>9. PICK q : Permutes(q, l) /\ Along(all, items, q, l)
  BY <1>4
<1>10. PICK c : Within(c, Weights(best, largest), Weights(all, largest), m, l)
  BY <1>1, <1>2, <1>4, <1>9, KeptWithin
<1>11. Weights(best, largest)[k] = Weights(all, largest)[k]
  <2>1. PICK a \in [1 .. m -> Int] : a = Weights(best, largest)
    BY <1>5
  <2>2. PICK b \in [1 .. l -> Int] : b = Weights(all, largest)
    BY <1>6
  <2>3. Descending(a, m) /\ Descending(b, l) /\ Within(c, a, b, m, l)
    BY <1>7, <1>8, <1>10, <2>1, <2>2
  <2>4. a[k] = b[k]
    <3>1. \A i \in 1 .. m : i \in 1 .. l => a[i] = b[i]
      BY <2>3, SameBest
    <3> QED
      BY <1>3, <3>1
  <2> QED
    BY <2>1, <2>2, <2>4
<1>12. best[k].key \in Int /\ all[k].key \in Int
  BY <1>3, <1>5, <1>6 DEF Keyed
<1>13. Weight(best[k], largest) = Weight(all[k], largest)
  BY <1>3, <1>5, <1>6, <1>11
<1>14. CASE largest
  BY <1>13, <1>14 DEF Weight
<1>15. CASE ~largest
  <2>1. -(best[k].key) = -(all[k].key)
    BY <1>13, <1>15 DEF Weight
  <2> QED
    BY <1>12, <2>1
<1> QED
  BY <1>14, <1>15
===============================================================================
