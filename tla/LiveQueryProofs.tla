---------------------------- MODULE LiveQueryProofs ----------------------------
(***************************************************************************)
(* That queries beside a capture see whole rows, for any number of columns *)
(* and rows and any sizes of chunks and flushes: a scan has the rows that  *)
(* the store had when it was opened, and exactly the rows of the store if  *)
(* nothing is written meanwhile; an index query has only matching rows of  *)
(* the store, each once and in order.                                      *)
(***************************************************************************)
EXTENDS LiveQuery, FiniteSetTheorems, FunctionTheorems, SequenceTheorems, TLAPS

\* What TypeOK leaves open: the cursors and the pages of the columns are
\* functions, and a scan's result is a sequence of rows.
Shapes ==
  /\ from \in [Columns -> Nat] /\ to \in [Columns -> Nat]
  /\ page \in [Columns -> [column : 0 .. NumColumns, rows : 0 .. MaxRows]]
  /\ ~byIndex => result \in Seq([Columns -> Nat])

\* How far a flush has come: no column is shorter than meta.json says, and those
\* before the cursor have the rows that it will say.  The indexes know no more
\* than the column they were built from, which may be ahead of meta.json.
FlushProgress ==
  /\ \E c \in Columns : loaded <= size[c]
  /\ rows <= meta
  /\ meta + batch <= MaxRows
  /\ \A c \in Columns : meta <= size[c] /\ size[c] <= meta + batch
  /\ column = 0 => batch = 0
  /\ column # 0 => \A c \in Columns : c < column => size[c] = meta + batch

\* What goes with where the connection is.
Phases ==
  /\ pc \notin {"starting", "closed"} => loaded <= rows
  /\ pc \in {"starting", "closed"} => \A c \in Columns : page[c] = NoPage
  /\ pc \in {"starting", "closed", "ready"} =>
       /\ turn = 1 /\ from = Start /\ to = Start /\ result = <<>>
       /\ ~failed /\ ~quiet /\ ~byIndex /\ limit = NoLimit
  /\ pc \in {"scan", "emit"} => ~byIndex /\ ~failed
  /\ pc = "index" => byIndex
  /\ pc = "emit" => turn = 1
  /\ quiet => column = 0

\* The rows that a scan must get right: those the store had when it was opened
\* and, while no flush touches it, all it has.
Due == IF quiet THEN meta ELSE rows

\* The chunk of this round has been read from the column.
HasChunk(c) == pc = "emit" \/ c < turn

\* Until the rows that are due are out, the chunks of all columns begin where the
\* result ends and are as long as the rows that are due allow.
Aligned ==
  pc \in {"scan", "emit"} /\ Len(result) < Due =>
    \A c \in Columns :
      IF HasChunk(c)
      THEN /\ from[c] = Len(result) /\ to[c] <= Len(result) + ChunkRows
           /\ to[c] >= Due \/ to[c] >= Len(result) + ChunkRows
      ELSE to[c] = Len(result)

\* A scan that nothing touches goes to the end of the store and no further.
NotBeyond ==
  quiet /\ pc \in {"scan", "emit"} =>
    /\ Len(result) <= meta
    /\ pc = "emit" \/ turn > 1 => Len(result) < meta
    /\ Len(result) = meta => to[1] = meta

\* What is out so far, and what is out in the end.
RowsOut ==
  pc \in {"scan", "emit", "done"} /\ ~byIndex =>
    \A i \in DOMAIN result : i <= Due => result[i] = WholeRow(i)

LimitAhead == pc \in {"scan", "emit"} /\ limit # NoLimit => Len(result) < limit

ScanEnds ==
  Scanned =>
    /\ ~failed /\ limit = NoLimit => Len(result) >= Due
    /\ quiet => ~failed /\ Len(result) = IF limit # NoLimit /\ limit < meta THEN limit ELSE meta

ScanInv == Aligned /\ NotBeyond /\ RowsOut /\ LimitAhead /\ ScanEnds

\* A cached page is one of its own column and has the rows the indexes know.
PagesServe ==
  \A c \in Columns : page[c] = NoPage \/ (page[c].column = c /\ loaded <= page[c].rows)

\* The rows of the candidates as far as the first k columns.
Fetched(k) == [i \in DOMAIN Candidates |-> [c \in 1 .. k |-> Candidates[i]]]

IndexProgress ==
  byIndex =>
    /\ ~failed
    /\ pc = "index" => result = IF turn = 1 THEN <<>> ELSE Fetched(turn - 1)
    /\ pc = "done" => result = Fetched(NumColumns)

IInv == TypeOK /\ Shapes /\ FlushProgress /\ Phases /\ ScanInv /\ PagesServe /\ IndexProgress

-------------------------------------------------------------------------------
(* Helpers: minima, sequences, the candidates of the indexes.                *)

LEMMA MinOfNaturals ==
  ASSUME NEW S \in SUBSET Nat, S # {}
  PROVE  Min(S) \in S /\ \A y \in S : Min(S) <= y
<1>1. \E x \in S : \A y \in S : ~ (<<y, x>> \in OpToRel(<, Nat))
  BY NatLessThanWellFounded, WFMin
<1>2. PICK x \in S : \A y \in S : ~ (<<y, x>> \in OpToRel(<, Nat))
  BY <1>1
<1>3. \A y \in S : x <= y
  <2> SUFFICES ASSUME NEW y \in S, ~(x <= y) PROVE FALSE
    OBVIOUS
  <2>1. <<y, x>> \in Nat \X Nat /\ y < x
    OBVIOUS
  <2>2. <<y, x>> \in OpToRel(<, Nat)
    BY <2>1 DEF OpToRel
  <2> QED
    BY <1>2, <2>2
<1> QED
  BY <1>2, <1>3, Zenon DEF Min

LEMMA MinOfTwo ==
  ASSUME NEW a \in Nat, NEW b \in Nat
  PROVE  /\ Min({a, b}) \in Nat
         /\ Min({a, b}) <= a /\ Min({a, b}) <= b
         /\ Min({a, b}) = a \/ Min({a, b}) = b
<1>1. {a, b} \in SUBSET Nat /\ {a, b} # {}
  OBVIOUS
<1> QED
  BY <1>1, MinOfNaturals

LEMMA FirstColumn == 1 \in Columns /\ NumColumns \in Columns
BY ColumnsAssumption DEF Columns

\* A finite set of numbers can be written in ascending order: a number goes to
\* the place that says how many of the set are not above it.
LEMMA AscendingExists ==
  ASSUME NEW S \in SUBSET Nat, IsFiniteSet(S)
  PROVE  \E s \in SetToSeqs(S) : Ascending(s)
<1> DEFINE n == Cardinality(S)
           Upto(x) == {z \in S : z <= x}
           rank == [x \in S |-> Cardinality(Upto(x))]
           s == [i \in 1 .. n |-> CHOOSE x \in S : rank[x] = i]
<1>1. n \in Nat
  BY FS_CardinalityType
<1>2. ASSUME NEW x \in S PROVE rank[x] \in 1 .. n
  <2>1. Upto(x) \in SUBSET S /\ x \in Upto(x)
    OBVIOUS
  <2>2. IsFiniteSet(Upto(x)) /\ Cardinality(Upto(x)) <= n
    BY <2>1, FS_Subset
  <2>3. Cardinality(Upto(x)) \in Nat
    BY <2>2, FS_CardinalityType
  <2>4. Cardinality(Upto(x)) # 0
    BY <2>1, <2>2, FS_EmptySet
  <2> QED
    BY <1>1, <2>2, <2>3, <2>4
<1>3. ASSUME NEW x \in S, NEW y \in S, x < y PROVE rank[x] < rank[y]
  <2>0. ASSUME NEW z \in S, z <= x PROVE z <= y
    <3>1. x \in Nat /\ y \in Nat /\ z \in Nat
      OBVIOUS
    <3> QED
      BY <1>3, <2>0, <3>1
  <2>1. Upto(x) \in SUBSET Upto(y) /\ y \in Upto(y) /\ y \notin Upto(x)
    <3>1. x \in Nat /\ y \in Nat /\ ~(y <= x) /\ y <= y
      BY <1>3
    <3> QED
      BY <2>0, <3>1
  <2>2. Upto(y) \in SUBSET S /\ IsFiniteSet(Upto(y))
    BY FS_Subset
  <2>3. /\ Cardinality(Upto(x)) <= Cardinality(Upto(y))
        /\ Cardinality(Upto(x)) # Cardinality(Upto(y))
    BY <2>1, <2>2, FS_Subset
  <2>4. rank[x] = Cardinality(Upto(x)) /\ rank[y] = Cardinality(Upto(y))
    OBVIOUS
  <2>5. rank[x] \in Int /\ rank[y] \in Int
    BY <1>2
  <2> QED
    BY <2>3, <2>4, <2>5
<1>4. rank \in [S -> 1 .. n]
  BY <1>2
<1> HIDE DEF rank, n
<1>5. \A x, y \in S : rank[x] = rank[y] => x = y
  <2> SUFFICES ASSUME NEW x \in S, NEW y \in S, rank[x] = rank[y], x # y PROVE FALSE
    OBVIOUS
  <2>1. x < y \/ y < x
    OBVIOUS
  <2>2. rank[x] \in 1 .. n /\ rank[y] \in 1 .. n
    BY <1>4
  <2> QED
    BY <1>3, <2>1, <2>2
<1>6. rank \in Injection(S, 1 .. n)
  BY <1>4, <1>5, Fun_IsInj
<1>7. IsFiniteSet(1 .. n) /\ Cardinality(1 .. n) = n
  BY <1>1, FS_Interval
<1>8. rank \in Surjection(S, 1 .. n)
  BY <1>6, <1>7, FS_Injection DEF n
<1>9. \A i \in 1 .. n : s[i] \in S /\ rank[s[i]] = i
  <2>1. \A i \in 1 .. n : \E x \in S : rank[x] = i
    BY <1>8, Fun_SurjectionProperties
  <2> QED
    BY <2>1, Zenon
<1>10. s \in [1 .. n -> S] /\ DOMAIN s = 1 .. n
  BY <1>9
<1> HIDE DEF s
<1>11. \A i, j \in 1 .. n : i < j => s[i] < s[j]
  <2> SUFFICES ASSUME NEW i \in 1 .. n, NEW j \in 1 .. n, i < j, ~(s[i] < s[j]) PROVE FALSE
    OBVIOUS
  <2>1. s[i] \in Nat /\ s[j] \in Nat /\ s[i] \in S /\ s[j] \in S
    BY <1>9
  <2>2. rank[s[i]] = i /\ rank[s[j]] = j
    BY <1>9
  <2>3. s[i] = s[j] \/ s[j] < s[i]
    BY <2>1
  <2> QED
    BY <1>3, <2>1, <2>2, <2>3
<1>12. \A i, j \in 1 .. n : i # j => s[i] # s[j]
  BY <1>9
<1>13. s \in SetToSeqs(S)
  BY <1>10, <1>12 DEF SetToSeqs, n
<1> QED
  BY <1>10, <1>11, <1>13 DEF Ascending

\* The candidates are the known rows that match, each once and in order.
LEMMA CandidateRows ==
  ASSUME loaded \in Int
  PROVE  /\ DOMAIN Candidates = 1 .. Cardinality(Known)
         /\ \A i \in DOMAIN Candidates : Candidates[i] \in Matching /\ Candidates[i] <= loaded
         /\ \A i, j \in DOMAIN Candidates : i < j => Candidates[i] < Candidates[j]
<1>1. Known \in SUBSET (1 .. MaxRows) /\ Known \in SUBSET Nat
  <2>1. \A r \in Matching : r \in 1 .. MaxRows /\ r \in Nat
    BY QueryAssumption, RowsAssumption
  <2> QED
    BY <2>1 DEF Known
<1>2. IsFiniteSet(1 .. MaxRows)
  BY RowsAssumption, FS_Interval
<1>3. IsFiniteSet(Known)
  BY <1>1, <1>2, FS_Subset
<1>4. Candidates \in SetToSeqs(Known) /\ Ascending(Candidates)
  <2>1. \E s \in SetToSeqs(Known) : Ascending(s)
    BY <1>1, <1>3, AscendingExists
  <2> QED
    BY <2>1, Zenon DEF Candidates
<1>5. Candidates \in [1 .. Cardinality(Known) -> Known]
  BY <1>4 DEF SetToSeqs
<1> QED
  BY <1>4, <1>5 DEF Ascending, Known

LEMMA CandidatesStay == ASSUME loaded' = loaded PROVE Candidates' = Candidates
BY DEF Candidates, Known

-------------------------------------------------------------------------------
(* The first state and the capture.                                          *)

LEMMA InitIInv == Init => IInv
<1> SUFFICES ASSUME Init PROVE IInv
  OBVIOUS
<1>1. Start \in [Columns -> Nat] /\ \A c \in Columns : Start[c] = 0
  BY DEF Start
<1>2. NoPage \in [column : 0 .. NumColumns, rows : 0 .. MaxRows]
  BY ColumnsAssumption, RowsAssumption DEF NoPage
<1>3. TypeOK
  <2>1. FirstRows \in 0 .. MaxRows /\ FirstRows \in Nat /\ 0 \in 0 .. MaxRows
    BY RowsAssumption
  <2>2. 0 \in 0 .. NumColumns + 1 /\ 0 \in 0 .. MaxBatch
    BY ColumnsAssumption, RowsAssumption
  <2>3. \A c \in Columns : 0 <= from[c] /\ from[c] <= to[c] /\ to[c] <= size[c]
    BY <1>1, <2>1 DEF Init
  <2>4. \A c \in Columns : page[c].column \in 0 .. NumColumns /\ page[c].rows \in 0 .. MaxRows
    BY <1>2 DEF Init
  <2>5. size \in [Columns -> 0 .. MaxRows]
    BY <2>1 DEF Init
  <2> QED
    BY <2>1, <2>2, <2>3, <2>4, <2>5, FirstColumn DEF Init, TypeOK
<1>4. Shapes
  BY <1>1, <1>2, EmptySeq DEF Init, Shapes
<1>5. FlushProgress
  <2>1. loaded <= size[1]
    BY RowsAssumption, FirstColumn DEF Init
  <2> QED
    BY <2>1, RowsAssumption, FirstColumn DEF Init, FlushProgress
<1>6. Phases
  BY DEF Init, Phases
<1>7. ScanInv
  BY DEF Init, ScanInv, Aligned, NotBeyond, RowsOut, LimitAhead, ScanEnds, Scanned
<1>8. PagesServe /\ IndexProgress
  BY DEF Init, PagesServe, IndexProgress
<1> QED
  BY <1>3, <1>4, <1>5, <1>6, <1>7, <1>8 DEF IInv

\* The numbers an argument about a scan needs.
LEMMA Numbers ==
  ASSUME IInv
  PROVE  /\ meta \in Nat /\ rows \in Nat /\ loaded \in Nat /\ batch \in Nat
         /\ Due \in Nat /\ rows <= Due /\ Due <= meta
         /\ \A c \in Columns : size[c] \in Nat /\ from[c] \in Nat /\ to[c] \in Nat
<1>1. meta \in Nat /\ rows \in Nat /\ loaded \in Nat /\ batch \in Nat
  BY DEF IInv, TypeOK
<1>2. Due \in Nat /\ rows <= Due /\ Due <= meta
  BY <1>1 DEF IInv, FlushProgress, Due
<1>3. \A c \in Columns : size[c] \in Nat /\ from[c] \in Nat /\ to[c] \in Nat
  BY DEF IInv, TypeOK, Shapes
<1> QED
  BY <1>1, <1>2, <1>3

LEMMA OutLength ==
  ASSUME IInv, ~byIndex
  PROVE  Len(result) \in Nat /\ DOMAIN result = 1 .. Len(result)
BY LenProperties DEF IInv, Shapes

\* The capture only makes files longer, and no scan goes on unharmed: what was due
\* of it is due still, or less is.
LEMMA CaptureIInv ==
  ASSUME IInv, UNCHANGED <<loaded, pc, rows, query, page>>, quiet' = FALSE,
         size' \in [Columns -> 0 .. MaxRows], meta' \in 0 .. MaxRows,
         column' \in 0 .. NumColumns + 1, batch' \in 0 .. MaxBatch,
         \A c \in Columns : size[c] <= size'[c],
         FlushProgress'
  PROVE  IInv'
<1>1. UNCHANGED <<limit, byIndex, turn, from, to, result, failed>>
  BY DEF query, scan
<1>2. TypeOK'
  <2>1. \A c \in Columns : to'[c] <= size'[c]
    <3> SUFFICES ASSUME NEW c \in Columns PROVE to'[c] <= size'[c]
      OBVIOUS
    <3>1. to[c] \in Nat /\ size[c] \in Nat /\ size'[c] \in Nat /\ to[c] <= size[c]
      BY Numbers DEF IInv, TypeOK
    <3> QED
      BY <1>1, <3>1
  <2> QED
    BY <1>1, <2>1 DEF IInv, TypeOK
<1>3. Shapes'
  BY <1>1 DEF IInv, Shapes
<1>4. Phases'
  BY <1>1 DEF IInv, Phases
<1>5. Due' = rows /\ rows \in Nat /\ Due \in Nat /\ rows <= Due
  BY Numbers DEF Due
<1>6. Aligned'
  <2> SUFFICES ASSUME pc \in {"scan", "emit"}, Len(result) < rows, NEW c \in Columns
               PROVE  IF HasChunk(c)
                      THEN /\ from[c] = Len(result) /\ to[c] <= Len(result) + ChunkRows
                           /\ to[c] >= rows \/ to[c] >= Len(result) + ChunkRows
                      ELSE to[c] = Len(result)
    BY <1>1, <1>5 DEF Aligned, HasChunk
  <2>1. Len(result) \in Nat /\ to[c] \in Nat
    BY OutLength, Numbers DEF IInv, Phases
  <2>2. Len(result) < Due
    BY <1>5, <2>1
  <2> QED
    BY <1>5, <2>1, <2>2 DEF IInv, ScanInv, Aligned
<1>7. RowsOut'
  <2> SUFFICES ASSUME pc \in {"scan", "emit", "done"}, ~byIndex, NEW i \in DOMAIN result, i <= rows
               PROVE  result[i] = WholeRow(i)
    BY <1>1, <1>5 DEF RowsOut
  <2>1. i <= Due
    BY <1>5, OutLength
  <2> QED
    BY <2>1 DEF IInv, ScanInv, RowsOut
<1>8. ScanEnds'
  <2>1. ~byIndex => Len(result) \in Nat
    BY OutLength
  <2> QED
    BY <1>1, <1>5, <2>1 DEF IInv, ScanInv, ScanEnds, Scanned
<1>9. NotBeyond' /\ LimitAhead'
  BY <1>1 DEF IInv, ScanInv, NotBeyond, LimitAhead
<1>10. PagesServe'
  BY DEF IInv, PagesServe
<1>11. IndexProgress'
  BY <1>1, CandidatesStay DEF IInv, IndexProgress, Fetched
<1> QED
  BY <1>2, <1>3, <1>4, <1>6, <1>7, <1>8, <1>9, <1>10, <1>11 DEF IInv, ScanInv

LEMMA BeginFlushIInv ==
  ASSUME IInv, BeginFlush
  PROVE  IInv'
<1>1. /\ size \in [Columns -> 0 .. MaxRows] /\ meta \in 0 .. MaxRows
      /\ \A c \in Columns : size[c] \in Nat
  BY DEF IInv, TypeOK
<1>2. /\ column = 0 /\ batch' \in 1 .. MaxBatch /\ meta + batch' <= MaxRows /\ column' = 1
      /\ quiet' = FALSE /\ UNCHANGED <<size, meta, loaded, pc, rows, query, page>>
  BY DEF BeginFlush
<1>3. FlushProgress'
  <2>1. \A c \in Columns : size[c] = meta
    BY <1>1, <1>2 DEF IInv, FlushProgress
  <2>2. \A c \in Columns : ~(c < 1)
    BY DEF Columns
  <2> QED
    BY <1>1, <1>2, <2>1, <2>2 DEF IInv, FlushProgress
<1>4. \A c \in Columns : size[c] <= size'[c]
  BY <1>1, <1>2
<1>5. column' \in 0 .. NumColumns + 1 /\ batch' \in 0 .. MaxBatch
  BY <1>2, ColumnsAssumption, RowsAssumption
<1> QED
  BY <1>1, <1>2, <1>3, <1>4, <1>5, CaptureIInv

LEMMA FlushColumnIInv ==
  ASSUME IInv, FlushColumn
  PROVE  IInv'
<1>1. /\ size \in [Columns -> 0 .. MaxRows] /\ meta \in 0 .. MaxRows /\ batch \in 0 .. MaxBatch
      /\ column \in Columns /\ column # 0
      /\ UNCHANGED <<meta, batch, loaded, pc, rows, query, page, quiet>>
  BY DEF IInv, TypeOK, FlushColumn, Columns
<1>2. quiet' = FALSE
  BY <1>1 DEF IInv, Phases, TypeOK
<1>3. PICK s \in size[column] + 1 .. meta + batch :
             /\ size' = [size EXCEPT ![column] = s]
             /\ column' = IF s = meta + batch THEN column + 1 ELSE column
  BY DEF FlushColumn
<1>4. /\ meta + batch <= MaxRows /\ rows <= meta
      /\ \E c \in Columns : loaded <= size[c]
      /\ \A c \in Columns : size[c] \in Nat /\ meta <= size[c] /\ size[c] <= meta + batch
      /\ \A c \in Columns : c < column => size[c] = meta + batch
  BY <1>1 DEF IInv, FlushProgress
<1>5. s \in Nat /\ size[column] < s /\ s <= meta + batch
  BY <1>1, <1>3, <1>4
<1>6. /\ size'[column] = s
      /\ \A c \in Columns : c # column => size'[c] = size[c]
  BY <1>1, <1>3
<1>7. \A c \in Columns : /\ size'[c] \in Nat /\ size[c] <= size'[c]
                         /\ meta <= size'[c] /\ size'[c] <= meta + batch
  BY <1>1, <1>4, <1>5, <1>6
<1>8. size' \in [Columns -> 0 .. MaxRows]
  <2>1. s \in 0 .. MaxRows
    BY <1>1, <1>4, <1>5, RowsAssumption
  <2> QED
    BY <1>1, <1>3, <2>1
<1>9. \A c \in Columns : c < column' => size'[c] = meta + batch
  BY <1>1, <1>3, <1>4, <1>5, <1>6 DEF Columns
<1>10. column' \in 0 .. NumColumns + 1 /\ column' # 0
  BY <1>1, <1>3, ColumnsAssumption DEF Columns
<1>11. FlushProgress'
  <2>1. \E c \in Columns : loaded <= size'[c]
    <3>1. PICK c \in Columns : loaded <= size[c]
      BY <1>4
    <3>2. loaded <= size'[c]
      BY <1>4, <1>7, <3>1, Numbers
    <3> QED
      BY <3>2
  <2> QED
    BY <1>1, <1>4, <1>7, <1>9, <1>10, <2>1 DEF FlushProgress
<1> QED
  BY <1>1, <1>2, <1>7, <1>8, <1>10, <1>11, CaptureIInv

LEMMA WriteMetaIInv ==
  ASSUME IInv, WriteMeta
  PROVE  IInv'
<1>1. /\ size \in [Columns -> 0 .. MaxRows] /\ meta \in 0 .. MaxRows /\ batch \in 0 .. MaxBatch
      /\ column = NumColumns + 1 /\ column # 0
      /\ meta' = meta + batch /\ column' = 0 /\ batch' = 0
      /\ UNCHANGED <<size, loaded, pc, rows, query, page, quiet>>
  BY ColumnsAssumption DEF IInv, TypeOK, WriteMeta
<1>2. quiet' = FALSE
  BY <1>1 DEF IInv, Phases, TypeOK
<1>3. /\ loaded \in Nat /\ rows \in Nat /\ meta + batch <= MaxRows
      /\ \A c \in Columns : size[c] = meta + batch
  <2>1. \A c \in Columns : c < column
    BY <1>1, ColumnsAssumption DEF Columns
  <2> QED
    BY <1>1, <2>1, Numbers DEF IInv, FlushProgress
<1>4. FlushProgress'
  BY <1>1, <1>3 DEF IInv, FlushProgress
<1>5. \A c \in Columns : size[c] <= size'[c]
  BY <1>1
<1>6. meta' \in 0 .. MaxRows /\ column' \in 0 .. NumColumns + 1 /\ batch' \in 0 .. MaxBatch
  BY <1>1, <1>3, ColumnsAssumption, RowsAssumption
<1> QED
  BY <1>1, <1>2, <1>4, <1>5, <1>6, CaptureIInv

-------------------------------------------------------------------------------
(* The connection.                                                           *)

\* The indexes are built from a column as it is now.
LEMMA LoadIndexesIInv ==
  ASSUME IInv, LoadIndexes
  PROVE  IInv'
<1>1. /\ pc = "starting" /\ pc' = "closed"
      /\ UNCHANGED <<size, meta, column, batch, rows, page, quiet>>
      /\ UNCHANGED <<limit, byIndex, turn, from, to, result, failed>>
  BY DEF LoadIndexes, writer, query, scan
<1>2. PICK c \in Columns : loaded' = size[c]
  BY DEF LoadIndexes
<1>3. TypeOK'
  BY <1>1, <1>2 DEF IInv, TypeOK
<1>4. Shapes'
  BY <1>1 DEF IInv, Shapes
<1>5. FlushProgress'
  <2>1. loaded' <= size'[c]
    BY <1>1, <1>2, Numbers
  <2> QED
    BY <1>1, <2>1 DEF IInv, FlushProgress
<1>6. Phases'
  BY <1>1 DEF IInv, Phases
<1>7. ScanInv'
  BY <1>1 DEF ScanInv, Aligned, NotBeyond, RowsOut, LimitAhead, ScanEnds, Scanned
<1>8. PagesServe'
  BY <1>1 DEF IInv, Phases, PagesServe
<1>9. IndexProgress'
  BY <1>1 DEF IInv, Phases, IndexProgress
<1> QED
  BY <1>3, <1>4, <1>5, <1>6, <1>7, <1>8, <1>9 DEF IInv

LEMMA OpenIInv ==
  ASSUME IInv, Open
  PROVE  IInv'
<1>1. /\ pc = "closed" /\ pc' = "ready" /\ rows' = meta
      /\ UNCHANGED <<size, meta, column, batch, loaded, page, quiet>>
      /\ UNCHANGED <<limit, byIndex, turn, from, to, result, failed>>
  BY DEF Open, writer, query, scan
<1>2. TypeOK'
  BY <1>1 DEF IInv, TypeOK
<1>3. Shapes' /\ PagesServe'
  BY <1>1 DEF IInv, Shapes, PagesServe
<1>4. FlushProgress'
  BY <1>1, Numbers DEF IInv, FlushProgress
<1>5. Phases'
  <2>1. loaded <= meta
    BY DEF IInv, FlushProgress, Open, StoreIsWhole
  <2> QED
    BY <1>1, <2>1 DEF IInv, Phases
<1>6. ScanInv'
  BY <1>1 DEF ScanInv, Aligned, NotBeyond, RowsOut, LimitAhead, ScanEnds, Scanned
<1>7. IndexProgress'
  BY <1>1 DEF IInv, Phases, IndexProgress
<1> QED
  BY <1>2, <1>3, <1>4, <1>5, <1>6, <1>7 DEF IInv

LEMMA CloseIInv ==
  ASSUME IInv, Close
  PROVE  IInv'
<1>1. /\ pc = "ready" /\ pc' = "closed" /\ page' = [c \in Columns |-> NoPage]
      /\ UNCHANGED <<size, meta, column, batch, loaded, rows, quiet>>
      /\ UNCHANGED <<limit, byIndex, turn, from, to, result, failed>>
  BY DEF Close, writer, query, scan
<1>2. NoPage \in [column : 0 .. NumColumns, rows : 0 .. MaxRows]
  BY ColumnsAssumption, RowsAssumption DEF NoPage
<1>3. \A c \in Columns : page'[c] = NoPage
  BY <1>1
<1>4. TypeOK'
  BY <1>1, <1>2, <1>3 DEF IInv, TypeOK
<1>5. Shapes' /\ PagesServe'
  BY <1>1, <1>2, <1>3 DEF IInv, Shapes, PagesServe
<1>6. FlushProgress' /\ Phases'
  BY <1>1, <1>3 DEF IInv, FlushProgress, Phases
<1>7. ScanInv'
  BY <1>1 DEF ScanInv, Aligned, NotBeyond, RowsOut, LimitAhead, ScanEnds, Scanned
<1>8. IndexProgress'
  BY <1>1 DEF IInv, Phases, IndexProgress
<1> QED
  BY <1>4, <1>5, <1>6, <1>7, <1>8 DEF IInv

LEMMA AnsweredIInv ==
  ASSUME IInv, Answered
  PROVE  IInv'
<1>1. /\ pc = "done" /\ pc' = "ready" /\ limit' = NoLimit /\ byIndex' = FALSE
      /\ turn' = 1 /\ from' = Start /\ to' = Start
      /\ result' = <<>> /\ failed' = FALSE /\ quiet' = FALSE
      /\ UNCHANGED <<size, meta, column, batch, loaded, rows, page>>
  BY DEF Answered, writer
<1>2. Start \in [Columns -> Nat] /\ \A c \in Columns : Start[c] = 0
  BY DEF Start
<1>3. \A c \in Columns : 0 <= from'[c] /\ from'[c] <= to'[c] /\ to'[c] <= size'[c]
  BY <1>1, <1>2, Numbers
<1>4. TypeOK'
  BY <1>1, <1>3, FirstColumn DEF IInv, TypeOK
<1>5. Shapes'
  BY <1>1, <1>2, EmptySeq DEF IInv, Shapes
<1>6. FlushProgress' /\ Phases' /\ PagesServe'
  BY <1>1 DEF IInv, FlushProgress, Phases, PagesServe
<1>7. ScanInv'
  BY <1>1 DEF ScanInv, Aligned, NotBeyond, RowsOut, LimitAhead, ScanEnds, Scanned
<1>8. IndexProgress'
  BY <1>1 DEF IndexProgress
<1> QED
  BY <1>4, <1>5, <1>6, <1>7, <1>8 DEF IInv

LEMMA BeginIInv ==
  ASSUME IInv, NEW l \in Limits \cup {NoLimit}, NEW indexed \in BOOLEAN, Begin(l, indexed)
  PROVE  IInv'
<1>1. /\ pc = "ready" /\ limit' = l
      /\ byIndex' = (indexed /\ Selective) /\ byIndex' \in BOOLEAN
      /\ pc' = IF byIndex' THEN "index" ELSE "scan"
      /\ quiet' = (column = 0) /\ quiet' \in BOOLEAN
      /\ UNCHANGED <<size, meta, column, batch, loaded, rows, page>>
      /\ UNCHANGED <<turn, from, to, result, failed>>
  BY DEF Begin, writer, scan
<1>2. turn = 1 /\ from = Start /\ to = Start /\ result = <<>> /\ ~failed /\ ~byIndex
  BY <1>1 DEF IInv, Phases
<1>3. Len(result') = 0 /\ DOMAIN result' = {}
  BY <1>1, <1>2, EmptySeq
<1>4. \A c \in Columns : ~HasChunk(c)' /\ to'[c] = 0
  BY <1>1, <1>2 DEF HasChunk, Start, Columns
<1>5. TypeOK'
  BY <1>1 DEF IInv, TypeOK
<1>6. Shapes'
  BY <1>1, <1>2 DEF IInv, Shapes
<1>7. FlushProgress' /\ PagesServe' /\ Phases'
  BY <1>1, <1>2 DEF IInv, FlushProgress, PagesServe, Phases
<1>8. Aligned' /\ RowsOut' /\ ScanEnds'
  BY <1>1, <1>3, <1>4 DEF Aligned, RowsOut, ScanEnds, Scanned
<1>9. NotBeyond'
  BY <1>1, <1>2, <1>3, <1>4, FirstColumn, Numbers DEF NotBeyond
<1>10. LimitAhead'
  <2>1. l # NoLimit => l \in Nat /\ l > 0
    BY QueryAssumption DEF NoLimit
  <2> QED
    BY <1>1, <1>3, <2>1 DEF LimitAhead
<1>11. IndexProgress'
  BY <1>1, <1>2 DEF IndexProgress
<1> QED
  BY <1>5, <1>6, <1>7, <1>8, <1>9, <1>10, <1>11 DEF IInv, ScanInv

\* A scan step, the end apart: what a step of a scan leaves alone.
LEMMA ScanBeside ==
  ASSUME IInv, UNCHANGED <<writer, loaded, rows, limit, byIndex, page, quiet>>
  PROVE  FlushProgress' /\ PagesServe' /\ Due' = Due /\ meta' = meta
BY DEF IInv, FlushProgress, PagesServe, Due, writer

\* The end of a file is not reached before the rows that are due are out.
LEMMA ScanEndIInv ==
  ASSUME IInv, pc = "scan", AtEnd(turn), pc' = "done", UNCHANGED scan,
         UNCHANGED <<writer, loaded, rows, limit, byIndex, page, result, failed, quiet>>
  PROVE  IInv'
<1>1. /\ UNCHANGED <<size, meta, column, batch, turn, from, to>>
      /\ ~byIndex /\ ~failed /\ turn \in Columns /\ to[turn] = size[turn]
  BY DEF IInv, Phases, TypeOK, AtEnd, writer, scan
<1>2. Len(result) \in Nat
  BY <1>1, OutLength
<1>3. Len(result) >= Due
  <2> SUFFICES ASSUME Len(result) < Due PROVE FALSE
    BY <1>2, Numbers
  <2>1. ~HasChunk(turn)
    BY <1>1 DEF HasChunk, Columns
  <2>2. to[turn] = Len(result)
    BY <1>1, <2>1 DEF IInv, ScanInv, Aligned
  <2>3. meta <= size[turn]
    BY <1>1 DEF IInv, FlushProgress
  <2> QED
    BY <1>1, <1>2, <2>2, <2>3, Numbers
<1>4. quiet => Len(result) = meta /\ (limit # NoLimit => Len(result) < limit)
  BY <1>2, <1>3, Numbers DEF IInv, ScanInv, NotBeyond, LimitAhead, Due
<1>5. limit # NoLimit => limit \in Nat
  BY QueryAssumption DEF IInv, TypeOK
<1>6. ScanEnds'
  BY <1>1, <1>3, <1>4, <1>5, Numbers, ScanBeside DEF ScanEnds, Scanned
<1>7. TypeOK' /\ Shapes'
  BY <1>1 DEF IInv, TypeOK, Shapes
<1>8. Phases'
  BY <1>1 DEF IInv, Phases
<1>9. RowsOut'
  BY <1>1, ScanBeside DEF IInv, ScanInv, RowsOut
<1>10. Aligned' /\ NotBeyond' /\ LimitAhead' /\ IndexProgress'
  BY <1>1 DEF Aligned, NotBeyond, LimitAhead, IndexProgress
<1> QED
  BY <1>6, <1>7, <1>8, <1>9, <1>10, ScanBeside DEF IInv, ScanInv

LEMMA QuietStore == ASSUME IInv, quiet PROVE \A c \in Columns : size[c] = meta
<1>1. column = 0 /\ batch = 0
  BY DEF IInv, Phases, FlushProgress
<1>2. \A c \in Columns : meta <= size[c] /\ size[c] <= meta + batch
  BY DEF IInv, FlushProgress
<1> QED
  BY <1>1, <1>2, Numbers

\* A chunk is read from where the one before it ended, to where the file ends or
\* the chunk is full.
LEMMA ChunkIInv ==
  ASSUME IInv, pc = "scan", ~AtEnd(turn),
         from' = [from EXCEPT ![turn] = to[turn]],
         to' = [to EXCEPT ![turn] = ChunkEnd(turn)],
         turn' = IF turn = NumColumns THEN 1 ELSE turn + 1,
         pc' = IF turn = NumColumns THEN "emit" ELSE "scan",
         UNCHANGED <<writer, loaded, rows, limit, byIndex, page, result, failed, quiet>>
  PROVE  IInv'
<1> DEFINE L == Len(result)
<1>1. /\ UNCHANGED <<size, meta, column, batch>>
      /\ ~byIndex /\ ~failed /\ turn \in Columns /\ to[turn] # size[turn]
      /\ from \in [Columns -> Nat] /\ to \in [Columns -> Nat]
  BY DEF IInv, Phases, TypeOK, Shapes, AtEnd, writer
<1>2. L \in Nat /\ ChunkRows \in Nat \ {0}
  BY <1>1, OutLength, RowsAssumption
<1>3. /\ ChunkEnd(turn) \in Nat
      /\ ChunkEnd(turn) <= size[turn] /\ ChunkEnd(turn) <= to[turn] + ChunkRows
      /\ ChunkEnd(turn) = size[turn] \/ ChunkEnd(turn) = to[turn] + ChunkRows
  <2> DEFINE a == size[turn]
             b == to[turn] + ChunkRows
  <2>1. a \in Nat /\ b \in Nat
    BY <1>1, <1>2, Numbers
  <2>2. ChunkEnd(turn) = Min({a, b})
    BY DEF ChunkEnd, ChunkOfRows
  <2> HIDE DEF a, b
  <2>3. ChunkEnd(turn) \in Nat /\ ChunkEnd(turn) <= a /\ ChunkEnd(turn) <= b
    BY <2>1, <2>2, MinOfTwo
  <2>4. ChunkEnd(turn) = a \/ ChunkEnd(turn) = b
    BY <2>1, <2>2, MinOfTwo
  <2> QED
    BY <2>3, <2>4 DEF a, b
<1>4. /\ from'[turn] = to[turn] /\ to'[turn] = ChunkEnd(turn)
      /\ \A c \in Columns \ {turn} : from'[c] = from[c] /\ to'[c] = to[c]
  BY <1>1
<1>5. \A c \in Columns : 0 <= from'[c] /\ from'[c] <= to'[c] /\ to'[c] <= size'[c]
  <2> SUFFICES ASSUME NEW c \in Columns
               PROVE  0 <= from'[c] /\ from'[c] <= to'[c] /\ to'[c] <= size[c]
    BY <1>1
  <2>1. /\ from[c] \in Nat /\ to[c] \in Nat /\ size[c] \in Nat
        /\ from[c] <= to[c] /\ to[c] <= size[c]
    BY Numbers DEF IInv, TypeOK
  <2>2. CASE c = turn
    BY <1>2, <1>3, <1>4, <2>1, <2>2
  <2>3. CASE c # turn
    BY <1>4, <2>1, <2>3
  <2> QED
    BY <2>2, <2>3
<1>6. turn' \in Columns
  BY <1>1, ColumnsAssumption DEF Columns
<1>7. TypeOK'
  BY <1>1, <1>5, <1>6 DEF IInv, TypeOK
<1>8. Shapes'
  BY <1>1, <1>3 DEF IInv, Shapes
<1>9. Phases'
  BY <1>1 DEF IInv, Phases
\* The column has its chunk now; what the others have is as before.
<1>10. \A c \in Columns : HasChunk(c)' <=> (c = turn \/ HasChunk(c))
  BY <1>1, ColumnsAssumption DEF HasChunk, Columns
<1>11. Due' = Due
  BY ScanBeside
<1>12. Aligned'
  <2> SUFFICES ASSUME L < Due, NEW c \in Columns
               PROVE  IF c = turn \/ HasChunk(c)
                      THEN /\ from'[c] = L /\ to'[c] <= L + ChunkRows
                           /\ to'[c] >= Due \/ to'[c] >= L + ChunkRows
                      ELSE to'[c] = L
    BY <1>10, <1>11 DEF Aligned
  <2>1. CASE c = turn
    <3>1. ~HasChunk(c)
      BY <1>1, <2>1 DEF HasChunk, Columns
    <3>2. to[c] = L
      BY <3>1 DEF IInv, ScanInv, Aligned
    <3>3. meta <= size[c]
      BY DEF IInv, FlushProgress
    <3> QED
      BY <1>2, <1>3, <1>4, <2>1, <3>2, <3>3, Numbers
  <2>2. CASE c # turn
    BY <1>4, <2>2 DEF IInv, ScanInv, Aligned
  <2> QED
    BY <2>1, <2>2
<1>13. quiet => L < meta
  <2> SUFFICES ASSUME quiet PROVE L < meta
    OBVIOUS
  <2>1. L <= meta /\ (turn > 1 => L < meta) /\ (L = meta => to[1] = meta)
    BY DEF IInv, ScanInv, NotBeyond
  <2>2. turn = 1 => to[1] # meta
    BY <1>1, QuietStore, FirstColumn
  <2>3. turn > 1 \/ turn = 1
    BY <1>1 DEF Columns
  <2> QED
    BY <1>2, <2>1, <2>2, <2>3, Numbers
<1>14. NotBeyond'
  BY <1>1, <1>2, <1>13, Numbers DEF NotBeyond
<1>15. RowsOut' /\ LimitAhead' /\ ScanEnds'
  BY <1>11 DEF IInv, ScanInv, RowsOut, LimitAhead, ScanEnds, Scanned
<1>16. IndexProgress'
  BY <1>1 DEF IndexProgress
<1> QED
  BY <1>7, <1>8, <1>9, <1>12, <1>14, <1>15, <1>16, ScanBeside DEF IInv, ScanInv

LEMMA ReadChunkIInv ==
  ASSUME IInv, ReadChunk
  PROVE  IInv'
BY ScanEndIInv, ChunkIInv DEF ReadChunk

\* What a round puts out: as many rows as the shortest chunk has.
Shortest == Min({to[c] - from[c] : c \in Columns})
NewRows == [i \in 1 .. Shortest |-> [c \in Columns |-> from[c] + i]]
Out == result \o NewRows

LEMMA ShortestChunk ==
  ASSUME IInv
  PROVE  /\ Shortest \in Nat
         /\ \A c \in Columns : Shortest <= to[c] - from[c]
         /\ \E c \in Columns : Shortest = to[c] - from[c]
<1> DEFINE S == {to[c] - from[c] : c \in Columns}
<1>1. \A c \in Columns : to[c] - from[c] \in Nat
  BY Numbers DEF IInv, TypeOK
<1>2. S \in SUBSET Nat /\ S # {}
  BY <1>1, FirstColumn
<1>3. Min(S) \in S /\ \A y \in S : Min(S) <= y
  BY <1>2, MinOfNaturals
<1>4. Shortest = Min(S)
  BY DEF Shortest
<1> HIDE DEF Shortest
<1> QED
  BY <1>2, <1>3, <1>4

\* The rows out after a round: those before it and the chunks' side by side; all
\* that are due of them are whole, and if not all that are due are out then every
\* chunk has been used up.
LEMMA Round ==
  ASSUME IInv, pc = "emit"
  PROVE  /\ Out \in Seq([Columns -> Nat])
         /\ Len(Out) = Len(result) + Shortest
         /\ \A i \in 1 .. Len(Out) : i <= Due => Out[i] = WholeRow(i)
         /\ Len(Out) < Due => \A c \in Columns : to[c] = Len(Out)
         /\ quiet => /\ Len(Out) <= meta /\ Shortest = to[1] - from[1]
                     /\ to[1] = Len(Out)
<1> DEFINE L == Len(result)
<1>1. ~byIndex /\ L \in Nat /\ result \in Seq([Columns -> Nat]) /\ ChunkRows \in Nat \ {0}
  BY OutLength, RowsAssumption DEF IInv, Phases, Shapes
<1>2. Shortest \in Nat /\ \A c \in Columns : Shortest <= to[c] - from[c]
  BY ShortestChunk
<1>3. NewRows \in Seq([Columns -> Nat]) /\ Len(NewRows) = Shortest
  <2>1. \A i \in 1 .. Shortest : [c \in Columns |-> from[c] + i] \in [Columns -> Nat]
    BY <1>2, Numbers
  <2>2. NewRows \in [1 .. Shortest -> [Columns -> Nat]]
    BY <2>1 DEF NewRows
  <2> QED
    BY <1>2, <2>2, LenProperties, SeqDef
<1>4. /\ Out \in Seq([Columns -> Nat]) /\ Len(Out) = L + Shortest
      /\ \A i \in 1 .. L : Out[i] = result[i]
      /\ \A i \in L + 1 .. L + Shortest : Out[i] = NewRows[i - L]
  <2>1. /\ Out \in Seq([Columns -> Nat]) /\ Len(Out) = Len(result) + Len(NewRows)
        /\ \A i \in 1 .. Len(result) + Len(NewRows) :
             Out[i] = IF i <= Len(result) THEN result[i] ELSE NewRows[i - Len(result)]
    BY <1>1, <1>3, ConcatProperties DEF Out
  <2> QED
    BY <1>1, <1>2, <1>3, <2>1
<1>5. L < Due => \A c \in Columns :
                   /\ from[c] = L /\ to[c] <= L + ChunkRows
                   /\ to[c] >= Due \/ to[c] >= L + ChunkRows
  BY DEF IInv, ScanInv, Aligned, HasChunk
<1>6. ASSUME NEW i \in 1 .. Len(Out), i <= Due PROVE Out[i] = WholeRow(i)
  <2>1. CASE i <= L
    <3>1. i \in 1 .. L /\ i \in DOMAIN result
      BY <1>1, <2>1, OutLength
    <3> QED
      BY <1>1, <1>4, <1>6, <3>1 DEF IInv, ScanInv, RowsOut
  <2>2. CASE i > L
    <3>1. i \in Nat /\ i \in L + 1 .. L + Shortest /\ i - L \in 1 .. Shortest
      BY <1>1, <1>2, <1>4, <2>2
    <3>2. L < Due
      BY <1>1, <1>6, <2>2, <3>1, Numbers
    <3>3. ASSUME NEW c \in Columns PROVE from[c] + (i - L) = i
      <4>1. from[c] = L
        BY <1>5, <3>2
      <4> QED
        BY <1>1, <3>1, <4>1
    <3>4. Out[i] = [c \in Columns |-> from[c] + (i - L)]
      BY <1>4, <3>1 DEF NewRows
    <3> QED
      BY <3>3, <3>4 DEF WholeRow
  <2> QED
    BY <1>1, <1>4, <2>1, <2>2
<1>7. ASSUME Len(Out) < Due PROVE \A c \in Columns : to[c] = Len(Out)
  <2>1. L < Due /\ Len(Out) = L + Shortest
    BY <1>1, <1>2, <1>4, <1>7, Numbers
  <2>2. PICK d \in Columns : Shortest = to[d] - from[d]
    BY ShortestChunk
  <2>3. to[d] = Len(Out) /\ Shortest = ChunkRows
    <3>1. /\ from[d] = L /\ to[d] <= L + ChunkRows /\ to[d] \in Nat
          /\ to[d] >= Due \/ to[d] >= L + ChunkRows
      BY <1>5, <2>1, Numbers
    <3>2. to[d] = Len(Out)
      BY <1>1, <2>1, <2>2, <3>1
    <3>3. ~(to[d] >= Due)
      BY <1>7, <3>1, <3>2, Numbers
    <3> QED
      BY <1>1, <2>1, <2>2, <3>1, <3>2, <3>3
  <2> SUFFICES ASSUME NEW c \in Columns PROVE to[c] = Len(Out)
    OBVIOUS
  <2>4. Shortest <= to[c] - from[c] /\ from[c] = L /\ to[c] <= L + ChunkRows /\ to[c] \in Nat
    BY <1>2, <1>5, <2>1, Numbers
  <2> QED
    BY <1>1, <2>1, <2>3, <2>4
<1>8. ASSUME quiet
      PROVE  Len(Out) <= meta /\ Shortest = to[1] - from[1] /\ to[1] = Len(Out)
  <2>1. L < meta /\ Due = meta
    BY <1>8 DEF IInv, ScanInv, NotBeyond, Due
  <2>2. \A c \in Columns : size[c] = meta
    BY <1>8, QuietStore
  <2>3. ASSUME NEW c \in Columns
        PROVE  /\ from[c] = L /\ to[c] \in Nat /\ to[c] <= meta /\ to[c] <= L + ChunkRows
               /\ to[c] >= meta \/ to[c] >= L + ChunkRows
    BY <1>5, <2>1, <2>2, Numbers DEF IInv, TypeOK
  <2>4. PICK d \in Columns : Shortest = to[d] - from[d]
    BY ShortestChunk
  <2>5. to[1] = to[d]
    <3>1. /\ from[1] = L /\ to[1] \in Nat /\ to[1] <= meta /\ to[1] <= L + ChunkRows
          /\ to[1] >= meta \/ to[1] >= L + ChunkRows
      BY <2>3, FirstColumn
    <3>2. /\ from[d] = L /\ to[d] \in Nat /\ to[d] <= meta /\ to[d] <= L + ChunkRows
          /\ to[d] >= meta \/ to[d] >= L + ChunkRows
      BY <2>3
    <3> QED
      BY <1>1, <3>1, <3>2, Numbers
  <2> QED
    BY <1>1, <1>4, <2>3, <2>4, <2>5, FirstColumn
<1> QED
  BY <1>4, <1>6, <1>7, <1>8

\* The rows of a round go out, unless LIMIT has enough of them; the columns are
\* cut to the shortest chunk, which may fail the query but tears no row that is due.
LEMMA EmitIInv ==
  ASSUME IInv, Emit
  PROVE  IInv'
<1> DEFINE enough == limit # NoLimit /\ Len(Out) >= limit
<1>1. /\ pc = "emit"
      /\ result' = IF enough THEN SubSeq(Out, 1, limit) ELSE Out
      /\ failed' = (~enough /\ Shortest < to[1] - from[1])
      /\ pc' = IF enough \/ failed' THEN "done" ELSE "scan"
      /\ UNCHANGED <<writer, loaded, rows, limit, byIndex, scan, page, quiet>>
  BY DEF Emit, Out, NewRows, Shortest
<1>2. /\ UNCHANGED <<size, meta, column, batch, turn, from, to>>
      /\ ~byIndex /\ ~failed /\ turn = 1 /\ Due' = Due
  BY <1>1, ScanBeside DEF IInv, Phases, writer, scan
<1>3. /\ Out \in Seq([Columns -> Nat]) /\ Len(Out) \in Nat
      /\ \A i \in 1 .. Len(Out) : i <= Due => Out[i] = WholeRow(i)
      /\ Len(Out) < Due => \A c \in Columns : to[c] = Len(Out)
      /\ quiet => Len(Out) <= meta /\ Shortest = to[1] - from[1] /\ to[1] = Len(Out)
  BY <1>1, Round, LenProperties
<1>4. limit # NoLimit => limit \in Nat /\ limit >= 1
  <2>1. limit \in Limits \cup {NoLimit}
    BY DEF IInv, TypeOK
  <2>2. \A l \in Limits : l \in Nat /\ l >= 1
    BY QueryAssumption
  <2> QED
    BY <2>1, <2>2
<1>5. /\ result' \in Seq([Columns -> Nat])
      /\ Len(result') = IF enough THEN limit ELSE Len(Out)
      /\ \A i \in 1 .. Len(result') : i <= Due => result'[i] = WholeRow(i)
  <2>1. CASE enough
    <3>1. /\ SubSeq(Out, 1, limit) \in Seq([Columns -> Nat])
          /\ Len(SubSeq(Out, 1, limit)) = limit
          /\ \A i \in 1 .. limit : SubSeq(Out, 1, limit)[i] = Out[1 + i - 1]
      <4>1. 1 \in 1 .. Len(Out) + 1 /\ limit \in 0 .. Len(Out)
        BY <1>3, <1>4, <2>1
      <4>2. \A i \in 1 .. limit : i \in 1 .. Len(Out)
        BY <1>3, <1>4, <2>1
      <4> QED
        BY <1>3, <1>4, <2>1, <4>1, <4>2, SubSeqProperties
    <3>2. \A i \in 1 .. limit : 1 + i - 1 = i /\ i \in 1 .. Len(Out)
      BY <1>3, <1>4, <2>1
    <3>3. result' = SubSeq(Out, 1, limit)
      BY <1>1, <2>1
    <3>4. \A i \in 1 .. limit : result'[i] = Out[i]
      BY <3>1, <3>2, <3>3
    <3> QED
      BY <1>3, <2>1, <3>1, <3>2, <3>3, <3>4
  <2>2. CASE ~enough
    BY <1>1, <1>3, <2>2
  <2> QED
    BY <2>1, <2>2
<1>6. TypeOK'
  <2>1. failed' \in BOOLEAN /\ pc' \in {"done", "scan"}
    BY <1>1
  <2> QED
    BY <1>1, <1>2, <2>1 DEF IInv, TypeOK
<1>7. Shapes'
  BY <1>1, <1>2, <1>5 DEF IInv, Shapes
<1>8. Phases'
  BY <1>1, <1>2 DEF IInv, Phases
<1>9. RowsOut'
  <2>1. DOMAIN result' = 1 .. Len(result')
    BY <1>5, LenProperties
  <2> QED
    BY <1>2, <1>5, <2>1 DEF RowsOut
<1>10. Aligned'
  <2> SUFFICES ASSUME pc' = "scan", Len(Out) < Due, NEW c \in Columns
               PROVE  to'[c] = Len(Out)
    <3>1. pc' # "emit" /\ ~HasChunk(1)' /\ turn' = 1
      BY <1>1, <1>2 DEF HasChunk
    <3>2. pc' = "scan" => \A c \in Columns : ~HasChunk(c)'
      BY <3>1 DEF HasChunk, Columns
    <3>3. pc' = "scan" => Len(result') = Len(Out)
      BY <1>1, <1>5
    <3> QED
      BY <1>2, <3>1, <3>2, <3>3 DEF Aligned
  <2> QED
    BY <1>2, <1>3
<1>11. NotBeyond'
  <2>1. pc' = "scan" => Len(result') = Len(Out)
    BY <1>1, <1>5
  <2>2. pc' # "emit" /\ ~(turn' > 1)
    BY <1>1, <1>2
  <2> QED
    BY <1>1, <1>2, <1>3, <2>1, <2>2 DEF NotBeyond
<1>12. LimitAhead'
  <2>1. pc' = "scan" => ~enough /\ Len(result') = Len(Out)
    BY <1>1, <1>5
  <2>2. pc' # "emit"
    BY <1>1
  <2> QED
    BY <1>1, <1>3, <1>4, <2>1, <2>2 DEF LimitAhead
<1>13. ScanEnds'
  <2> SUFFICES ASSUME pc' = "done"
               PROVE  /\ failed' \/ limit # NoLimit
                      /\ quiet => /\ ~failed'
                                  /\ Len(result') =
                                       IF limit # NoLimit /\ limit < meta THEN limit ELSE meta
    BY <1>1, <1>2 DEF ScanEnds, Scanned
  <2>1. enough \/ failed'
    BY <1>1
  <2>2. ASSUME quiet PROVE enough /\ ~failed' /\ limit \in Nat /\ limit <= meta
    <3>1. to[1] - from[1] = Shortest /\ Len(Out) <= meta /\ Shortest \in Nat
      BY <1>3, <2>2, ShortestChunk
    <3>2. ~failed'
      <4>1. ~(Shortest < to[1] - from[1])
        BY <3>1
      <4> QED
        BY <1>1, <4>1
    <3> QED
      BY <1>3, <1>4, <2>1, <3>1, <3>2, Numbers
  <2>3. ASSUME quiet
        PROVE  Len(result') = IF limit # NoLimit /\ limit < meta THEN limit ELSE meta
    BY <1>5, <2>2, <2>3, Numbers
  <2> QED
    BY <2>1, <2>2, <2>3
<1>14. IndexProgress'
  BY <1>1, <1>2 DEF IndexProgress
<1> QED
  BY <1>1, <1>6, <1>7, <1>8, <1>9, <1>10, <1>11, <1>12, <1>13, <1>14, ScanBeside DEF IInv, ScanInv

\* The page that a column is read from, which has the rows the indexes know.
Serving ==
  IF page[turn] = NoPage THEN [column |-> turn, rows |-> size[turn]] ELSE page[turn]

\* One more column of the candidates is there, from a page of that column.
LEMMA ReadRowsIInv ==
  ASSUME IInv, ReadRows
  PROVE  IInv'
<1> DEFINE value(r) == IF Serving.column = turn THEN r ELSE Garbage
           got == [i \in DOMAIN Candidates |->
                     [c \in 1 .. turn |-> IF c = turn THEN value(Candidates[i])
                                                      ELSE result[i][c]]]
<1>1. /\ pc = "index"
      /\ page' = page \/ page' = [page EXCEPT ![turn] = Serving]
      /\ failed' = \E i \in DOMAIN Candidates : Candidates[i] > Serving.rows
      /\ result' = got
      /\ turn' = IF turn = NumColumns THEN 1 ELSE turn + 1
      /\ pc' = IF failed' \/ turn = NumColumns THEN "done" ELSE "index"
      /\ UNCHANGED <<writer, loaded, rows, limit, byIndex, from, to, quiet>>
  BY DEF ReadRows, Serving
<1>2. /\ UNCHANGED <<size, meta, column, batch>> /\ byIndex /\ turn \in Columns
      /\ page \in [Columns -> [column : 0 .. NumColumns, rows : 0 .. MaxRows]]
      /\ size[turn] \in 0 .. MaxRows
  BY <1>1 DEF IInv, Phases, TypeOK, Shapes, writer
<1>3. /\ Serving \in [column : 0 .. NumColumns, rows : 0 .. MaxRows]
      /\ Serving.column = turn /\ loaded <= Serving.rows
  <2>1. CASE page[turn] = NoPage
    <3>1. loaded <= size[turn]
      <4>1. loaded <= rows /\ rows <= meta /\ meta <= size[turn]
        BY <1>1, <1>2 DEF IInv, FlushProgress, Phases
      <4> QED
        BY <1>2, <4>1, Numbers
    <3>2. turn \in 0 .. NumColumns
      BY <1>2, ColumnsAssumption DEF Columns
    <3> QED
      BY <1>2, <2>1, <3>1, <3>2 DEF Serving
  <2>2. CASE page[turn] # NoPage
    BY <1>2, <2>2 DEF Serving, IInv, PagesServe
  <2> QED
    BY <2>1, <2>2
<1>4. /\ \A i \in DOMAIN Candidates : Candidates[i] \in Nat /\ Candidates[i] <= loaded
      /\ Candidates' = Candidates
  <2>1. \A i \in DOMAIN Candidates : Candidates[i] \in Matching /\ Candidates[i] <= loaded
    BY CandidateRows, Numbers
  <2>2. \A r \in Matching : r \in Nat
    BY QueryAssumption, RowsAssumption
  <2>3. loaded' = loaded
    BY <1>1
  <2> QED
    BY <2>1, <2>2, <2>3, CandidatesStay
<1>5. failed' = FALSE
  <2>1. Serving.rows \in Nat
    BY <1>3
  <2>2. \A i \in DOMAIN Candidates : ~(Candidates[i] > Serving.rows)
    BY <1>3, <1>4, <2>1, Numbers
  <2> QED
    BY <1>1, <2>2
<1>6. result' = Fetched(turn)
  <2>1. ASSUME NEW i \in DOMAIN Candidates, NEW c \in 1 .. turn
        PROVE  (IF c = turn THEN value(Candidates[i]) ELSE result[i][c]) = Candidates[i]
    <3>1. CASE c = turn
      BY <1>3, <3>1
    <3>2. CASE c # turn
      <4>1. turn # 1 /\ c \in 1 .. turn - 1
        BY <1>2, <3>2 DEF Columns
      <4>2. result = Fetched(turn - 1)
        BY <1>1, <1>2, <4>1 DEF IInv, IndexProgress
      <4> QED
        BY <3>2, <4>1, <4>2 DEF Fetched
    <3> QED
      BY <3>1, <3>2
  <2>2. got = [i \in DOMAIN Candidates |-> [c \in 1 .. turn |-> Candidates[i]]]
    BY <2>1
  <2> QED
    BY <1>1, <2>2 DEF Fetched
<1>7. turn' \in Columns
  BY <1>1, <1>2, ColumnsAssumption DEF Columns
<1>8. page' \in [Columns -> [column : 0 .. NumColumns, rows : 0 .. MaxRows]]
  BY <1>1, <1>2, <1>3
<1>9. \A c \in Columns : page'[c] = page[c] \/ (c = turn /\ page'[c] = Serving)
  BY <1>1, <1>2
<1>10. PagesServe'
  BY <1>1, <1>3, <1>9 DEF IInv, PagesServe
<1>11. Shapes'
  BY <1>1, <1>2, <1>8 DEF IInv, Shapes
<1>12. TypeOK'
  <2>1. pc' \in {"done", "index"} /\ failed' \in BOOLEAN
    BY <1>1, <1>5
  <2>2. \A c \in Columns : page'[c].column \in 0 .. NumColumns /\ page'[c].rows \in 0 .. MaxRows
    BY <1>8
  <2> QED
    BY <1>1, <1>2, <1>7, <2>1, <2>2 DEF IInv, TypeOK
<1>13. FlushProgress' /\ Phases'
  BY <1>1, <1>2 DEF IInv, FlushProgress, Phases
<1>14. ScanInv'
  BY <1>1, <1>2 DEF ScanInv, Aligned, NotBeyond, RowsOut, LimitAhead, ScanEnds, Scanned
<1>15. IndexProgress'
  <2>1. turn # NumColumns => turn' # 1 /\ turn' - 1 = turn
    <3>1. turn \in Nat /\ turn >= 1
      BY <1>2 DEF Columns
    <3>2. turn # NumColumns => turn' = turn + 1
      BY <1>1
    <3> QED
      BY <3>1, <3>2
  <2>2. Fetched(turn) = [i \in DOMAIN Candidates' |-> [c \in 1 .. turn |-> Candidates'[i]]]
    BY <1>4 DEF Fetched
  <2> QED
    BY <1>1, <1>5, <1>6, <2>1, <2>2 DEF IndexProgress, Fetched
<1> QED
  BY <1>10, <1>11, <1>12, <1>13, <1>14, <1>15 DEF IInv

LEMMA StepIInv == IInv /\ [Next]_vars => IInv'
<1> SUFFICES ASSUME IInv, [Next]_vars PROVE IInv'
  OBVIOUS
<1>1. CASE UNCHANGED vars
  <2>1. /\ UNCHANGED <<size, meta, column, batch, loaded, pc, rows, page, quiet>>
        /\ UNCHANGED <<limit, byIndex, turn, from, to, result, failed>>
    BY <1>1 DEF vars, writer, query, scan
  <2>2. TypeOK' /\ Shapes' /\ FlushProgress' /\ Phases' /\ PagesServe'
    BY <2>1 DEF IInv, TypeOK, Shapes, FlushProgress, Phases, PagesServe
  <2>3. ScanInv'
    BY <2>1 DEF IInv, ScanInv, Aligned, HasChunk, NotBeyond, RowsOut, LimitAhead, ScanEnds,
                Scanned, Due
  <2>4. IndexProgress'
    BY <2>1, CandidatesStay DEF IInv, IndexProgress, Fetched
  <2> QED
    BY <2>2, <2>3, <2>4 DEF IInv
<1>2. CASE \E l \in Limits \cup {NoLimit}, indexed \in BOOLEAN : Begin(l, indexed)
  BY <1>2, BeginIInv
<1> QED
  BY <1>1, <1>2, BeginFlushIInv, FlushColumnIInv, WriteMetaIInv, LoadIndexesIInv,
     OpenIInv, CloseIInv,
     ReadChunkIInv, EmitIInv, ReadRowsIInv, AnsweredIInv DEF Next

LEMMA Invariance == Spec => []IInv
BY InitIInv, StepIInv, PTL DEF Spec

\* Types; a chunk lies within what the file held when it was read.
THEOREM TypeCorrectness == Spec => []TypeOK
<1>1. IInv => TypeOK
  BY DEF IInv
<1> QED
  BY <1>1, Invariance, PTL

\* However flushes run alongside, SeqScan returns the rows that the store had when
\* it was opened, each whole and in its place, unless LIMIT stops it or it fails:
\* whatever the sizes of chunks and flushes, and whichever column is behind.
THEOREM ScansAreWhole == Spec => []ScanSeesSnapshot
<1>1. IInv => ScanSeesSnapshot
  <2> SUFFICES ASSUME IInv, Scanned
               PROVE  /\ \A i \in DOMAIN result : i <= rows => result[i] = WholeRow(i)
                      /\ ~failed /\ limit = NoLimit => Len(result) >= rows
    BY DEF ScanSeesSnapshot
  <2>1. ~byIndex /\ pc = "done" /\ Len(result) \in Nat /\ DOMAIN result = 1 .. Len(result)
    BY OutLength DEF Scanned
  <2>2. \A i \in DOMAIN result : i <= rows => i <= Due
    BY <2>1, Numbers
  <2>3. \A i \in DOMAIN result : i <= Due => result[i] = WholeRow(i)
    BY <2>1 DEF IInv, ScanInv, RowsOut
  <2>4. ~failed /\ limit = NoLimit => Len(result) >= Due
    BY DEF IInv, ScanInv, ScanEnds
  <2> QED
    BY <2>1, <2>2, <2>3, <2>4, Numbers
<1> QED
  BY <1>1, Invariance, PTL

\* A scan that no flush touches does not fail and returns what is stored, or as
\* much of it as LIMIT asks for: the columns stay in step over all its chunks.
THEOREM QuietScansAreExact == Spec => []QuietScanIsExact
<1>1. IInv => QuietScanIsExact
  <2> DEFINE n == IF limit # NoLimit /\ limit < meta THEN limit ELSE meta
  <2> SUFFICES ASSUME IInv, Scanned, quiet
               PROVE  ~failed /\ result = [i \in 1 .. n |-> WholeRow(i)]
    BY DEF QuietScanIsExact
  <2>1. ~byIndex /\ pc = "done" /\ DOMAIN result = 1 .. Len(result) /\ Due = meta
    BY OutLength DEF Scanned, Due
  <2>2. ~failed /\ Len(result) = n
    BY DEF IInv, ScanInv, ScanEnds
  <2>3. n \in Nat /\ n <= meta
    <3>1. limit \in Limits \cup {NoLimit} /\ meta \in Nat
      BY Numbers DEF IInv, TypeOK
    <3> QED
      BY <3>1, QueryAssumption
  <2>4. \A i \in 1 .. n : result[i] = WholeRow(i)
    BY <2>1, <2>2, <2>3, Numbers DEF IInv, ScanInv, RowsOut
  <2>5. result \in [1 .. n -> [Columns -> Nat]]
    BY <2>1, <2>2, LenProperties DEF IInv, Shapes
  <2> HIDE DEF n
  <2> QED
    BY <2>2, <2>4, <2>5
<1> QED
  BY <1>1, Invariance, PTL

\* A query through the indexes does not fail and returns whole rows of the
\* connection's store that match, each once and in order, however old the indexes
\* and the cached pages are.
THEOREM IndexQueriesAreSound == Spec => []IndexQueryIsSound
<1>1. IInv => IndexQueryIsSound
  <2> SUFFICES ASSUME IInv, pc = "done", byIndex
               PROVE  /\ ~failed
                      /\ \A i \in DOMAIN result :
                           \E r \in Matching \cap 1 .. rows : result[i] = WholeRow(r)
                      /\ \A i, j \in DOMAIN result : i < j => result[i][1] < result[j][1]
    BY DEF IndexQueryIsSound
  <2>1. ~failed /\ result = Fetched(NumColumns)
    BY DEF IInv, IndexProgress
  <2>2. /\ DOMAIN result = DOMAIN Candidates
        /\ \A i \in DOMAIN result : result[i] = WholeRow(Candidates[i])
    BY <2>1 DEF Fetched, WholeRow, Columns
  <2>3. \A i \in DOMAIN result : Candidates[i] \in Matching \cap 1 .. rows
    <3>1. loaded <= rows
      BY DEF IInv, Phases
    <3>2. \A r \in Matching : r \in Nat /\ r >= 1
      BY QueryAssumption, RowsAssumption
    <3> QED
      BY <2>2, <3>1, <3>2, CandidateRows, Numbers
  <2>4. \A i \in DOMAIN result : result[i][1] = Candidates[i]
    BY <2>2, FirstColumn DEF WholeRow
  <2> QED
    BY <2>1, <2>2, <2>3, <2>4, CandidateRows, Numbers
<1> QED
  BY <1>1, Invariance, PTL
===============================================================================
