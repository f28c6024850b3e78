--------------------------- MODULE ColumnStoreProofs ---------------------------
(***************************************************************************)
(* For any number of columns, rows and crashes: the types, that meta.json  *)
(* never promises a row that a power failure could take away, that a store *)
(* a reader has opened has every row it was told of in every column, and   *)
(* that without crashes it holds the appended rows, in order.              *)
(***************************************************************************)
EXTENDS ColumnStore, SequenceTheorems, TLAPS

\* How far a flush has come.  What the writer believes is synced is; while it
\* writes, the columns before the cursor are synced with the whole batch and
\* the column at the cursor holds what it has written.  Outside a flush the
\* cursor is at the start.
FlushProgress ==
  /\ wpc # "down" => \A c \in Columns : rowCount <= synced[c]
  /\ wpc = "write" =>
       /\ \A c \in Columns : c < column => rowCount + Len(buffer) <= synced[c]
       /\ rowCount + wrote <= Len(file[column])
  /\ wpc # "write" => column = 1 /\ wrote = 0

\* A reader that is still checking has a column left to check.
CheckProgress == rpc = "checking" => checked < NumColumns

IInv == TypeOK /\ MetaNeverAhead /\ FlushProgress /\ CheckProgress

Rows == 1 .. MaxRows

-------------------------------------------------------------------------------
(* What is taken from the library about sequences of rows.                   *)

LEMMA NoRows == <<>> \in Seq(Rows) /\ Len(<<>>) = 0
BY EmptySeq

LEMMA FirstColumn == 1 \in Columns
BY ColumnsAssumption DEF Columns

\* The length of a sequence of rows is a natural number.
LEMMA LenIsNat == ASSUME NEW s \in Seq(Rows) PROVE Len(s) \in Nat
BY LenProperties

\* Writing the piece from i + 1 to k of a batch makes a file k - i rows longer.
LEMMA PieceExtends ==
  ASSUME NEW f \in Seq(Rows), NEW b \in Seq(Rows), NEW i \in Nat,
         NEW k \in i + 1 .. Len(b)
  PROVE  /\ f \o SubSeq(b, i + 1, k) \in Seq(Rows)
         /\ Len(f \o SubSeq(b, i + 1, k)) = Len(f) + (k - i)
<1>1. Len(b) \in Nat /\ Len(f) \in Nat
  BY LenIsNat
<1>2. k \in Int /\ i + 1 \in Int /\ i + 1 <= k
  BY <1>1
<1>3. \A j \in i + 1 .. k : b[j] \in Rows
  BY <1>1, <1>2, ElementOfSeq
<1>4. SubSeq(b, i + 1, k) \in Seq(Rows) /\ Len(SubSeq(b, i + 1, k)) = k - i
  BY <1>2, <1>3, SubSeqProperties
<1> QED
  BY <1>1, <1>2, <1>4, ConcatProperties

\* A power failure that keeps the first n rows of a file leaves n rows.
LEMMA KeptPart ==
  ASSUME NEW f \in Seq(Rows), NEW n \in 0 .. Len(f)
  PROVE  SubSeq(f, 1, n) \in Seq(Rows) /\ Len(SubSeq(f, 1, n)) = n
<1>1. Len(f) \in Nat
  BY LenIsNat
<1>2. \A j \in 1 .. n : f[j] \in Rows
  BY <1>1, ElementOfSeq
<1> QED
  BY <1>1, <1>2, SubSeqProperties

-------------------------------------------------------------------------------

LEMMA InitIInv == Init => IInv
<1> SUFFICES ASSUME Init PROVE IInv
  OBVIOUS
<1>1. /\ file \in [Columns -> Seq(1 .. MaxRows)]
      /\ \A c \in Columns : Len(file[c]) = 0
      /\ buffer \in Seq(1 .. MaxRows) /\ Len(buffer) = 0
  BY NoRows DEF Init, Rows
<1>2. synced \in [Columns -> Nat] /\ \A c \in Columns : synced[c] = 0
  BY DEF Init
<1>3. meta \in metas /\ metas \subseteq Nat \cup {Absent, Empty}
  BY DEF Init
<1>4a. closing \in BOOLEAN
  BY Zenon DEF Init
<1>4. /\ wpc \in WriterStates /\ rowCount \in Nat
      /\ wrote = 0 /\ appended \in 0 .. MaxRows /\ crashes \in 0 .. MaxCrashes
      /\ rpc \in {"idle", "checking", "open"} /\ rows \in Nat
      /\ checked \in 0 .. NumColumns
  BY ColumnsAssumption, BoundsAssumption DEF Init, WriterStates
<1>5. column \in Columns
  BY FirstColumn DEF Init
<1>6. TypeOK
  BY <1>1, <1>2, <1>3, <1>4a, <1>4, <1>5 DEF TypeOK
<1>7. MetaNeverAhead /\ FlushProgress /\ CheckProgress
  BY DEF Init, MetaNeverAhead, FlushProgress, CheckProgress, Absent
<1> QED
  BY <1>6, <1>7 DEF IInv

-------------------------------------------------------------------------------
(* One lemma per action of the writer, of a crash and of the reader.         *)

LEMMA StartKeeps == IInv /\ Start => IInv'
<1> SUFFICES ASSUME IInv, Start PROVE IInv'
  OBVIOUS
<1>1. rowCount' \in Nat /\ \A c \in Columns : rowCount' <= synced[c]
  BY DEF IInv, TypeOK, MetaNeverAhead, Start, StartsAt, Absent, Empty
<1>2. UNCHANGED <<file, synced, meta, metas, appended, crashes, rpc, rows, checked>>
  BY DEF Start, disk, reader
<1>3. /\ wpc' \in WriterStates /\ wpc' = "truncateMeta"
      /\ column' \in Columns /\ column' = 1 /\ wrote' = 0
  BY FirstColumn DEF Start, WriterStates
<1>4. buffer' \in Seq(1 .. MaxRows) /\ Len(buffer') = 0
  BY NoRows DEF Start, Rows
<1>5. closing' \in BOOLEAN
  BY Zenon DEF Start
<1>6. TypeOK'
  BY <1>1, <1>2, <1>3, <1>4, <1>5 DEF IInv, TypeOK
<1>7. MetaNeverAhead' /\ FlushProgress' /\ CheckProgress'
  BY <1>1, <1>2, <1>3 DEF IInv, MetaNeverAhead, FlushProgress, CheckProgress
<1> QED
  BY <1>6, <1>7 DEF IInv

LEMMA TruncateMetaKeeps == IInv /\ TruncateMeta => IInv'
<1> SUFFICES ASSUME IInv, TruncateMeta PROVE IInv'
  OBVIOUS
<1>1. UNCHANGED <<file, synced, rowCount, buffer, column, wrote, closing, appended,
                  crashes, rpc, rows, checked>>
  BY DEF TruncateMeta, reader
<1>2. wpc' \in WriterStates /\ wpc = "truncateMeta" /\ wpc' = "writeMeta"
  BY DEF TruncateMeta, WriterStates
<1>3. meta' \in metas' /\ metas' \subseteq Nat \cup {Absent, Empty}
  BY DEF IInv, TypeOK, TruncateMeta
<1>4. TypeOK'
  BY <1>1, <1>2, <1>3 DEF IInv, TypeOK
<1>5. MetaNeverAhead'
  BY DEF IInv, TypeOK, MetaNeverAhead, TruncateMeta, Empty
<1>6. FlushProgress' /\ CheckProgress'
  BY <1>1, <1>2 DEF IInv, FlushProgress, CheckProgress
<1> QED
  BY <1>4, <1>5, <1>6 DEF IInv

\* The new row count is one the writer knows to be synced.
LEMMA WriteMetaKeeps == IInv /\ WriteMeta => IInv'
<1> SUFFICES ASSUME IInv, WriteMeta PROVE IInv'
  OBVIOUS
<1>1. UNCHANGED <<file, synced, rowCount, buffer, column, wrote, closing, appended,
                  crashes, rpc, rows, checked>>
  BY DEF WriteMeta, reader
<1>2. wpc' \in WriterStates /\ wpc = "writeMeta" /\ wpc' \in {"down", "ready"}
  BY DEF WriteMeta, WriterStates
<1>3. meta' \in metas' /\ metas' \subseteq Nat \cup {Absent, Empty}
  BY DEF IInv, TypeOK, WriteMeta
<1>4. TypeOK'
  BY <1>1, <1>2, <1>3 DEF IInv, TypeOK
<1>5. MetaNeverAhead'
  BY DEF IInv, TypeOK, MetaNeverAhead, FlushProgress, WriteMeta
<1>6. FlushProgress' /\ CheckProgress'
  BY <1>1, <1>2 DEF IInv, FlushProgress, CheckProgress
<1> QED
  BY <1>4, <1>5, <1>6 DEF IInv

LEMMA AppendRowKeeps == IInv /\ AppendRow => IInv'
<1> SUFFICES ASSUME IInv, AppendRow PROVE IInv'
  OBVIOUS
<1>1. UNCHANGED <<file, synced, meta, metas, rowCount, column, wrote, closing, crashes,
                  rpc, rows, checked>>
  BY DEF AppendRow, disk, reader
<1>2. wpc' \in WriterStates /\ wpc = "ready" /\ wpc' \in {"ready", "write"}
  BY DEF AppendRow, WriterStates
<1>3. appended + 1 \in Rows /\ appended' \in 0 .. MaxRows
  BY BoundsAssumption DEF IInv, TypeOK, AppendRow, Rows
<1>4. buffer' \in Seq(1 .. MaxRows) /\ Len(buffer') = Len(buffer) + 1
  BY <1>3, AppendProperties DEF IInv, TypeOK, AppendRow, Rows
<1>5. column = 1 /\ wrote = 0 /\ Len(buffer) \in Nat
  BY <1>2, LenIsNat DEF IInv, TypeOK, FlushProgress, Rows
<1>6. TypeOK'
  BY <1>1, <1>2, <1>3, <1>4, <1>5 DEF IInv, TypeOK
<1>7. MetaNeverAhead' /\ CheckProgress'
  BY <1>1 DEF IInv, MetaNeverAhead, CheckProgress
<1>8. /\ \A c \in Columns : rowCount <= synced[c] /\ synced[c] \in Nat
      /\ 1 \in Columns /\ rowCount \in Nat
      /\ synced[1] <= Len(file[1]) /\ Len(file[1]) \in Nat
  BY <1>2, FirstColumn, LenIsNat DEF IInv, TypeOK, FlushProgress, Rows
<1>9. FlushProgress'
  BY <1>1, <1>2, <1>5, <1>8 DEF FlushProgress, Columns
<1> QED
  BY <1>6, <1>7, <1>9 DEF IInv

LEMMA WritePieceKeeps == IInv /\ WritePiece => IInv'
<1> SUFFICES ASSUME IInv, WritePiece PROVE IInv'
  OBVIOUS
<1>1. UNCHANGED <<synced, meta, metas, wpc, rowCount, buffer, column, closing, appended,
                  crashes, rpc, rows, checked>>
  BY DEF WritePiece, reader
<1>2. PICK k \in wrote + 1 .. Len(buffer) :
        /\ file' = [file EXCEPT ![column] = @ \o SubSeq(buffer, wrote + 1, k)]
        /\ wrote' = k
  BY DEF WritePiece
<1>3. /\ wpc = "write" /\ column \in Columns /\ wrote \in Nat /\ buffer \in Seq(Rows)
      /\ Len(buffer) \in Nat /\ file \in [Columns -> Seq(Rows)]
  BY LenIsNat DEF IInv, TypeOK, WritePiece, Rows
<1> DEFINE longer == file[column] \o SubSeq(buffer, wrote + 1, k)
<1>4. longer \in Seq(Rows) /\ Len(longer) = Len(file[column]) + (k - wrote)
  BY <1>3, PieceExtends
<1>5. /\ file' = [file EXCEPT ![column] = longer]
      /\ file' \in [Columns -> Seq(Rows)]
      /\ file'[column] = longer
      /\ \A c \in Columns : c # column => file'[c] = file[c]
  <2>1. file' = [file EXCEPT ![column] = longer]
    BY <1>2
  <2> HIDE DEF longer
  <2> QED
    BY <2>1, <1>3, <1>4
<1> HIDE DEF longer
<1>6. /\ k \in Int /\ wrote + 1 <= k /\ k <= Len(buffer)
      /\ \A c \in Columns : Len(file[c]) \in Nat /\ synced[c] \in Nat
                           /\ synced[c] <= Len(file[c])
      /\ rowCount \in Nat /\ rowCount + wrote <= Len(file[column])
  BY <1>3, LenIsNat DEF IInv, TypeOK, FlushProgress
<1>7. \A c \in Columns : synced[c] <= Len(file'[c])
  BY <1>3, <1>4, <1>5, <1>6
<1>8. wrote' \in 0 .. Len(buffer)
  BY <1>2, <1>3, <1>6
<1>9. TypeOK'
  BY <1>1, <1>5, <1>7, <1>8 DEF IInv, TypeOK, Rows
<1>10. MetaNeverAhead' /\ CheckProgress'
  BY <1>1 DEF IInv, MetaNeverAhead, CheckProgress
<1>11. rowCount + wrote' <= Len(file'[column])
  BY <1>2, <1>3, <1>4, <1>5, <1>6
<1>12. FlushProgress'
  BY <1>1, <1>3, <1>11 DEF IInv, FlushProgress
<1> QED
  BY <1>9, <1>10, <1>12 DEF IInv

\* After the last column the whole batch is synced in every column, and that
\* is when the writer counts it.
LEMMA SyncColumnKeeps == IInv /\ SyncColumn => IInv'
<1> SUFFICES ASSUME IInv, SyncColumn PROVE IInv'
  OBVIOUS
<1>1. UNCHANGED <<file, meta, metas, closing, appended, crashes, rpc, rows, checked>>
  BY DEF SyncColumn, reader
<1>2. /\ wpc = "write" /\ column \in Columns /\ column \in 1 .. NumColumns
      /\ wrote = Len(buffer) /\ wrote' = 0
      /\ Len(buffer) \in Nat /\ rowCount \in Nat /\ synced \in [Columns -> Nat]
      /\ buffer \in Seq(Rows)
  BY LenIsNat DEF IInv, TypeOK, SyncColumn, Rewound, Columns, Rows
<1>3. \A c \in Columns : Len(file[c]) \in Nat /\ synced[c] <= Len(file[c])
  BY LenIsNat DEF IInv, TypeOK, Rows
<1>4. synced' = [synced EXCEPT ![column] = Len(file[column])]
  BY DEF SyncColumn, Fsync
<1>5. /\ synced' \in [Columns -> Nat]
      /\ synced'[column] = Len(file[column])
      /\ \A c \in Columns : c # column => synced'[c] = synced[c]
  BY <1>2, <1>3, <1>4
<1>6. \A c \in Columns : synced[c] <= synced'[c] /\ synced'[c] <= Len(file[c])
  BY <1>2, <1>3, <1>5
<1>7. /\ \A c \in Columns : rowCount <= synced[c]
      /\ \A c \in Columns : c < column => rowCount + Len(buffer) <= synced[c]
      /\ rowCount + Len(buffer) <= Len(file[column])
  BY <1>2 DEF IInv, FlushProgress
<1>8. \A c \in Columns : c <= column => rowCount + Len(buffer) <= synced'[c]
  <2> TAKE c \in Columns
  <2>1. CASE c = column
    BY <2>1, <1>5, <1>7
  <2>2. CASE c # column
    BY <2>2, <1>2, <1>5, <1>7 DEF Columns
  <2> QED
    BY <2>1, <2>2
<1>9. MetaNeverAhead'
  <2> SUFFICES ASSUME NEW m \in metas, NEW c \in Columns PROVE m <= synced'[c]
    BY <1>1 DEF MetaNeverAhead
  <2>1. m <= synced[c] /\ m \in Int
    BY DEF IInv, TypeOK, MetaNeverAhead, Absent, Empty
  <2> QED
    BY <2>1, <1>2, <1>5, <1>6
<1>10. CheckProgress'
  BY <1>1 DEF IInv, CheckProgress
<1>11. CASE column < NumColumns
  <2>1. column' = column + 1 /\ UNCHANGED <<wpc, rowCount, buffer>>
    BY <1>11 DEF SyncColumn
  <2>2. column' \in Columns
    BY <2>1, <1>2, <1>11, ColumnsAssumption DEF Columns
  <2>3. TypeOK'
    BY <1>1, <1>2, <1>5, <1>6, <2>1, <2>2 DEF IInv, TypeOK, Rows
  <2>4. \A c \in Columns : rowCount <= synced'[c]
    BY <1>2, <1>5, <1>6, <1>7
  <2>5. \A c \in Columns : c < column' => rowCount + Len(buffer) <= synced'[c]
    BY <1>2, <1>8, <2>1 DEF Columns
  <2>6. rowCount + wrote' <= Len(file[column'])
    BY <1>2, <1>3, <1>7, <2>2
  <2>7. FlushProgress'
    BY <1>1, <1>2, <2>1, <2>4, <2>5, <2>6 DEF FlushProgress
  <2> QED
    BY <2>3, <2>7, <1>9, <1>10 DEF IInv
<1>12. CASE ~(column < NumColumns)
  <2>1. /\ column' = 1 /\ rowCount' = rowCount + Len(buffer)
        /\ buffer' = <<>> /\ wpc' = "truncateMeta"
    BY <1>12 DEF SyncColumn
  <2>2. rowCount' \in Nat /\ wpc' \in WriterStates /\ column' \in Columns
    BY <1>2, <2>1, FirstColumn DEF WriterStates
  <2>3. buffer' \in Seq(Rows) /\ Len(buffer') = 0
    BY <2>1, NoRows
  <2>4. TypeOK'
    BY <1>1, <1>2, <1>5, <1>6, <2>2, <2>3 DEF IInv, TypeOK, Rows
  <2>5. \A c \in Columns : rowCount' <= synced'[c]
    BY <1>2, <1>8, <1>12, <2>1, ColumnsAssumption DEF Columns
  <2>6. FlushProgress'
    BY <1>2, <2>1, <2>5 DEF FlushProgress
  <2> QED
    BY <2>4, <2>6, <1>9, <1>10 DEF IInv
<1> QED
  BY <1>11, <1>12

LEMMA CloseKeeps == IInv /\ Close => IInv'
<1> SUFFICES ASSUME IInv, Close PROVE IInv'
  OBVIOUS
<1>1. UNCHANGED <<file, synced, meta, metas, rowCount, buffer, column, wrote, appended,
                  crashes, rpc, rows, checked>>
  BY DEF Close, disk, reader
<1>2. wpc' \in WriterStates /\ wpc = "ready" /\ wpc' \in {"down", "write"}
  BY DEF Close, WriterStates
<1>3. closing' \in BOOLEAN
  BY Zenon DEF Close
<1>4. TypeOK'
  BY <1>1, <1>2, <1>3 DEF IInv, TypeOK
<1>5. MetaNeverAhead' /\ CheckProgress'
  BY <1>1 DEF IInv, MetaNeverAhead, CheckProgress
<1>6. column = 1 /\ wrote = 0
  BY <1>2 DEF IInv, FlushProgress
<1>7. /\ \A c \in Columns : rowCount <= synced[c] /\ synced[c] \in Nat
      /\ 1 \in Columns /\ rowCount \in Nat
      /\ synced[1] <= Len(file[1]) /\ Len(file[1]) \in Nat
  BY <1>2, FirstColumn, LenIsNat DEF IInv, TypeOK, FlushProgress, Rows
<1>8. FlushProgress'
  BY <1>1, <1>2, <1>6, <1>7 DEF FlushProgress, Columns
<1> QED
  BY <1>4, <1>5, <1>8 DEF IInv

LEMMA ForgetMemoryTypes ==
  ForgetMemory => /\ wpc' \in WriterStates /\ wpc' = "down" /\ rowCount' \in Nat
                  /\ buffer' \in Seq(Rows) /\ Len(buffer') = 0
                  /\ column' \in Columns /\ column' = 1 /\ wrote' = 0
                  /\ closing' \in BOOLEAN
<1> SUFFICES ASSUME ForgetMemory PROVE
      /\ wpc' \in WriterStates /\ wpc' = "down" /\ rowCount' \in Nat
      /\ buffer' \in Seq(Rows) /\ Len(buffer') = 0
      /\ column' \in Columns /\ column' = 1 /\ wrote' = 0
      /\ closing' \in BOOLEAN
  OBVIOUS
<1>1. closing' \in BOOLEAN
  BY Zenon DEF ForgetMemory
<1>2. buffer' \in Seq(Rows) /\ Len(buffer') = 0
  BY NoRows DEF ForgetMemory
<1>3. /\ wpc' \in WriterStates /\ wpc' = "down" /\ rowCount' \in Nat
      /\ column' \in Columns /\ column' = 1 /\ wrote' = 0
  BY FirstColumn DEF ForgetMemory, WriterStates
<1> QED
  BY <1>1, <1>2, <1>3

LEMMA KillKeeps == IInv /\ Kill => IInv'
<1> SUFFICES ASSUME IInv, Kill PROVE IInv'
  OBVIOUS
<1>1. UNCHANGED <<file, synced, meta, metas, appended, rpc, rows, checked>>
  BY DEF Kill, disk, reader
<1>2. /\ wpc' \in WriterStates /\ wpc' = "down" /\ rowCount' \in Nat
      /\ buffer' \in Seq(Rows) /\ Len(buffer') = 0
      /\ column' \in Columns /\ column' = 1 /\ wrote' = 0 /\ closing' \in BOOLEAN
  BY ForgetMemoryTypes DEF Kill
<1>3. crashes' \in 0 .. MaxCrashes
  BY BoundsAssumption DEF IInv, TypeOK, Kill
<1>4. TypeOK'
  BY <1>1, <1>2, <1>3 DEF IInv, TypeOK, Rows
<1>5. MetaNeverAhead' /\ CheckProgress'
  BY <1>1 DEF IInv, MetaNeverAhead, CheckProgress
<1>6. FlushProgress'
  BY <1>2 DEF FlushProgress
<1> QED
  BY <1>4, <1>5, <1>6 DEF IInv

\* What a file keeps is at least what was synced, and the meta.json that comes
\* back is one that promised no more than that.
LEMMA PowerFailsKeeps == IInv /\ PowerFails => IInv'
<1> SUFFICES ASSUME IInv, PowerFails PROVE IInv'
  OBVIOUS
<1>1. PICK kept \in [Columns -> 0 .. MaxRows], m \in metas :
        /\ \A c \in Columns : kept[c] \in synced[c] .. Len(file[c])
        /\ file' = [c \in Columns |-> SubSeq(file[c], 1, kept[c])]
        /\ synced' = kept
        /\ meta' = m
        /\ metas' = {m}
  BY DEF PowerFails
<1>2. /\ wpc' \in WriterStates /\ wpc' = "down" /\ rowCount' \in Nat
      /\ buffer' \in Seq(Rows) /\ Len(buffer') = 0
      /\ column' \in Columns /\ column' = 1 /\ wrote' = 0 /\ closing' \in BOOLEAN
  BY ForgetMemoryTypes DEF PowerFails
<1>3. /\ crashes' \in 0 .. MaxCrashes /\ rpc' = "idle"
      /\ UNCHANGED <<appended, rows, checked>>
  BY BoundsAssumption DEF IInv, TypeOK, PowerFails
<1>4. \A c \in Columns : /\ file[c] \in Seq(Rows) /\ synced[c] \in Nat
                         /\ Len(file[c]) \in Nat /\ m <= synced[c]
  BY LenIsNat DEF IInv, TypeOK, MetaNeverAhead, Rows
<1>5. m \in Int /\ metas' \subseteq Nat \cup {Absent, Empty} /\ meta' \in metas'
  BY <1>1 DEF IInv, TypeOK, Absent, Empty
<1>6. \A c \in Columns : /\ kept[c] \in 0 .. Len(file[c]) /\ synced[c] <= kept[c]
  BY <1>1, <1>4
<1>7. \A c \in Columns : /\ SubSeq(file[c], 1, kept[c]) \in Seq(Rows)
                         /\ Len(SubSeq(file[c], 1, kept[c])) = kept[c]
  BY <1>4, <1>6, KeptPart
<1>8. /\ file' \in [Columns -> Seq(Rows)]
      /\ \A c \in Columns : Len(file'[c]) = synced'[c]
  BY <1>1, <1>7
<1>9. synced' \in [Columns -> Nat]
  BY <1>1, BoundsAssumption
<1>9a. /\ \A c \in Columns : synced'[c] <= Len(file'[c])
       /\ wrote' \in 0 .. Len(buffer')
  BY <1>2, <1>8, <1>9
<1>9b. /\ appended' \in 0 .. MaxRows
       /\ rpc' \in {"idle", "checking", "open"} /\ rows' \in Nat
       /\ checked' \in 0 .. NumColumns
  BY <1>3 DEF IInv, TypeOK
<1>10. TypeOK'
  BY <1>2, <1>3, <1>5, <1>8, <1>9, <1>9a, <1>9b DEF TypeOK, Rows
<1>11. MetaNeverAhead'
  BY <1>1, <1>4, <1>5, <1>6 DEF MetaNeverAhead
<1>12. FlushProgress' /\ CheckProgress'
  BY <1>2, <1>3 DEF FlushProgress, CheckProgress
<1> QED
  BY <1>10, <1>11, <1>12 DEF IInv

LEMMA ReaderKeeps == IInv /\ (ReadMeta \/ CheckColumn \/ CloseReader) => IInv'
<1> SUFFICES ASSUME IInv, ReadMeta \/ CheckColumn \/ CloseReader PROVE IInv'
  OBVIOUS
<1>1. /\ UNCHANGED <<file, synced, meta, metas, wpc, rowCount, buffer, column, wrote>>
      /\ UNCHANGED <<closing, appended, crashes>>
  BY DEF ReadMeta, CheckColumn, CloseReader, disk, writer
<1>2. /\ rpc' \in {"idle", "checking", "open"} /\ rows' \in Nat
      /\ checked' \in 0 .. NumColumns /\ CheckProgress'
  <2>1. CASE ReadMeta
    BY <2>1, ColumnsAssumption
       DEF IInv, TypeOK, CheckProgress, ReadMeta, Absent, Empty
  <2>2. CASE CheckColumn
    BY <2>2, ColumnsAssumption DEF IInv, TypeOK, CheckProgress, CheckColumn
  <2>3. CASE CloseReader
    BY <2>3 DEF IInv, TypeOK, CheckProgress, CloseReader
  <2> QED
    BY <2>1, <2>2, <2>3
<1>3. TypeOK'
  BY <1>1, <1>2 DEF IInv, TypeOK
<1>4. MetaNeverAhead' /\ FlushProgress'
  BY <1>1 DEF IInv, MetaNeverAhead, FlushProgress
<1> QED
  BY <1>2, <1>3, <1>4 DEF IInv

LEMMA StutterKeeps == IInv /\ UNCHANGED vars => IInv'
BY DEF IInv, TypeOK, MetaNeverAhead, FlushProgress, CheckProgress, vars, disk, writer,
       reader

LEMMA StepIInv == IInv /\ [Next]_vars => IInv'
<1>1. StartFails \/ OpenFails => UNCHANGED vars
  BY DEF StartFails, OpenFails
<1> QED
  BY <1>1, StartKeeps, TruncateMetaKeeps, WriteMetaKeeps, AppendRowKeeps,
     WritePieceKeeps, SyncColumnKeeps, CloseKeeps, KillKeeps, PowerFailsKeeps,
     ReaderKeeps, StutterKeeps
     DEF Next

LEMMA Invariance == Spec => []IInv
BY InitIInv, StepIInv, PTL DEF Spec

\* Files, counters and cursors keep their types: in particular the cursor of a
\* flush stays inside the batch and among the columns.
THEOREM TypeCorrectness == Spec => []TypeOK
<1>1. IInv => TypeOK
  BY DEF IInv
<1> QED
  BY <1>1, Invariance, PTL

\* meta.json, as it is or as a power failure may bring it back, never counts a
\* row that is not on the medium in every column (flush syncs the columns
\* before it writes the count; an appending writer starts from that count).
THEOREM MetaIsOnTheMedium == Spec => []MetaNeverAhead
<1>1. IInv => MetaNeverAhead
  BY DEF IInv
<1> QED
  BY <1>1, Invariance, PTL

-------------------------------------------------------------------------------
(* That a store that opens is whole.  A flush writes the columns in order    *)
(* and syncs each before it turns to the next, so that a column is never     *)
(* longer than what is synced of those before it, and is the same as long as *)
(* it is no shorter -- whatever crashes have left out of line.               *)

\* The file g of a column, no longer than the n rows that are safe in the file
\* f of an earlier column, agrees with f unless it is shorter.
Follows(f, g, n) ==
  /\ Len(g) <= n
  /\ Len(g) = n => \A x \in 1 .. Len(g) : g[x] = f[x]

\* The same of g with rows i + 1 to k of batch b, which f has already.
Trails(f, g, n, b, i, k) ==
  /\ Len(g) + (k - i) <= n
  /\ Len(g) + (k - i) = n =>
       /\ \A x \in 1 .. Len(g) : g[x] = f[x]
       /\ \A j \in 1 .. k - i : f[Len(g) + j] = b[i + j]

InStep ==
  \A c, d \in Columns : c < d =>
    /\ Follows(file[c], file[d], synced[c])
    /\ wpc = "write" =>
         /\ c < column /\ column < d =>
              Trails(file[c], file[d], synced[c], buffer, 0, Len(buffer))
         /\ c < column /\ column = d =>
              Trails(file[c], file[d], synced[c], buffer, wrote, Len(buffer))
         /\ c = column =>
              Trails(file[c], file[d], Len(file[c]), buffer, 0, wrote)

\* A reader under way finds no file shorter than the row count it has read; once
\* it has checked the first column, the rows agree in all of them.
ReaderSafe ==
  /\ rpc # "idle" => \A c \in Columns : Len(file[c]) >= rows
  /\ rpc # "idle" /\ checked > 0 =>
       \A c \in Columns : \A i \in 1 .. rows : file[c][i] = file[1][i]
  /\ rpc = "open" => checked > 0

\* What a file holds after a piece of the batch has been written to it.
LEMMA PieceRows ==
  ASSUME NEW f \in Seq(Rows), NEW b \in Seq(Rows), NEW i \in Nat,
         NEW k \in i + 1 .. Len(b)
  PROVE  LET h == f \o SubSeq(b, i + 1, k)
         IN  /\ h \in Seq(Rows) /\ Len(h) = Len(f) + (k - i)
             /\ \A x \in 1 .. Len(f) : h[x] = f[x]
             /\ \A j \in 1 .. k - i : h[Len(f) + j] = b[i + j]
<1> DEFINE p == SubSeq(b, i + 1, k)
<1>1. Len(b) \in Nat /\ Len(f) \in Nat
  BY LenIsNat
<1>2. k \in Int /\ i + 1 \in Int /\ i + 1 <= k
  BY <1>1
<1>3. \A j \in i + 1 .. k : b[j] \in Rows
  BY <1>1, <1>2, ElementOfSeq
<1>4. /\ p \in Seq(Rows) /\ Len(p) = k - i
      /\ \A j \in 1 .. k - i : p[j] = b[i + j]
  <2>1. /\ p \in Seq(Rows) /\ Len(p) = k - (i + 1) + 1
        /\ \A j \in 1 .. k - (i + 1) + 1 : p[j] = b[(i + 1) + j - 1]
    BY <1>2, <1>3, SubSeqProperties
  <2>2. k - (i + 1) + 1 = k - i /\ \A j \in 1 .. k - i : (i + 1) + j - 1 = i + j
    BY <1>2
  <2> HIDE DEF p
  <2> QED
    BY <2>1, <2>2
<1> HIDE DEF p
<1>5. /\ f \o p \in Seq(Rows) /\ Len(f \o p) = Len(f) + Len(p)
      /\ \A x \in 1 .. Len(f) + Len(p) :
           (f \o p)[x] = IF x <= Len(f) THEN f[x] ELSE p[x - Len(f)]
  BY <1>4, ConcatProperties
<1> DEFINE h == f \o p
<1>6. h \in Seq(Rows) /\ Len(h) = Len(f) + (k - i)
  BY <1>4, <1>5
<1>7. ASSUME NEW x \in 1 .. Len(f) PROVE h[x] = f[x]
  <2>1. x \in 1 .. Len(f) + Len(p) /\ x <= Len(f)
    BY <1>1, <1>2, <1>4
  <2> QED
    BY <1>5, <2>1
<1>8. ASSUME NEW j \in 1 .. k - i PROVE h[Len(f) + j] = b[i + j]
  <2>1. /\ Len(f) + j \in 1 .. Len(f) + Len(p) /\ ~(Len(f) + j <= Len(f))
        /\ (Len(f) + j) - Len(f) = j
    BY <1>1, <1>2, <1>4
  <2>2. h[Len(f) + j] = p[j]
    BY <1>5, <2>1
  <2> QED
    BY <1>4, <2>2
<1> HIDE DEF h
<1> QED
  BY <1>6, <1>7, <1>8 DEF h, p

\* A file that trails follows.
LEMMA TrailsFollows ==
  ASSUME NEW f, NEW g \in Seq(Rows), NEW n \in Nat, NEW b, NEW i \in Nat, NEW k \in Nat,
         i <= k, Trails(f, g, n, b, i, k)
  PROVE  Follows(f, g, n)
<1>1. Len(g) \in Nat
  BY LenIsNat
<1>2. Len(g) <= n
  BY <1>1 DEF Trails
<1>3. ASSUME Len(g) = n PROVE \A x \in 1 .. Len(g) : g[x] = f[x]
  <2>1. Len(g) + (k - i) = n
    BY <1>1, <1>3 DEF Trails
  <2> QED
    BY <2>1 DEF Trails
<1> QED
  BY <1>2, <1>3 DEF Follows

\* More rows may be safe than those that were followed.
LEMMA FollowsMore ==
  ASSUME NEW f, NEW g \in Seq(Rows), NEW n \in Nat, NEW m \in Nat, n <= m,
         Follows(f, g, n)
  PROVE  /\ Follows(f, g, m)
         /\ \A b : Trails(f, g, m, b, 0, 0)
<1>1. Len(g) \in Nat
  BY LenIsNat
<1>2. Len(g) <= m
  BY <1>1 DEF Follows
<1>3. ASSUME Len(g) = m PROVE \A x \in 1 .. Len(g) : g[x] = f[x]
  <2>1. Len(g) = n
    BY <1>1, <1>3 DEF Follows
  <2> QED
    BY <2>1 DEF Follows
<1>4. Len(g) + (0 - 0) = Len(g) /\ 1 .. 0 - 0 = {}
  BY <1>1
<1> QED
  BY <1>2, <1>3, <1>4 DEF Follows, Trails

\* What an earlier column gains beyond its safe rows does not matter.
LEMMA FollowsLonger ==
  ASSUME NEW f \in Seq(Rows), NEW h, NEW g \in Seq(Rows), NEW n \in Nat, n <= Len(f),
         \A x \in 1 .. Len(f) : h[x] = f[x], Follows(f, g, n)
  PROVE  Follows(h, g, n)
<1>1. Len(g) \in Nat /\ Len(f) \in Nat
  BY LenIsNat
<1>2. ASSUME Len(g) = n, NEW x \in 1 .. Len(g) PROVE g[x] = h[x]
  <2>1. x \in 1 .. Len(f)
    BY <1>1, <1>2
  <2> QED
    BY <1>2, <2>1 DEF Follows
<1> QED
  BY <1>2 DEF Follows

\* The earlier column is written: it gets ahead by the piece.
LEMMA LeaderWrites ==
  ASSUME NEW f \in Seq(Rows), NEW g \in Seq(Rows), NEW b \in Seq(Rows), NEW i \in Nat,
         NEW k \in i + 1 .. Len(b), NEW h \in Seq(Rows), Len(h) = Len(f) + (k - i),
         \A x \in 1 .. Len(f) : h[x] = f[x],
         \A j \in 1 .. k - i : h[Len(f) + j] = b[i + j],
         Trails(f, g, Len(f), b, 0, i)
  PROVE  Trails(h, g, Len(h), b, 0, k)
<1>1. /\ Len(g) \in Nat /\ Len(f) \in Nat /\ Len(b) \in Nat /\ k \in Int /\ i < k
      /\ i - 0 = i /\ k - 0 = k
  BY LenIsNat
<1>2. Len(g) + i <= Len(f)
  BY <1>1 DEF Trails
<1>3. Len(g) + k <= Len(h)
  BY <1>1, <1>2
<1>4. ASSUME Len(g) + k = Len(h)
      PROVE  /\ \A x \in 1 .. Len(g) : g[x] = h[x]
             /\ \A j \in 1 .. k : h[Len(g) + j] = b[0 + j]
  <2>1. Len(g) + i = Len(f)
    BY <1>1, <1>2, <1>4
  <2>2. /\ \A x \in 1 .. Len(g) : g[x] = f[x]
        /\ \A j \in 1 .. i : f[Len(g) + j] = b[0 + j]
    BY <1>1, <2>1 DEF Trails
  <2>3. ASSUME NEW x \in 1 .. Len(g) PROVE g[x] = h[x]
    <3>1. x \in 1 .. Len(f)
      BY <1>1, <2>1
    <3>2. h[x] = f[x]
      BY <3>1
    <3> QED
      BY <2>2, <3>2
  <2>4. ASSUME NEW j \in 1 .. k PROVE h[Len(g) + j] = b[0 + j]
    <3>1. CASE j <= i
      <4>1. j \in 1 .. i /\ Len(g) + j \in 1 .. Len(f)
        BY <1>1, <2>1, <3>1
      <4>2. h[Len(g) + j] = f[Len(g) + j]
        BY <4>1
      <4>3. f[Len(g) + j] = b[0 + j]
        BY <2>2, <4>1
      <4> QED
        BY <4>2, <4>3
    <3>2. CASE ~(j <= i)
      <4>1. /\ j - i \in 1 .. k - i /\ Len(g) + j = Len(f) + (j - i)
            /\ i + (j - i) = j /\ 0 + j = j
        <5>1. j \in Int /\ i < j /\ j <= k
          BY <1>1, <3>2
        <5>2. j - i \in 1 .. k - i
          BY <1>1, <5>1
        <5>3. Len(g) + j = Len(f) + (j - i)
          BY <1>1, <2>1, <5>1, SMTT(60)
        <5> QED
          BY <5>1, <5>2, <5>3
      <4>2. h[Len(f) + (j - i)] = b[i + (j - i)]
        BY <4>1
      <4> QED
        BY <4>1, <4>2
    <3> QED
      BY <3>1, <3>2
  <2> QED
    BY <2>3, <2>4
<1> QED
  BY <1>1, <1>3, <1>4 DEF Trails

\* The later column is written: it catches up by the piece.
LEMMA FollowerWrites ==
  ASSUME NEW f, NEW n \in Nat, NEW g \in Seq(Rows), NEW b \in Seq(Rows), NEW i \in Nat,
         NEW k \in i + 1 .. Len(b), NEW h \in Seq(Rows), Len(h) = Len(g) + (k - i),
         \A x \in 1 .. Len(g) : h[x] = g[x],
         \A j \in 1 .. k - i : h[Len(g) + j] = b[i + j],
         Trails(f, g, n, b, i, Len(b))
  PROVE  Trails(f, h, n, b, k, Len(b))
<1> DEFINE L == Len(b)
<1>1. Len(g) \in Nat /\ L \in Nat /\ k \in Int /\ i < k /\ k <= L
  BY LenIsNat
<1> HIDE DEF L
<1>2. Len(h) + (L - k) = Len(g) + (L - i)
  BY <1>1
<1>3. Len(h) + (L - k) <= n
  BY <1>2 DEF Trails, L
<1>4. ASSUME Len(h) + (L - k) = n
      PROVE  /\ \A x \in 1 .. Len(h) : h[x] = f[x]
             /\ \A j \in 1 .. L - k : f[Len(h) + j] = b[k + j]
  <2>1. /\ \A x \in 1 .. Len(g) : g[x] = f[x]
        /\ \A j \in 1 .. L - i : f[Len(g) + j] = b[i + j]
    BY <1>2, <1>4 DEF Trails, L
  <2>2. ASSUME NEW x \in 1 .. Len(h) PROVE h[x] = f[x]
    <3>1. CASE x <= Len(g)
      <4>1. x \in 1 .. Len(g)
        BY <1>1, <3>1
      <4> QED
        BY <2>1, <4>1
    <3>2. CASE ~(x <= Len(g))
      <4>1. /\ x - Len(g) \in 1 .. k - i /\ x - Len(g) \in 1 .. L - i
            /\ Len(g) + (x - Len(g)) = x
        BY <1>1, <3>2
      <4>2. h[x] = b[i + (x - Len(g))]
        BY <4>1
      <4>3. f[x] = b[i + (x - Len(g))]
        BY <2>1, <4>1
      <4> QED
        BY <4>2, <4>3
    <3> QED
      BY <3>1, <3>2
  <2>3. ASSUME NEW j \in 1 .. L - k PROVE f[Len(h) + j] = b[k + j]
    <3>1. /\ (k - i) + j \in 1 .. L - i /\ Len(g) + ((k - i) + j) = Len(h) + j
          /\ i + ((k - i) + j) = k + j
      BY <1>1
    <3>2. f[Len(g) + ((k - i) + j)] = b[i + ((k - i) + j)]
      BY <2>1, <3>1
    <3> QED
      BY <3>1, <3>2
  <2> QED
    BY <2>2, <2>3
<1> QED
  BY <1>3, <1>4 DEF Trails, L

\* A power failure cuts a column to at least its safe rows.
LEMMA CutFollows ==
  ASSUME NEW f \in Seq(Rows), NEW g \in Seq(Rows), NEW n \in Nat, Follows(f, g, n),
         NEW p \in n .. Len(f), NEW q \in 0 .. Len(g)
  PROVE  Follows(SubSeq(f, 1, p), SubSeq(g, 1, q), p)
<1>1. Len(f) \in Nat /\ Len(g) \in Nat /\ Len(g) <= n /\ p \in 0 .. Len(f)
  BY LenIsNat DEF Follows
<1>2. Len(SubSeq(g, 1, q)) = q
  BY KeptPart
<1>3. q <= p
  BY <1>1
<1>4. ASSUME q = p, NEW x \in 1 .. q PROVE SubSeq(g, 1, q)[x] = SubSeq(f, 1, p)[x]
  <2>1. Len(g) = n /\ q = Len(g)
    BY <1>1, <1>4
  <2>2. g[x] = f[x]
    BY <1>4, <2>1 DEF Follows
  <2>3. SubSeq(g, 1, q)[x] = g[x] /\ SubSeq(f, 1, p)[x] = f[x]
    <3>1. /\ \A j \in 1 .. q : g[j] \in Rows
          /\ \A j \in 1 .. p : f[j] \in Rows
      BY <1>1, ElementOfSeq
    <3>2. /\ 1 \in Int /\ q \in Int /\ p \in Int /\ q - 1 + 1 = q /\ p - 1 + 1 = p
          /\ 1 + x - 1 = x /\ x \in 1 .. p
      BY <1>1, <1>4
    <3>3. SubSeq(g, 1, q)[x] = g[1 + x - 1]
      BY <3>1, <3>2, SubSeqProperties
    <3>4. SubSeq(f, 1, p)[x] = f[1 + x - 1]
      BY <3>1, <3>2, SubSeqProperties
    <3> QED
      BY <3>2, <3>3, <3>4
  <2> QED
    BY <2>2, <2>3
<1> QED
  BY <1>2, <1>3, <1>4 DEF Follows

-------------------------------------------------------------------------------

JInv == IInv /\ InStep /\ ReaderSafe

\* What the lemmas above need of the types.
LEMMA FileTypes ==
  ASSUME IInv
  PROVE  /\ file \in [Columns -> Seq(Rows)] /\ buffer \in Seq(Rows) /\ Len(buffer) \in Nat
         /\ column \in Columns /\ wrote \in Nat /\ wrote <= Len(buffer)
         /\ \A c \in Columns : /\ file[c] \in Seq(Rows) /\ Len(file[c]) \in Nat
                               /\ synced[c] \in Nat /\ synced[c] <= Len(file[c])
BY LenIsNat DEF IInv, TypeOK, Rows

\* Outside a flush the columns follow one another, whatever is left of it.
LEMMA Following ==
  ASSUME InStep, UNCHANGED <<file, synced>>, wpc' # "write"
  PROVE  InStep'
BY DEF InStep

\* A flush begins with the first column, and nothing written.
LEMMA FlushBegins ==
  ASSUME IInv, InStep, UNCHANGED <<file, synced>>, column' = 1, wrote' = 0
  PROVE  InStep'
<1>1. ASSUME NEW d \in Columns, 1 < d
      PROVE  Trails(file[1], file[d], Len(file[1]), buffer', 0, 0)
  <2>1. 1 \in Columns /\ Follows(file[1], file[d], synced[1])
    BY <1>1, FirstColumn DEF InStep
  <2> QED
    BY <2>1, FileTypes, FollowsMore
<1>2. \A c \in Columns : ~(c < 1)
  BY DEF Columns
<1> QED
  BY <1>1, <1>2 DEF InStep

LEMMA WritePieceInStep == ASSUME IInv, InStep, WritePiece PROVE InStep'
<1>1. UNCHANGED <<synced, wpc, buffer, column>> /\ wpc = "write"
  BY DEF WritePiece
<1>2. PICK k \in wrote + 1 .. Len(buffer) :
        /\ file' = [file EXCEPT ![column] = @ \o SubSeq(buffer, wrote + 1, k)]
        /\ wrote' = k
  BY DEF WritePiece
<1>3. /\ file \in [Columns -> Seq(Rows)] /\ buffer \in Seq(Rows) /\ Len(buffer) \in Nat
      /\ column \in Columns /\ wrote \in Nat /\ wrote <= Len(buffer)
      /\ \A c \in Columns : /\ file[c] \in Seq(Rows) /\ Len(file[c]) \in Nat
                            /\ synced[c] \in Nat /\ synced[c] <= Len(file[c])
  BY FileTypes
<1> DEFINE h == file[column] \o SubSeq(buffer, wrote + 1, k)
<1>4. /\ h \in Seq(Rows) /\ Len(h) = Len(file[column]) + (k - wrote)
      /\ \A x \in 1 .. Len(file[column]) : h[x] = file[column][x]
      /\ \A j \in 1 .. k - wrote : h[Len(file[column]) + j] = buffer[wrote + j]
  BY <1>3, PieceRows
<1>5. file' = [file EXCEPT ![column] = h]
  BY <1>2
<1> HIDE DEF h
<1>6. file'[column] = h /\ \A c \in Columns : c # column => file'[c] = file[c]
  BY <1>3, <1>5
<1>7. k \in Nat /\ k <= Len(buffer)
  BY <1>2, <1>3
<1> SUFFICES ASSUME NEW c \in Columns, NEW d \in Columns, c < d
             PROVE  /\ Follows(file'[c], file'[d], synced[c])
                    /\ c < column /\ column < d =>
                         Trails(file'[c], file'[d], synced[c], buffer, 0, Len(buffer))
                    /\ c < column /\ column = d =>
                         Trails(file'[c], file'[d], synced[c], buffer, k, Len(buffer))
                    /\ c = column =>
                         Trails(file'[c], file'[d], Len(file'[c]), buffer, 0, k)
  BY <1>1, <1>2 DEF InStep
<1>8. c \in Int /\ d \in Int /\ column \in Int /\ c # d
  BY <1>3 DEF Columns
<1>9. CASE c = column
  <2>1. file'[c] = h /\ file'[d] = file[d] /\ ~(c < column)
    BY <1>6, <1>8, <1>9
  <2>2. /\ Follows(file[column], file[d], synced[column])
        /\ Trails(file[column], file[d], Len(file[column]), buffer, 0, wrote)
    BY <1>1, <1>9 DEF InStep
  <2>3. Follows(h, file[d], synced[column])
    BY <1>3, <1>4, <2>2, FollowsLonger
  <2>4. Trails(h, file[d], Len(h), buffer, 0, k)
    BY <1>2, <1>3, <1>4, <2>2, LeaderWrites
  <2> QED
    BY <1>9, <2>1, <2>3, <2>4
<1>10. CASE d = column
  <2>1. file'[c] = file[c] /\ file'[d] = h /\ c < column /\ c # column /\ ~(column < d)
    BY <1>6, <1>8, <1>10
  <2>2. Trails(file[c], file[column], synced[c], buffer, wrote, Len(buffer))
    BY <1>1, <1>10 DEF InStep
  <2>3. Trails(file[c], h, synced[c], buffer, k, Len(buffer))
    BY <1>2, <1>3, <1>4, <2>2, FollowerWrites
  <2>4. Follows(file[c], h, synced[c])
    BY <1>3, <1>4, <1>7, <2>3, TrailsFollows
  <2> QED
    BY <1>10, <2>1, <2>3, <2>4
<1>11. CASE c # column /\ d # column
  <2>1. file'[c] = file[c] /\ file'[d] = file[d]
    BY <1>6, <1>11
  <2> QED
    BY <1>1, <1>11, <2>1 DEF InStep
<1> QED
  BY <1>9, <1>10, <1>11

\* The rows of the column are safe now, and the next columns have the batch
\* to catch up with; after the last column none has.
LEMMA SyncColumnInStep == ASSUME IInv, InStep, SyncColumn PROVE InStep'
<1>1. /\ wpc = "write" /\ wrote = Len(buffer) /\ wrote' = 0 /\ UNCHANGED file
      /\ synced' = [synced EXCEPT ![column] = Len(file[column])]
  BY DEF SyncColumn, Rewound, Fsync
<1>2. /\ file \in [Columns -> Seq(Rows)] /\ buffer \in Seq(Rows) /\ Len(buffer) \in Nat
      /\ column \in Columns /\ wrote \in Nat /\ wrote <= Len(buffer)
      /\ \A c \in Columns : /\ file[c] \in Seq(Rows) /\ Len(file[c]) \in Nat
                            /\ synced[c] \in Nat /\ synced[c] <= Len(file[c])
  BY FileTypes
<1>3. /\ synced'[column] = Len(file[column])
      /\ \A c \in Columns : c # column => synced'[c] = synced[c]
  BY <1>1, <1>2 DEF IInv, TypeOK
<1>4. ASSUME NEW c \in Columns, NEW d \in Columns, c < d
      PROVE  Follows(file[c], file[d], synced'[c])
  <2>1. Follows(file[c], file[d], synced[c])
    BY <1>4 DEF InStep
  <2>2. CASE c = column
    BY <1>2, <1>3, <2>1, <2>2, FollowsMore
  <2>3. CASE c # column
    BY <1>3, <2>1, <2>3
  <2> QED
    BY <2>2, <2>3
<1>5. CASE column < NumColumns
  <2>1. column' = column + 1 /\ UNCHANGED <<wpc, buffer>>
    BY <1>5 DEF SyncColumn
  <2> SUFFICES ASSUME NEW c \in Columns, NEW d \in Columns, c < d
               PROVE  /\ c < column' /\ column' <= d =>
                           Trails(file[c], file[d], synced'[c], buffer, 0, Len(buffer))
                      /\ c = column' =>
                           Trails(file[c], file[d], Len(file[c]), buffer, 0, 0)
    <3>1. \A d \in Columns : column' < d \/ column' = d => column' <= d
      BY <1>2, <2>1 DEF Columns
    <3> QED
      BY <1>1, <1>4, <2>1, <3>1 DEF InStep
  <2>2. c \in Int /\ d \in Int /\ column \in Int
    BY <1>2 DEF Columns
  <2>3. CASE c < column
    <3>1. c # column /\ c < column' /\ c # column' /\ (column' <= d => column < d)
      BY <2>1, <2>2, <2>3
    <3>2. column < d => Trails(file[c], file[d], synced[c], buffer, 0, Len(buffer))
      BY <1>1, <2>3 DEF InStep
    <3> QED
      BY <1>3, <3>1, <3>2
  <2>4. CASE c = column
    <3>1. c # column'
      BY <2>1, <2>2, <2>4
    <3>2. Trails(file[c], file[d], Len(file[c]), buffer, 0, Len(buffer))
      BY <1>1, <2>4 DEF InStep
    <3> QED
      BY <1>3, <2>4, <3>1, <3>2
  <2>5. CASE column < c
    <3>1. ~(c < column')
      BY <2>1, <2>2, <2>5
    <3>2. Follows(file[c], file[d], synced[c])
      BY DEF InStep
    <3>3. Trails(file[c], file[d], Len(file[c]), buffer, 0, 0)
      BY <1>2, <3>2, FollowsMore
    <3> QED
      BY <3>1, <3>3
  <2> QED
    BY <2>2, <2>3, <2>4, <2>5
<1>6. CASE ~(column < NumColumns)
  <2>1. wpc' = "truncateMeta"
    BY <1>6 DEF SyncColumn
  <2> QED
    BY <1>1, <1>4, <2>1 DEF InStep
<1> QED
  BY <1>5, <1>6

LEMMA PowerFailsInStep == ASSUME IInv, InStep, PowerFails PROVE InStep'
<1>1. PICK kept \in [Columns -> 0 .. MaxRows], m \in metas :
        /\ \A c \in Columns : kept[c] \in synced[c] .. Len(file[c])
        /\ file' = [c \in Columns |-> SubSeq(file[c], 1, kept[c])]
        /\ synced' = kept
        /\ meta' = m
        /\ metas' = {m}
  BY DEF PowerFails
<1>2. \A c \in Columns : /\ file[c] \in Seq(Rows) /\ Len(file[c]) \in Nat
                         /\ synced[c] \in Nat /\ synced[c] <= Len(file[c])
  BY FileTypes
<1>3. wpc' = "down"
  BY DEF PowerFails, ForgetMemory
<1>4. ASSUME NEW c \in Columns, NEW d \in Columns, c < d
      PROVE  Follows(file'[c], file'[d], synced'[c])
  <2>1. Follows(file[c], file[d], synced[c])
    BY <1>4 DEF InStep
  <2>2. kept[c] \in synced[c] .. Len(file[c]) /\ kept[d] \in 0 .. Len(file[d])
    BY <1>1, <1>2
  <2>3. Follows(SubSeq(file[c], 1, kept[c]), SubSeq(file[d], 1, kept[d]), kept[c])
    BY <1>2, <2>1, <2>2, CutFollows
  <2> QED
    BY <1>1, <2>3
<1> QED
  BY <1>3, <1>4 DEF InStep

LEMMA StepInStep == IInv /\ InStep /\ [Next]_vars => InStep'
<1> SUFFICES ASSUME IInv, InStep, [Next]_vars PROVE InStep'
  OBVIOUS
<1>1. CASE Start \/ TruncateMeta \/ WriteMeta \/ Kill
  <2>1. UNCHANGED <<file, synced>> /\ wpc' # "write"
    BY <1>1 DEF Start, TruncateMeta, WriteMeta, Kill, ForgetMemory, disk
  <2> QED
    BY <2>1, Following
<1>2. CASE AppendRow \/ Close
  <2>1. wpc = "ready" /\ UNCHANGED <<file, synced, column, wrote>>
    BY <1>2 DEF AppendRow, Close, disk
  <2>2. column = 1 /\ wrote = 0
    BY <2>1 DEF IInv, FlushProgress
  <2> QED
    BY <2>1, <2>2, FlushBegins
<1>3. CASE ReadMeta \/ CheckColumn \/ CloseReader \/ StartFails \/ OpenFails \/ UNCHANGED vars
  <2>1. UNCHANGED <<file, synced, wpc, buffer, column, wrote>>
    BY <1>3 DEF ReadMeta, CheckColumn, CloseReader, StartFails, OpenFails, vars, disk, writer
  <2> QED
    BY <2>1 DEF InStep
<1> QED
  BY <1>1, <1>2, <1>3, WritePieceInStep, SyncColumnInStep, PowerFailsInStep DEF Next

\* A file only grows while a reader is at work: a power failure ends it too.
LEMMA FilesGrow ==
  ASSUME IInv, UNCHANGED file \/ WritePiece, NEW c \in Columns
  PROVE  /\ Len(file'[c]) \in Nat /\ Len(file[c]) \in Nat /\ Len(file'[c]) >= Len(file[c])
         /\ \A x \in 1 .. Len(file[c]) : file'[c][x] = file[c][x]
<1>1. Len(file[c]) \in Nat
  BY FileTypes
<1>2. CASE UNCHANGED file
  BY <1>1, <1>2
<1>3. CASE WritePiece
  <2>1. PICK k \in wrote + 1 .. Len(buffer) :
          file' = [file EXCEPT ![column] = @ \o SubSeq(buffer, wrote + 1, k)]
    BY <1>3 DEF WritePiece
  <2>2. /\ file \in [Columns -> Seq(Rows)] /\ buffer \in Seq(Rows) /\ column \in Columns
        /\ wrote \in Nat /\ Len(buffer) \in Nat
        /\ file[column] \in Seq(Rows) /\ Len(file[column]) \in Nat
    BY FileTypes
  <2> DEFINE h == file[column] \o SubSeq(buffer, wrote + 1, k)
  <2>3. /\ h \in Seq(Rows) /\ Len(h) = Len(file[column]) + (k - wrote)
        /\ \A x \in 1 .. Len(file[column]) : h[x] = file[column][x]
    BY <2>2, PieceRows
  <2>4. file' = [file EXCEPT ![column] = h]
    BY <2>1
  <2>5. k - wrote \in Nat
    BY <2>2
  <2> HIDE DEF h
  <2>6. CASE c = column
    <3>1. file'[c] = h
      BY <2>2, <2>4, <2>6
    <3> QED
      BY <2>2, <2>3, <2>5, <2>6, <3>1
  <2>7. CASE c # column
    <3>1. file'[c] = file[c]
      BY <2>2, <2>4, <2>7
    <3> QED
      BY <1>1, <3>1
  <2> QED
    BY <2>6, <2>7
<1> QED
  BY <1>2, <1>3

LEMMA WriterReaderSafe ==
  ASSUME IInv, ReaderSafe, UNCHANGED file \/ WritePiece, UNCHANGED reader
  PROVE  ReaderSafe'
<1>1. UNCHANGED <<rpc, rows, checked>> /\ rows \in Nat
  BY DEF reader, IInv, TypeOK
<1>2. ASSUME rpc # "idle", NEW c \in Columns
      PROVE  /\ Len(file[c]) >= rows /\ Len(file'[c]) >= rows
             /\ \A x \in 1 .. rows : file'[c][x] = file[c][x]
  <2>1. Len(file[c]) >= rows
    BY <1>2 DEF ReaderSafe
  <2>2. /\ Len(file'[c]) \in Nat /\ Len(file[c]) \in Nat /\ Len(file'[c]) >= Len(file[c])
        /\ \A x \in 1 .. Len(file[c]) : file'[c][x] = file[c][x]
    BY FilesGrow
  <2>3. \A x \in 1 .. rows : x \in 1 .. Len(file[c])
    BY <1>1, <2>1, <2>2
  <2> QED
    BY <1>1, <2>1, <2>2, <2>3
<1>3. rpc' # "idle" => \A c \in Columns : Len(file'[c]) >= rows'
  BY <1>1, <1>2
<1>4. ASSUME rpc # "idle", checked > 0, NEW c \in Columns, NEW x \in 1 .. rows
      PROVE  file'[c][x] = file'[1][x]
  <2>1. file[c][x] = file[1][x]
    BY <1>4 DEF ReaderSafe
  <2>2. file'[c][x] = file[c][x] /\ file'[1][x] = file[1][x]
    BY <1>2, <1>4, FirstColumn
  <2> QED
    BY <2>1, <2>2
<1> QED
  BY <1>1, <1>3, <1>4 DEF ReaderSafe

\* Checking the first column: no later one is longer, and none is shorter than
\* the row count, so all are as long as the first one, and the same.
LEMMA CheckColumnReaderSafe == ASSUME IInv, InStep, ReaderSafe, CheckColumn PROVE ReaderSafe'
<1>1. /\ rpc = "checking" /\ checked' = checked + 1
      /\ rpc' = IF ~SizeIsRight(checked + 1) THEN "idle"
                ELSE IF checked + 1 = NumColumns THEN "open" ELSE "checking"
      /\ UNCHANGED <<file, rows>>
  BY DEF CheckColumn, disk
<1>2. checked \in Nat /\ rows \in Nat
  BY ColumnsAssumption DEF IInv, TypeOK
<1>3. \A c \in Columns : Len(file[c]) >= rows
  BY <1>1 DEF ReaderSafe
<1>4. ASSUME rpc' # "idle", NEW c \in Columns, NEW x \in 1 .. rows
      PROVE  file[c][x] = file[1][x]
  <2>1. CASE checked > 0
    BY <1>1, <1>4, <2>1 DEF ReaderSafe
  <2>2. CASE checked = 0 /\ c # 1
    <3>1. Len(file[1]) = rows
      BY <1>1, <1>4, <2>2 DEF SizeIsRight
    <3>2. 1 \in Columns /\ 1 < c
      BY <2>2, FirstColumn DEF Columns
    <3>3. Follows(file[1], file[c], synced[1])
      BY <3>2 DEF InStep
    <3>4. /\ Len(file[c]) \in Nat /\ Len(file[c]) >= rows
          /\ synced[1] \in Nat /\ synced[1] <= Len(file[1])
      BY <1>3, <3>2, FileTypes
    <3>5. Len(file[c]) = synced[1] /\ Len(file[c]) = rows
      BY <1>2, <3>1, <3>3, <3>4 DEF Follows
    <3> QED
      BY <1>4, <3>3, <3>5 DEF Follows
  <2>3. CASE c = 1
    BY <2>3
  <2> QED
    BY <1>2, <2>1, <2>2, <2>3
<1>5. checked' > 0
  BY <1>1, <1>2
<1> QED
  BY <1>1, <1>3, <1>4, <1>5 DEF ReaderSafe

LEMMA StepReaderSafe == IInv /\ InStep /\ ReaderSafe /\ [Next]_vars => ReaderSafe'
<1> SUFFICES ASSUME IInv, InStep, ReaderSafe, [Next]_vars PROVE ReaderSafe'
  OBVIOUS
<1>1. CASE \/ Start \/ TruncateMeta \/ WriteMeta \/ AppendRow \/ WritePiece \/ SyncColumn
           \/ Close \/ Kill \/ StartFails \/ OpenFails \/ UNCHANGED vars
  <2>1. (UNCHANGED file \/ WritePiece) /\ UNCHANGED reader
    BY <1>1 DEF Start, TruncateMeta, WriteMeta, AppendRow, WritePiece, SyncColumn, Close, Kill,
       StartFails, OpenFails, vars, disk, reader
  <2> QED
    BY <2>1, WriterReaderSafe
<1>2. CASE PowerFails \/ CloseReader
  BY <1>2 DEF PowerFails, CloseReader, ReaderSafe
<1>3. CASE ReadMeta
  <2>1. rows' = meta /\ checked' = 0 /\ rpc' = "checking" /\ UNCHANGED file
    BY <1>3 DEF ReadMeta, disk
  <2>2. ASSUME NEW c \in Columns PROVE Len(file[c]) >= meta
    <3>1. meta \in metas /\ meta \in Nat
      BY <1>3 DEF ReadMeta, IInv, TypeOK, Absent, Empty
    <3>2. meta <= synced[c]
      BY <3>1 DEF IInv, MetaNeverAhead
    <3> QED
      BY <3>1, <3>2, FileTypes
  <2> QED
    BY <2>1, <2>2 DEF ReaderSafe
<1>4. CASE CheckColumn
  BY <1>4, CheckColumnReaderSafe
<1> QED
  BY <1>1, <1>2, <1>3, <1>4 DEF Next

LEMMA InitInStep == Init => InStep /\ ReaderSafe
<1> SUFFICES ASSUME Init PROVE InStep /\ ReaderSafe
  OBVIOUS
<1>1. \A c \in Columns : file[c] = <<>> /\ synced[c] = 0
  BY DEF Init
<1>2. \A c, d \in Columns : Follows(file[c], file[d], synced[c])
  BY <1>1, NoRows DEF Follows
<1>3. wpc = "down" /\ rpc = "idle"
  BY DEF Init
<1> QED
  BY <1>2, <1>3 DEF InStep, ReaderSafe

\* A store that opens is whole, whatever flush is under way and whatever kills,
\* power failures and restarts have left out of line: for any number of columns,
\* rows and crashes, the size check passes only when row i is the same record
\* in all columns.
THEOREM OpenedIsWhole == Spec => []OpenedStoreIsWhole
<1>1. Init => JInv
  BY InitIInv, InitInStep DEF JInv
<1>2. JInv /\ [Next]_vars => JInv'
  BY StepIInv, StepInStep, StepReaderSafe DEF JInv
<1>3. JInv => OpenedStoreIsWhole
  BY DEF JInv, ReaderSafe, OpenedStoreIsWhole
<1> QED
  BY <1>1, <1>2, <1>3, PTL DEF Spec

-------------------------------------------------------------------------------
(* That without crashes what was appended comes back.                        *)

\* How much of the batch a flush has written to column c.
Done(c) ==
  IF wpc # "write" \/ c > column THEN 0 ELSE IF c < column THEN Len(buffer) ELSE wrote

\* The rows that have left the buffer.
Flushed == appended - Len(buffer)

\* While nothing has crashed: row i is the i-th that was appended, in every
\* column and in the buffer behind them; the writer counts, and meta.json says
\* outside _write_meta, the rows that have left the buffer.
Uncrashed ==
  crashes = 0 =>
    /\ Len(buffer) <= appended
    /\ \A c \in Columns : /\ Len(file[c]) = Flushed + Done(c)
                          /\ \A i \in 1 .. Len(file[c]) : file[c][i] = i
    /\ \A j \in 1 .. Len(buffer) : buffer[j] = Flushed + j
    /\ wpc # "down" => rowCount = Flushed
    /\ wpc \in {"down", "truncateMeta", "writeMeta"} => Len(buffer) = 0
    /\ wpc \in {"ready", "write"} => meta = Flushed
    /\ wpc = "down" => meta = Flushed \/ (meta = Absent /\ Flushed = 0)

LEMMA BufferTypes ==
  ASSUME IInv
  PROVE  /\ appended \in Nat /\ crashes \in Nat /\ Len(buffer) \in Nat /\ Flushed \in Int
         /\ buffer \in Seq(Rows) /\ file \in [Columns -> Seq(Rows)]
         /\ column \in Columns /\ wrote \in Nat /\ wrote <= Len(buffer)
         /\ \A c \in Columns : Done(c) \in Nat /\ Len(file[c]) \in Nat
BY FileTypes, BoundsAssumption DEF IInv, TypeOK, Flushed, Done

\* Steps of the reader, and steps of the writer between two flushes.
LEMMA BesideUncrashed ==
  ASSUME IInv, Uncrashed, UNCHANGED <<file, appended, crashes, buffer>>,
         \/ UNCHANGED <<wpc, column, wrote, meta, rowCount>>
         \/ Start \/ TruncateMeta \/ WriteMeta \/ (Close /\ buffer = <<>>)
  PROVE  Uncrashed'
<1> SUFFICES ASSUME crashes = 0 PROVE Uncrashed'
  BY DEF Uncrashed
<1>1. CASE UNCHANGED <<wpc, column, wrote, meta, rowCount>>
  BY <1>1 DEF Uncrashed, Flushed, Done
<1>2. CASE \/ Start \/ TruncateMeta \/ WriteMeta \/ (Close /\ buffer = <<>>)
  <2>1. wpc # "write" /\ wpc' # "write" /\ Len(buffer) = 0
    BY <1>2, NoRows DEF Uncrashed, Start, TruncateMeta, WriteMeta, Close
  <2>2. \A c \in Columns : Done(c) = 0 /\ Done(c)' = 0
    BY <2>1 DEF Done
  <2>3. Flushed' = Flushed
    BY DEF Flushed
  <2>4. /\ wpc' # "down" => rowCount' = Flushed
        /\ wpc' \in {"ready", "write"} => meta' = Flushed
        /\ wpc' = "down" => meta' = Flushed \/ (meta' = Absent /\ Flushed = 0)
    <3>1. CASE Start
      <4>1. wpc' = "truncateMeta" /\ rowCount' = StartsAt /\ wpc = "down"
        BY <3>1 DEF Start
      <4>2. StartsAt = Flushed
        <5>1. Flushed \in Int /\ (meta = Flushed \/ (meta = Absent /\ Flushed = 0))
          BY <4>1, BufferTypes DEF Uncrashed
        <5>2. Flushed >= 0
          BY BufferTypes DEF Uncrashed, Flushed
        <5> QED
          BY <5>1, <5>2 DEF StartsAt, Absent
      <4> QED
        BY <4>1, <4>2
    <3>2. CASE TruncateMeta
      BY <3>2 DEF TruncateMeta, Uncrashed
    <3>3. CASE WriteMeta
      BY <3>3 DEF WriteMeta, Uncrashed
    <3>4. CASE Close /\ buffer = <<>>
      BY <3>4 DEF Close, disk, Uncrashed
    <3> QED
      BY <1>2, <3>1, <3>2, <3>3, <3>4
  <2> QED
    BY <2>1, <2>2, <2>3, <2>4 DEF Uncrashed
<1> QED
  BY <1>1, <1>2

\* A row enters the buffer behind those that are there, or close begins a flush.
LEMMA AppendRowUncrashed == ASSUME IInv, Uncrashed, AppendRow PROVE Uncrashed'
<1>1. /\ wpc = "ready" /\ wpc' \in {"ready", "write"} /\ appended < MaxRows
      /\ buffer' = Append(buffer, appended + 1) /\ appended' = appended + 1
      /\ UNCHANGED <<file, meta, rowCount, column, wrote, crashes>>
  BY DEF AppendRow, disk
<1>2. column = 1 /\ wrote = 0
  BY <1>1 DEF IInv, FlushProgress
<1>3. /\ appended \in Nat /\ Len(buffer) \in Nat /\ Flushed \in Int /\ buffer \in Seq(Rows)
  BY BufferTypes
<1>4. appended + 1 \in Rows
  BY <1>1, BoundsAssumption DEF IInv, TypeOK, Rows
<1>5. /\ Len(buffer') = Len(buffer) + 1
      /\ \A j \in 1 .. Len(buffer) : buffer'[j] = buffer[j]
      /\ buffer'[Len(buffer) + 1] = appended + 1
  BY <1>1, <1>3, <1>4, AppendProperties
<1>6. Flushed' = Flushed
  BY <1>1, <1>3, <1>5 DEF Flushed
<1>7. \A c \in Columns : Done(c) = 0 /\ Done(c)' = 0
  BY <1>1, <1>2 DEF Done, Columns
<1> SUFFICES ASSUME crashes = 0 PROVE Uncrashed'
  BY <1>1 DEF Uncrashed
<1>8. ASSUME NEW j \in 1 .. Len(buffer') PROVE buffer'[j] = Flushed + j
  <2>1. CASE j = Len(buffer) + 1
    BY <1>3, <1>5, <2>1 DEF Flushed
  <2>2. CASE j # Len(buffer) + 1
    <3>1. j \in 1 .. Len(buffer)
      BY <1>3, <1>5, <2>2
    <3> QED
      BY <1>5, <3>1 DEF Uncrashed
  <2> QED
    BY <2>1, <2>2
<1>9. Len(buffer') <= appended'
  BY <1>1, <1>3, <1>5 DEF Uncrashed
<1> QED
  BY <1>1, <1>6, <1>7, <1>8, <1>9 DEF Uncrashed

LEMMA CloseUncrashed == ASSUME IInv, Uncrashed, Close, buffer # <<>> PROVE Uncrashed'
<1>1. /\ wpc = "ready" /\ wpc' = "write"
      /\ UNCHANGED <<file, meta, rowCount, buffer, column, wrote, appended, crashes>>
  BY DEF Close, disk
<1>2. column = 1 /\ wrote = 0
  BY <1>1 DEF IInv, FlushProgress
<1>3. Flushed' = Flushed
  BY <1>1 DEF Flushed
<1>4. \A c \in Columns : Done(c) = 0 /\ Done(c)' = 0
  BY <1>1, <1>2 DEF Done, Columns
<1> QED
  BY <1>1, <1>3, <1>4 DEF Uncrashed

\* The piece goes where it belongs: behind the rows of the earlier flushes.
LEMMA WritePieceUncrashed == ASSUME IInv, Uncrashed, WritePiece PROVE Uncrashed'
<1>1. /\ UNCHANGED <<meta, wpc, rowCount, buffer, column, appended, crashes>>
      /\ wpc = "write"
  BY DEF WritePiece
<1>2. PICK k \in wrote + 1 .. Len(buffer) :
        /\ file' = [file EXCEPT ![column] = @ \o SubSeq(buffer, wrote + 1, k)]
        /\ wrote' = k
  BY DEF WritePiece
<1>3. /\ appended \in Nat /\ Len(buffer) \in Nat /\ Flushed \in Int
      /\ buffer \in Seq(Rows) /\ file \in [Columns -> Seq(Rows)]
      /\ column \in Columns /\ wrote \in Nat /\ wrote <= Len(buffer)
      /\ \A c \in Columns : /\ Done(c) \in Nat /\ Len(file[c]) \in Nat
                            /\ file[c] \in Seq(Rows)
  BY BufferTypes
<1> DEFINE h == file[column] \o SubSeq(buffer, wrote + 1, k)
<1>4. /\ h \in Seq(Rows) /\ Len(h) = Len(file[column]) + (k - wrote)
      /\ \A x \in 1 .. Len(file[column]) : h[x] = file[column][x]
      /\ \A j \in 1 .. k - wrote : h[Len(file[column]) + j] = buffer[wrote + j]
  BY <1>3, PieceRows
<1>5. file' = [file EXCEPT ![column] = h]
  BY <1>2
<1> HIDE DEF h
<1>6. file'[column] = h /\ \A c \in Columns : c # column => file'[c] = file[c]
  BY <1>3, <1>5
<1>7. k \in Nat /\ k <= Len(buffer) /\ wrote < k
  BY <1>2, <1>3
<1>8. Flushed' = Flushed
  BY <1>1 DEF Flushed
<1>9. /\ Done(column) = wrote
      /\ \A c \in Columns : Done(c)' = IF c = column THEN k ELSE Done(c)
  BY <1>1, <1>2, <1>3 DEF Done, Columns
<1> SUFFICES ASSUME crashes = 0 PROVE Uncrashed'
  BY <1>1 DEF Uncrashed
<1>10. ASSUME NEW c \in Columns
       PROVE  /\ Len(file'[c]) = Flushed + Done(c)'
              /\ \A i \in 1 .. Len(file'[c]) : file'[c][i] = i
  <2>1. /\ Len(file[c]) = Flushed + Done(c)
        /\ \A i \in 1 .. Len(file[c]) : file[c][i] = i
    BY DEF Uncrashed
  <2>2. CASE c # column
    BY <1>6, <1>9, <2>1, <2>2
  <2>3. CASE c = column
    <3>0. Len(file[column]) = Flushed + wrote
      BY <1>9, <2>1, <2>3
    <3>1. Len(h) = Flushed + k
      BY <1>3, <1>4, <1>7, <3>0
    <3>2. ASSUME NEW i \in 1 .. Len(h) PROVE h[i] = i
      <4>1. CASE i <= Len(file[column])
        <5>1. i \in 1 .. Len(file[column])
          BY <1>3, <4>1
        <5> QED
          BY <1>4, <2>1, <2>3, <5>1
      <4>2. CASE ~(i <= Len(file[column]))
        <5> DEFINE j == i - Len(file[column])
        <5>0. /\ i \in Int /\ i <= Flushed + k /\ Flushed + wrote < i
              /\ j = i - (Flushed + wrote)
          BY <1>3, <1>7, <3>0, <3>1, <4>2
        <5>1. /\ j \in 1 .. k - wrote /\ Len(file[column]) + j = i
              /\ wrote + j \in 1 .. Len(buffer) /\ Flushed + (wrote + j) = i
          <6> HIDE DEF j
          <6>1. /\ j \in 1 .. k - wrote /\ (Flushed + wrote) + j = i
                /\ wrote + j \in 1 .. Len(buffer) /\ Flushed + (wrote + j) = i
            BY <1>3, <1>7, <5>0
          <6> QED
            BY <3>0, <6>1
        <5> HIDE DEF j
        <5>2. h[i] = buffer[wrote + j]
          BY <1>4, <5>1
        <5>3. buffer[wrote + j] = Flushed + (wrote + j)
          BY <5>1 DEF Uncrashed
        <5> QED
          BY <5>1, <5>2, <5>3
      <4> QED
        BY <4>1, <4>2
    <3> QED
      BY <1>6, <1>9, <2>3, <3>1, <3>2
  <2> QED
    BY <2>2, <2>3
<1> QED
  BY <1>1, <1>8, <1>10 DEF Uncrashed

\* Once the last column has the batch, the buffer is empty and counted.
LEMMA SyncColumnUncrashed == ASSUME IInv, Uncrashed, SyncColumn PROVE Uncrashed'
<1>1. /\ wpc = "write" /\ wrote = Len(buffer) /\ wrote' = 0
      /\ UNCHANGED <<file, meta, appended, crashes>>
  BY DEF SyncColumn, Rewound
<1>2. /\ appended \in Nat /\ Len(buffer) \in Nat /\ Flushed \in Int
      /\ column \in Columns /\ column \in Int
      /\ \A c \in Columns : Done(c) \in Nat /\ Len(file[c]) \in Nat /\ c \in Int
  BY BufferTypes DEF Columns
<1> SUFFICES ASSUME crashes = 0 PROVE Uncrashed'
  BY <1>1 DEF Uncrashed
<1>3. CASE column < NumColumns
  <2>1. column' = column + 1 /\ UNCHANGED <<wpc, rowCount, buffer>>
    BY <1>3 DEF SyncColumn
  <2>2. ASSUME NEW c \in Columns PROVE Done(c)' = Done(c)
    BY <1>1, <1>2, <2>1 DEF Done
  <2>3. Flushed' = Flushed
    BY <1>1, <2>1 DEF Flushed
  <2> QED
    BY <1>1, <2>1, <2>2, <2>3 DEF Uncrashed
<1>4. CASE ~(column < NumColumns)
  <2>1. /\ buffer' = <<>> /\ wpc' = "truncateMeta" /\ rowCount' = rowCount + Len(buffer)
    BY <1>4 DEF SyncColumn
  <2>2. Len(buffer') = 0
    BY <2>1, NoRows
  <2>3. Flushed' = appended /\ appended = Flushed + Len(buffer)
    BY <1>1, <1>2, <2>2 DEF Flushed
  <2>4. ASSUME NEW c \in Columns PROVE Done(c) = Len(buffer) /\ Done(c)' = 0
    <3>1. c <= column
      BY <1>2, <1>4, ColumnsAssumption DEF Columns
    <3> QED
      BY <1>1, <1>2, <2>1, <3>1 DEF Done
  <2>5. ASSUME NEW c \in Columns
        PROVE  /\ Len(file[c]) = Flushed' + Done(c)'
               /\ \A i \in 1 .. Len(file[c]) : file[c][i] = i
    <3>1. /\ Len(file[c]) = Flushed + Done(c)
          /\ \A i \in 1 .. Len(file[c]) : file[c][i] = i
      BY DEF Uncrashed
    <3>2. Len(file[c]) = appended
      BY <2>3, <2>4, <3>1
    <3>3. Flushed' + Done(c)' = appended
      BY <1>2, <2>3, <2>4
    <3> QED
      BY <3>1, <3>2, <3>3
  <2>6. rowCount' = Flushed'
    BY <1>1, <1>2, <2>1, <2>3 DEF Uncrashed
  <2>7. Len(buffer') <= appended' /\ 1 .. Len(buffer') = {}
    BY <1>1, <1>2, <2>2
  <2> QED
    BY <1>1, <2>1, <2>2, <2>5, <2>6, <2>7 DEF Uncrashed
<1> QED
  BY <1>3, <1>4

LEMMA StartUncrashed == ASSUME IInv, Uncrashed, Start PROVE Uncrashed'
<1> SUFFICES ASSUME crashes = 0 PROVE Uncrashed'
  BY DEF Start, Uncrashed
<1>1. wpc = "down" /\ buffer' = <<>> /\ UNCHANGED <<file, appended, crashes>>
  BY DEF Start, disk
<1>2. buffer = <<>>
  BY <1>1, EmptySeq, BufferTypes DEF Uncrashed
<1> QED
  BY <1>1, <1>2, BesideUncrashed

LEMMA StepUncrashed == IInv /\ Uncrashed /\ [Next]_vars => Uncrashed'
<1> SUFFICES ASSUME IInv, Uncrashed, [Next]_vars PROVE Uncrashed'
  OBVIOUS
<1>1. CASE TruncateMeta \/ WriteMeta \/ (Close /\ buffer = <<>>)
  <2>1. UNCHANGED <<file, appended, crashes, buffer>>
    BY <1>1 DEF TruncateMeta, WriteMeta, Close, disk
  <2> QED
    BY <1>1, <2>1, BesideUncrashed
<1>2. CASE Kill \/ PowerFails
  <2>1. crashes \in Nat /\ crashes' = crashes + 1
    BY <1>2, BufferTypes DEF Kill, PowerFails
  <2>2. crashes' # 0
    BY <2>1
  <2> QED
    BY <2>2 DEF Uncrashed
<1>3. CASE ReadMeta \/ CheckColumn \/ CloseReader \/ StartFails \/ OpenFails \/ UNCHANGED vars
  <2>1. /\ UNCHANGED <<file, appended, crashes, buffer>>
        /\ UNCHANGED <<wpc, column, wrote, meta, rowCount>>
    BY <1>3 DEF ReadMeta, CheckColumn, CloseReader, StartFails, OpenFails, vars, disk, writer
  <2> QED
    BY <2>1, BesideUncrashed
<1> QED
  BY <1>1, <1>2, <1>3, StartUncrashed, AppendRowUncrashed, WritePieceUncrashed,
     SyncColumnUncrashed, CloseUncrashed DEF Next

LEMMA InitUncrashed == Init => Uncrashed
<1> SUFFICES ASSUME Init PROVE Uncrashed
  OBVIOUS
<1>1. Len(buffer) = 0 /\ \A c \in Columns : Len(file[c]) = 0
  <2>1. buffer = <<>> /\ \A c \in Columns : file[c] = <<>>
    BY DEF Init
  <2> QED
    BY <2>1, NoRows
<1>2. wpc = "down" /\ meta = Absent /\ appended = 0 /\ rowCount = 0 /\ crashes = 0
  BY DEF Init
<1>3. \A c \in Columns : Done(c) = 0
  BY <1>2 DEF Done
<1>4. Flushed = 0
  BY <1>1, <1>2 DEF Flushed
<1> QED
  BY <1>1, <1>2, <1>3, <1>4 DEF Uncrashed

\* Without crashes a store between two flushes opens and holds the appended
\* records that are no longer buffered, in order and in every column, over any
\* number of appending writers one after the other.
THEOREM WhatWasAppendedIsThere == Spec => []RoundTrip
<1>1. Init => IInv /\ Uncrashed
  BY InitIInv, InitUncrashed
<1>2. IInv /\ Uncrashed /\ [Next]_vars => IInv' /\ Uncrashed'
  BY StepIInv, StepUncrashed
<1>3. IInv /\ Uncrashed => RoundTrip
  <2> SUFFICES ASSUME IInv, Uncrashed,
                      crashes = 0, wpc \in {"ready", "down"}, meta # Absent
               PROVE  /\ Openable
                      /\ meta = appended - (IF wpc = "ready" THEN Len(buffer) ELSE 0)
                      /\ \A c \in Columns, i \in 1 .. meta : file[c][i] = i
    BY DEF RoundTrip
  <2>1. meta = Flushed /\ (wpc = "down" => Len(buffer) = 0)
    BY DEF Uncrashed
  <2>2. /\ appended \in Nat /\ Len(buffer) \in Nat /\ Len(buffer) <= appended
        /\ Flushed = appended - Len(buffer)
    BY BufferTypes DEF Uncrashed, Flushed
  <2>3. \A c \in Columns : Done(c) = 0
    BY DEF Done
  <2>4. ASSUME NEW c \in Columns
        PROVE  Len(file[c]) = meta /\ \A i \in 1 .. meta : file[c][i] = i
    <3>1. /\ Len(file[c]) = Flushed + Done(c)
          /\ \A i \in 1 .. Len(file[c]) : file[c][i] = i
      BY DEF Uncrashed
    <3>2. Len(file[c]) = meta
      BY <2>1, <2>2, <2>3, <3>1
    <3> QED
      BY <3>1, <3>2
  <2>5. Openable
    BY <2>1, <2>2, <2>4 DEF Openable
  <2> QED
    BY <2>1, <2>2, <2>4, <2>5
<1> QED
  BY <1>1, <1>2, <1>3, PTL DEF Spec
===============================================================================
