------------------------------- MODULE LiveQuery -------------------------------
(***************************************************************************)
(* Queries on a store that a capture in another process keeps appending    *)
(* to: the scan of packetql/query/executor.py, the index path of           *)
(* index/access.py with the page cache of storage/columnar.py, and indexes *)
(* that the server loads once, when it starts.                             *)
(*                                                                         *)
(* Files only grow here and hold row i at place i (RoundTrip of            *)
(* ColumnStore), so a file is its number of rows and a value read from it  *)
(* is the number of its row.  A store opens only when it is whole (the     *)
(* sizes are those meta.json gave, and they only grow, so they were right  *)
(* when it was read): Open is one step.  A scan has no WHERE here, which    *)
(* would only leave rows out; a cache page holds the whole file.           *)
(***************************************************************************)
EXTENDS Integers, Sequences, FiniteSets, SequencesExt, FiniteSetsExt

CONSTANTS NumColumns,   \* the columns a query reads
          ChunkRows,    \* batch_rows of a scan
          FirstRows,    \* rows in the store when the server starts
          MaxRows,      \* bound on the rows
          MaxBatch,     \* bound on the rows of one flush
          Matching,     \* the rows that the indexed predicate holds for
          Limits        \* the LIMITs of queries

ASSUME ColumnsAssumption == NumColumns \in Nat \ {0}
ASSUME RowsAssumption ==
  /\ ChunkRows \in Nat \ {0} /\ MaxBatch \in Nat \ {0}
  /\ MaxRows \in Nat /\ FirstRows \in 0 .. MaxRows
ASSUME QueryAssumption == Matching \subseteq 1 .. MaxRows /\ Limits \subseteq Nat \ {0}

Columns == 1 .. NumColumns
NoLimit == 0
Garbage == 0        \* a value that belongs to another column

VARIABLES
  size,         \* rows in each column file
  meta,         \* row_count in meta.json
  column,       \* the column a flush writes next, 0 between flushes
  batch,        \* the rows it adds
  loaded,       \* rows that the server's indexes know
  pc,           \* "starting"; the connection: "closed", "ready", "scan", "emit", "index", "done"
  rows,         \* row_count of the connection's store
  limit,
  byIndex,      \* the query was answered through the indexes
  turn,         \* the column read next
  from, to,     \* the chunk of each column: the rows from + 1 .. to
  page,         \* the cached page of each column: whose it is and its rows
  result, failed,
  quiet         \* the store was whole and unchanged since the query began

writer == <<size, meta, column, batch>>
scan == <<turn, from, to>>
query == <<limit, byIndex, scan, result, failed>>
vars == <<writer, loaded, pc, rows, query, page, quiet>>

NoPage == [column |-> 0, rows |-> 0]
Start == [c \in Columns |-> 0]

\* The server has opened a whole store and is about to load its indexes.
Init ==
  /\ size = [c \in Columns |-> FirstRows] /\ meta = FirstRows
  /\ column = 0 /\ batch = 0
  /\ loaded = 0
  /\ pc = "starting" /\ rows = 0
  /\ limit = NoLimit /\ byIndex = FALSE
  /\ turn = 1 /\ from = Start /\ to = Start
  /\ page = [c \in Columns |-> NoPage]
  /\ result = <<>> /\ failed = FALSE
  /\ quiet = FALSE

-------------------------------------------------------------------------------
(* The capture: ColumnWriter.flush, column by column, each perhaps in pieces, *)
(* then meta.json.                                                           *)

BeginFlush ==
  /\ column = 0
  /\ batch' \in 1 .. MaxBatch
  /\ meta + batch' <= MaxRows
  /\ column' = 1
  /\ quiet' = FALSE
  /\ UNCHANGED <<size, meta, loaded, pc, rows, query, page>>

FlushColumn ==
  /\ column \in Columns
  /\ \E s \in size[column] + 1 .. meta + batch :
       /\ size' = [size EXCEPT ![column] = s]
       /\ column' = IF s = meta + batch THEN column + 1 ELSE column
  /\ UNCHANGED <<meta, batch, loaded, pc, rows, query, page, quiet>>

WriteMeta ==
  /\ column = NumColumns + 1
  /\ meta' = meta + batch
  /\ column' = 0 /\ batch' = 0
  /\ UNCHANGED <<size, loaded, pc, rows, query, page, quiet>>

-------------------------------------------------------------------------------
(* The server, a connection and its queries.                                 *)

\* load_or_build reads the indexed column to its end, whichever it is: perhaps
\* in the middle of a flush, and further than meta.json says.
LoadIndexes ==
  /\ pc = "starting"
  /\ \E c \in Columns : loaded' = size[c]
  /\ pc' = "closed"
  /\ UNCHANGED <<writer, rows, query, page, quiet>>

\* _verify_integrity.  (Faulty variant: a store is opened without it.)
Unchecked == TRUE
StoreIsWhole == \A c \in Columns : size[c] = meta

Open ==
  /\ pc = "closed"
  /\ StoreIsWhole
  /\ rows' = meta
  /\ pc' = "ready"
  /\ UNCHANGED <<writer, loaded, query, page, quiet>>

Close ==
  /\ pc = "ready"
  /\ pc' = "closed"
  /\ page' = [c \in Columns |-> NoPage]
  /\ UNCHANGED <<writer, loaded, rows, query, quiet>>

\* The rows an index gives for the predicate, in ascending order.
Known == {r \in Matching : r <= loaded}
Ascending(s) == \A i, j \in DOMAIN s : i < j => s[i] < s[j]
Candidates == CHOOSE s \in SetToSeqs(Known) : Ascending(s)

\* PacketIndexes.choose takes the indexes when they leave fewer rows than the
\* store has; without an indexed predicate there is nothing to choose.
Selective == Len(Candidates) < rows

Begin(l, indexed) ==
  /\ pc = "ready"
  /\ limit' = l
  /\ byIndex' = (indexed /\ Selective)
  /\ pc' = IF byIndex' THEN "index" ELSE "scan"
  /\ quiet' = (column = 0)
  /\ UNCHANGED <<writer, loaded, rows, scan, page, result, failed>>

\* What is left of a file, and the chunk read from it.  (Faulty variants: a
\* read returns a whole chunk; the chunk is counted in bytes, of a wider
\* column as well as of a narrow one; a short chunk is taken for the end.)
ChunkOfBytes(c) == IF c = 1 THEN ChunkRows ELSE 2 * ChunkRows
ChunkOfRows(c) == ChunkRows
WholeChunk(c) == to[c] + ChunkOfRows(c)
ChunkEnd(c) == Min({size[c], to[c] + ChunkOfRows(c)})
ShortRead(c) == size[c] < to[c] + ChunkRows
AtEnd(c) == to[c] = size[c]

\* next on the generators, one column after the other; the first that is at
\* its end ends the scan.
ReadChunk ==
  /\ pc = "scan"
  /\ \/ /\ AtEnd(turn)
        /\ pc' = "done"
        /\ UNCHANGED scan
     \/ /\ ~AtEnd(turn)
        /\ from' = [from EXCEPT ![turn] = to[turn]]
        /\ to' = [to EXCEPT ![turn] = ChunkEnd(turn)]
        /\ turn' = IF turn = NumColumns THEN 1 ELSE turn + 1
        /\ pc' = IF turn = NumColumns THEN "emit" ELSE "scan"
  /\ UNCHANGED <<writer, loaded, rows, limit, byIndex, page, result, failed, quiet>>

\* The rows of a chunk go out one by one: LIMIT may stop them, and a column
\* whose chunk is shorter than the first one's raises IndexError.
Emit ==
  LET length(c) == to[c] - from[c]
      whole == Min({length(c) : c \in Columns})
      out == result \o [i \in 1 .. whole |-> [c \in Columns |-> from[c] + i]]
      enough == limit # NoLimit /\ Len(out) >= limit
  IN  /\ pc = "emit"
      /\ result' = IF enough THEN SubSeq(out, 1, limit) ELSE out
      /\ failed' = (~enough /\ whole < length(1))
      /\ pc' = IF enough \/ failed' THEN "done" ELSE "scan"
      /\ UNCHANGED <<writer, loaded, rows, limit, byIndex, scan, page, quiet>>

\* read_rows of one column.  The page is read from the file once; a row
\* beyond its end cannot be unpacked.
ReadRows ==
  LET used == IF page[turn] = NoPage THEN [column |-> turn, rows |-> size[turn]]
              ELSE page[turn]
      value(r) == IF used.column = turn THEN r ELSE Garbage
      got == [i \in DOMAIN Candidates |->
                [c \in 1 .. turn |-> IF c = turn THEN value(Candidates[i]) ELSE result[i][c]]]
  IN  /\ pc = "index"
      /\ IF Candidates = <<>> THEN UNCHANGED page
         ELSE page' = [page EXCEPT ![turn] = used]
      /\ failed' = \E i \in DOMAIN Candidates : Candidates[i] > used.rows
      /\ result' = got
      /\ turn' = IF turn = NumColumns THEN 1 ELSE turn + 1
      /\ pc' = IF failed' \/ turn = NumColumns THEN "done" ELSE "index"
      /\ UNCHANGED <<writer, loaded, rows, limit, byIndex, from, to, quiet>>

\* The answer has been sent (LIMIT cuts it; the files are closed).
Answered ==
  /\ pc = "done"
  /\ pc' = "ready"
  /\ limit' = NoLimit /\ byIndex' = FALSE
  /\ turn' = 1 /\ from' = Start /\ to' = Start
  /\ result' = <<>> /\ failed' = FALSE /\ quiet' = FALSE
  /\ UNCHANGED <<writer, loaded, rows, page>>

Next ==
  \/ BeginFlush \/ FlushColumn \/ WriteMeta
  \/ LoadIndexes \/ Open \/ Close
  \/ \E l \in Limits \cup {NoLimit}, indexed \in BOOLEAN : Begin(l, indexed)
  \/ ReadChunk \/ Emit \/ ReadRows \/ Answered

Spec == Init /\ [][Next]_vars

-------------------------------------------------------------------------------

\* Types; a chunk lies within what the file held when it was read.
TypeOK ==
  /\ size \in [Columns -> 0 .. MaxRows] /\ meta \in 0 .. MaxRows
  /\ column \in 0 .. NumColumns + 1 /\ batch \in 0 .. MaxBatch
  /\ loaded \in 0 .. MaxRows
  /\ pc \in {"starting", "closed", "ready", "scan", "emit", "index", "done"}
  /\ rows \in 0 .. MaxRows /\ limit \in Limits \cup {NoLimit}
  /\ byIndex \in BOOLEAN /\ failed \in BOOLEAN /\ quiet \in BOOLEAN
  /\ turn \in Columns
  /\ \A c \in Columns : 0 <= from[c] /\ from[c] <= to[c] /\ to[c] <= size[c]
  /\ \A c \in Columns : page[c].column \in 0 .. NumColumns /\ page[c].rows \in 0 .. MaxRows

WholeRow(r) == [c \in Columns |-> r]
Scanned == pc = "done" /\ ~byIndex

\* However a flush runs alongside, a scan returns the rows that the store had
\* when the connection opened it, each whole and in its place, unless LIMIT
\* stops it or it fails; only rows beyond those may be torn.
ScanSeesSnapshot ==
  Scanned =>
    /\ \A i \in DOMAIN result : i <= rows => result[i] = WholeRow(i)
    /\ ~failed /\ limit = NoLimit => Len(result) >= rows

\* A scan that no flush touches does not fail and returns what is stored.
QuietScanIsExact ==
  Scanned /\ quiet =>
    /\ ~failed
    /\ result = [i \in 1 .. (IF limit # NoLimit /\ limit < meta THEN limit ELSE meta)
                   |-> WholeRow(i)]

\* A query through the indexes does not fail, and returns whole rows of the
\* connection's store that match, each once and in order, whenever the indexes
\* were loaded and the pages cached: no candidate lies beyond the rows of the
\* store or beyond a cached page of any column.
IndexQueryIsSound ==
  pc = "done" /\ byIndex =>
    /\ ~failed
    /\ \A i \in DOMAIN result :
         \E r \in Matching \cap 1 .. rows : result[i] = WholeRow(r)
    /\ \A i, j \in DOMAIN result : i < j => result[i][1] < result[j][1]

\* "Must never: be silently stale": an index finds every matching row of the
\* store that the connection has opened.  Indexes are loaded at start only.
NeverSilentlyStale ==
  pc = "done" /\ byIndex =>
    \A r \in Matching \cap 1 .. rows : WholeRow(r) \in Range(result)
===============================================================================
