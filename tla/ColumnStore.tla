------------------------------ MODULE ColumnStore ------------------------------
(***************************************************************************)
(* packetql/storage/columnar.py: a store directory of one file per column  *)
(* and a meta.json, the ColumnWriter that appends to it in batches, and a  *)
(* ColumnStore that opens it, possibly while the writer is at work in      *)
(* another process.  The writer's process may be killed at any point, and  *)
(* the machine may lose power.                                             *)
(*                                                                         *)
(* A file is the sequence of rows whose value it holds (rows are numbered  *)
(* as they are appended); a value is written whole, a batch need not be.   *)
(* `synced' is how much of a file fsync has put on the medium: a power     *)
(* failure keeps at least that.  meta.json is never synced, so a power     *)
(* failure may bring back any of the contents it has had.                  *)
(***************************************************************************)
EXTENDS Integers, Sequences

CONSTANTS NumColumns,   \* Len(COLUMNS), nine in the code
          BatchSize,    \* ColumnWriter.batch_size
          MaxRows,      \* bound on the rows appended
          MaxCrashes    \* bound on kills and power failures together

ASSUME ColumnsAssumption == NumColumns \in Nat \ {0}
ASSUME BatchAssumption == BatchSize \in Nat \ {0}
ASSUME BoundsAssumption == MaxRows \in Nat /\ MaxCrashes \in Nat

Columns == 1 .. NumColumns

VARIABLES
  file,         \* the rows in each column file, as the system shows them
  synced,       \* how many of them survive a power failure
  meta,         \* row_count in meta.json, or Absent, or Empty (truncated)
  metas,        \* the contents of meta.json a power failure may leave
  wpc,          \* what the writer is doing; "down" when there is none
  rowCount,     \* the writer's row_count
  buffer,       \* rows appended and not flushed
  column,       \* the column flush is writing, and
  wrote,        \* how much of the buffer it has written there
  closing,      \* flush was called by close
  appended,     \* rows appended so far
  crashes,
  rpc,          \* a reader: "idle", "checking" sizes, "open"
  rows,         \* the row_count it read from meta.json
  checked       \* columns whose size it has found right

Absent == -2
Empty == -1

disk == <<file, synced, meta, metas>>
writer == <<wpc, rowCount, buffer, column, wrote, closing, appended>>
reader == <<rpc, rows, checked>>
vars == <<disk, writer, crashes, reader>>

Init ==
  /\ file = [c \in Columns |-> <<>>]
  /\ synced = [c \in Columns |-> 0]
  /\ meta = Absent /\ metas = {Absent}
  /\ wpc = "down" /\ rowCount = 0 /\ buffer = <<>>
  /\ column = 1 /\ wrote = 0 /\ closing = FALSE /\ appended = 0
  /\ crashes = 0
  /\ rpc = "idle" /\ rows = 0 /\ checked = 0

-------------------------------------------------------------------------------
(* The writer.                                                               *)

\* The row count an appending writer starts from.  (Faulty variant: it does
\* not read meta.json.)
StartsAtZero == 0
StartsAt == IF meta = Absent THEN 0 ELSE meta

\* ColumnWriter(append=True).
Start ==
  /\ wpc = "down"
  /\ meta # Empty
  /\ rowCount' = StartsAt
  /\ wpc' = "truncateMeta"
  /\ buffer' = <<>> /\ column' = 1 /\ wrote' = 0 /\ closing' = FALSE
  /\ UNCHANGED <<disk, appended, crashes, reader>>

\* json.load raises on a truncated meta.json: no writer, and no change.
StartFails == wpc = "down" /\ meta = Empty /\ UNCHANGED vars

\* _write_meta: open(..., "w"), then the new contents.
TruncateMeta ==
  /\ wpc = "truncateMeta"
  /\ meta' = Empty
  /\ metas' = metas \cup {Empty}
  /\ wpc' = "writeMeta"
  /\ UNCHANGED <<file, synced, rowCount, buffer, column, wrote, closing, appended,
                 crashes, reader>>

WriteMeta ==
  /\ wpc = "writeMeta"
  /\ meta' = rowCount
  /\ metas' = metas \cup {rowCount}
  /\ wpc' = IF closing THEN "down" ELSE "ready"
  /\ UNCHANGED <<file, synced, rowCount, buffer, column, wrote, closing, appended,
                 crashes, reader>>

AppendRow ==
  /\ wpc = "ready"
  /\ appended < MaxRows
  /\ buffer' = Append(buffer, appended + 1)
  /\ appended' = appended + 1
  /\ wpc' = IF Len(buffer') >= BatchSize THEN "write" ELSE "ready"
  /\ UNCHANGED <<disk, rowCount, column, wrote, closing, crashes, reader>>

\* flush, one column after the other: the batch reaches the file in one or
\* more pieces, and fsync puts what the file holds on the medium.
WritePiece ==
  /\ wpc = "write"
  /\ \E k \in wrote + 1 .. Len(buffer) :
       /\ file' = [file EXCEPT ![column] = @ \o SubSeq(buffer, wrote + 1, k)]
       /\ wrote' = k
  /\ UNCHANGED <<synced, meta, metas, wpc, rowCount, buffer, column, closing, appended,
                 crashes, reader>>

\* (Faulty variants: the cursor is not rewound for the next column; the call
\* of fsync is left out.)
NotRewound == wrote
Rewound == 0
NoFsync(c) == synced
Fsync(c) == [synced EXCEPT ![c] = Len(file[c])]

SyncColumn ==
  /\ wpc = "write"
  /\ wrote = Len(buffer)
  /\ synced' = Fsync(column)
  /\ wrote' = Rewound
  /\ IF column < NumColumns
     THEN /\ column' = column + 1
          /\ UNCHANGED <<wpc, rowCount, buffer>>
     ELSE /\ column' = 1
          /\ rowCount' = rowCount + Len(buffer)
          /\ buffer' = <<>>
          /\ wpc' = "truncateMeta"
  /\ UNCHANGED <<file, meta, metas, closing, appended, crashes, reader>>

Close ==
  /\ wpc = "ready"
  /\ closing' = TRUE
  /\ wpc' = IF buffer = <<>> THEN "down" ELSE "write"
  /\ UNCHANGED <<disk, rowCount, buffer, column, wrote, appended, crashes, reader>>

-------------------------------------------------------------------------------
(* Crashes.                                                                  *)

ForgetMemory ==
  /\ wpc' = "down"
  /\ rowCount' = 0 /\ buffer' = <<>> /\ column' = 1 /\ wrote' = 0 /\ closing' = FALSE

\* The process dies (or an I/O error ends the writer thread): what it has
\* written to the files stays there.
Kill ==
  /\ crashes < MaxCrashes
  /\ wpc # "down"
  /\ crashes' = crashes + 1
  /\ ForgetMemory
  /\ UNCHANGED <<disk, appended, reader>>

\* The machine stops: each file keeps what is synced and possibly more.
PowerFails ==
  /\ crashes < MaxCrashes
  /\ crashes' = crashes + 1
  /\ \E kept \in [Columns -> 0 .. MaxRows], m \in metas :
       /\ \A c \in Columns : kept[c] \in synced[c] .. Len(file[c])
       /\ file' = [c \in Columns |-> SubSeq(file[c], 1, kept[c])]
       /\ synced' = kept
       /\ meta' = m
       /\ metas' = {m}
  /\ ForgetMemory
  /\ rpc' = "idle"
  /\ UNCHANGED <<appended, rows, checked>>

-------------------------------------------------------------------------------
(* A reader opening the store: meta.json first, then the size of one column  *)
(* file after the other.  Any mismatch raises and leaves it without a store. *)

OpenFails == rpc = "idle" /\ meta < 0 /\ UNCHANGED vars

ReadMeta ==
  /\ rpc = "idle"
  /\ meta >= 0
  /\ rows' = meta
  /\ checked' = 0
  /\ rpc' = "checking"
  /\ UNCHANGED <<disk, writer, crashes>>

\* (Faulty variant of SizeIsRight: a longer file passes.)
LongEnough(c) == Len(file[c]) >= rows
SizeIsRight(c) == Len(file[c]) = rows

CheckColumn ==
  /\ rpc = "checking"
  /\ checked' = checked + 1
  /\ rpc' = IF ~SizeIsRight(checked + 1) THEN "idle"
            ELSE IF checked + 1 = NumColumns THEN "open" ELSE "checking"
  /\ UNCHANGED <<disk, writer, crashes, rows>>

CloseReader ==
  /\ rpc = "open"
  /\ rpc' = "idle"
  /\ UNCHANGED <<disk, writer, crashes, rows, checked>>

Next ==
  \/ Start \/ StartFails \/ TruncateMeta \/ WriteMeta \/ AppendRow
  \/ WritePiece \/ SyncColumn \/ Close
  \/ Kill \/ PowerFails
  \/ OpenFails \/ ReadMeta \/ CheckColumn \/ CloseReader

Spec == Init /\ [][Next]_vars

-------------------------------------------------------------------------------

WriterStates == {"down", "truncateMeta", "writeMeta", "ready", "write"}

\* Types; the writer's cursor stays inside the batch and the columns.
TypeOK ==
  /\ file \in [Columns -> Seq(1 .. MaxRows)]
  /\ synced \in [Columns -> Nat]
  /\ \A c \in Columns : synced[c] <= Len(file[c])
  /\ meta \in metas /\ metas \subseteq Nat \cup {Absent, Empty}
  /\ wpc \in WriterStates
  /\ rowCount \in Nat
  /\ buffer \in Seq(1 .. MaxRows)
  /\ column \in Columns
  /\ wrote \in 0 .. Len(buffer)
  /\ closing \in BOOLEAN
  /\ appended \in 0 .. MaxRows
  /\ crashes \in 0 .. MaxCrashes
  /\ rpc \in {"idle", "checking", "open"} /\ rows \in Nat /\ checked \in 0 .. NumColumns

\* Whatever meta.json says now, or would say after a power failure, that many
\* values of every column are on the medium: fsync comes before the new row
\* count in every flush, also after restarts from an older count.
MetaNeverAhead == \A m \in metas, c \in Columns : m <= synced[c]

\* A store that opens is whole: the size check passes only when row i holds
\* the values of one and the same record in all columns, whatever flush was
\* under way, and after any kills, power failures and restarts.
OpenedStoreIsWhole ==
  rpc = "open" =>
    \A c \in Columns :
      /\ Len(file[c]) >= rows
      /\ \A i \in 1 .. rows : file[c][i] = file[1][i]

Openable == meta >= 0 /\ \A c \in Columns : Len(file[c]) = meta

\* Without crashes a store between two flushes opens and holds, in every
\* column and in order, exactly the records that were appended and are no
\* longer buffered: over several appending writers, one after the other.
RoundTrip ==
  crashes = 0 /\ wpc \in {"ready", "down"} /\ meta # Absent =>
    /\ Openable
    /\ meta = appended - (IF wpc = "ready" THEN Len(buffer) ELSE 0)
    /\ \A c \in Columns, i \in 1 .. meta : file[c][i] = i

\* "durable per batch": once a writer has flushed batches, a store with no
\* writer at work opens and holds at least their rows.  A crash between the
\* writes of two columns, or while meta.json is truncated, refutes it.
DurablePerBatch ==
  wpc = "down" /\ (\E m \in metas : m > 0) => Openable
===============================================================================
