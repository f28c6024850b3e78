----------------------------- MODULE PacketIndexes -----------------------------
(***************************************************************************)
(* PacketIndexes.load_or_build of packetql/index/indexes.py: processes     *)
(* that open a store and load its indexes from indexes.pkl, or build and   *)
(* save them, while another process appends to the store or rebuilds it.   *)
(*                                                                         *)
(* What a column file holds is the generation of the store it belongs to   *)
(* and the number of its rows; the index of a column is the content it was *)
(* built from.  Every write to a file gives it a new modification time.    *)
(* The last column has the bitmap index, the others a trie or a hash.      *)
(***************************************************************************)
EXTENDS Integers, Sequences

CONSTANTS Processes,      \* each runs load_or_build
          NumColumns,
          RowsPerByte,    \* 8: how BitmapIndex rounds the rows it has room for
          MaxRows,        \* bound on the rows of a store
          MaxGeneration   \* bound on the rebuilds

ASSUME ColumnsAssumption == NumColumns \in Nat \ {0}
ASSUME BoundsAssumption ==
  RowsPerByte \in Nat \ {0} /\ MaxRows \in Nat /\ MaxGeneration \in Nat

Columns == 1 .. NumColumns
BitmapColumn == NumColumns

VARIABLES
  file, mtime,  \* of each column
  meta,         \* row_count in meta.json
  writer,       \* "quiet", "truncate", "flush", "meta"
  column,       \* the column the writer is at
  generation, rowCount,
  saved,        \* indexes.pkl: Absent, Torn, or what was dumped
  pc, rows,     \* of each process: what it does, and the row_count it read
  cursor,       \* the column it is at
  snap,         \* its mtimes
  index         \* its indexes

store == <<file, mtime, meta, writer, column, generation, rowCount>>
processVars == <<pc, rows, cursor, snap, index>>
vars == <<store, saved, processVars>>

Content == [generation : 0 .. MaxGeneration, rows : 0 .. MaxRows]
Nothing == [generation |-> 0, rows |-> 0]
Absent == [mtimes |-> <<>>, rows |-> -1, indexes |-> <<>>]
Torn == [mtimes |-> <<>>, rows |-> -2, indexes |-> <<>>]

EachColumn(x) == [c \in Columns |-> x]

\* A new, empty store.
Init ==
  /\ file = EachColumn(Nothing) /\ mtime = EachColumn(0) /\ meta = 0
  /\ writer = "quiet" /\ column = 1 /\ generation = 0 /\ rowCount = 0
  /\ saved = Absent
  /\ pc = [p \in Processes |-> "idle"] /\ rows = [p \in Processes |-> 0]
  /\ cursor = [p \in Processes |-> 1]
  /\ snap = [p \in Processes |-> EachColumn(0)]
  /\ index = [p \in Processes |-> EachColumn(Nothing)]

-------------------------------------------------------------------------------
(* The writer.  ColumnWriter without append truncates the files one by one   *)
(* and writes meta.json; a flush extends them one by one and writes it again. *)

BeginRebuild ==
  /\ writer = "quiet" /\ generation < MaxGeneration
  /\ writer' = "truncate"
  /\ generation' = generation + 1 /\ rowCount' = 0
  /\ UNCHANGED <<file, mtime, meta, column, saved, processVars>>

BeginFlush ==
  /\ writer = "quiet" /\ rowCount < MaxRows
  /\ writer' = "flush"
  /\ rowCount' = rowCount + 1
  /\ UNCHANGED <<file, mtime, meta, column, generation, saved, processVars>>

WriteColumn ==
  /\ writer \in {"truncate", "flush"}
  /\ file' = [file EXCEPT ![column] = [generation |-> generation, rows |-> rowCount]]
  /\ mtime' = [mtime EXCEPT ![column] = @ + 1]
  /\ IF column = NumColumns
     THEN column' = 1 /\ writer' = "meta"
     ELSE column' = column + 1 /\ UNCHANGED writer
  /\ UNCHANGED <<meta, generation, rowCount, saved, processVars>>

WriteMeta ==
  /\ writer = "meta"
  /\ meta' = rowCount
  /\ writer' = "quiet"
  /\ UNCHANGED <<file, mtime, column, generation, rowCount, saved, processVars>>

-------------------------------------------------------------------------------
(* A process: open the store, take the modification times, then load the     *)
(* indexes or build and save them.                                           *)

Goes(p, from, to) ==
  /\ pc[p] = from /\ pc' = [pc EXCEPT ![p] = to]
  /\ UNCHANGED store

\* One turn of a loop over the columns that ends in `after'.
Column(p, loop, after) ==
  /\ Goes(p, loop, IF cursor[p] = NumColumns THEN after ELSE loop)
  /\ cursor' = [cursor EXCEPT ![p] = IF @ = NumColumns THEN 1 ELSE @ + 1]

Forget(p) ==
  /\ cursor' = [cursor EXCEPT ![p] = 1]
  /\ rows' = [rows EXCEPT ![p] = 0]
  /\ snap' = [snap EXCEPT ![p] = EachColumn(0)]
  /\ index' = [index EXCEPT ![p] = EachColumn(Nothing)]

ReadMeta(p) ==
  /\ Goes(p, "idle", "check")
  /\ rows' = [rows EXCEPT ![p] = meta]
  /\ UNCHANGED <<saved, cursor, snap, index>>

\* An exception ends the program: a size that is wrong, or a row that the
\* bitmap has no room for.
GivesUp(p, from) == Goes(p, from, "idle") /\ Forget(p) /\ UNCHANGED saved

CheckSize(p) ==
  \/ /\ file[cursor[p]].rows = rows[p]
     /\ Column(p, "check", "mtimes")
     /\ UNCHANGED <<saved, rows, snap, index>>
  \/ file[cursor[p]].rows # rows[p] /\ GivesUp(p, "check")

TakeMtime(p) ==
  /\ Column(p, "mtimes", "load")
  /\ snap' = [snap EXCEPT ![p][cursor[p]] = mtime[cursor[p]]]
  /\ UNCHANGED <<saved, rows, index>>

\* (Faulty variant: whatever the file holds is taken.)
AnyFile(p) == saved # Absent
Fresh(p) == saved.mtimes = snap[p] /\ saved.rows = rows[p]

Load(p) ==
  /\ \/ /\ Fresh(p)
        /\ Goes(p, "load", "ready")
        /\ index' = [index EXCEPT ![p] = saved.indexes]
     \/ /\ ~Fresh(p)
        /\ Goes(p, "load", "build")
        /\ UNCHANGED index
  /\ UNCHANGED <<saved, rows, cursor, snap>>

\* Rows that the bitmaps have room for: row_count, rounded up to whole bytes.
Room(p) == ((rows[p] + RowsPerByte - 1) \div RowsPerByte) * RowsPerByte

\* A column is read as it is by now, which may be more than rows[p] rows.
BuildColumn(p) ==
  LET c == cursor[p]
      fits == c = BitmapColumn => file[c].rows <= Room(p)
  IN  \/ /\ fits
         /\ Column(p, "build", "truncate")
         /\ index' = [index EXCEPT ![p][c] = file[c]]
         /\ UNCHANGED <<saved, rows, snap>>
      \/ ~fits /\ GivesUp(p, "build")

\* open(path, "wb") empties the file; if that or dump raises, the indexes are
\* used all the same.
TruncateSaved(p) ==
  /\ \/ Goes(p, "truncate", "dump") /\ saved' = Torn
     \/ Goes(p, "truncate", "ready") /\ UNCHANGED saved
  /\ UNCHANGED <<rows, cursor, snap, index>>

\* (Faulty variant of SavedMtimes: they are taken when the file is written.)
MtimesNow(p) == mtime
SavedMtimes(p) == snap[p]

\* Two processes that dump at a time may leave a file that does not load, and
\* so does a dump that raises.
Dump(p) ==
  /\ Goes(p, "dump", "ready")
  /\ saved' \in {Torn, [mtimes |-> SavedMtimes(p), rows |-> rows[p], indexes |-> index[p]]}
  /\ UNCHANGED <<rows, cursor, snap, index>>

\* The process ends; another may start in its place.
Exit(p) ==
  /\ Goes(p, "ready", "idle")
  /\ Forget(p)
  /\ UNCHANGED saved

Process(p) ==
  \/ ReadMeta(p) \/ CheckSize(p) \/ TakeMtime(p) \/ Load(p) \/ BuildColumn(p)
  \/ TruncateSaved(p) \/ Dump(p) \/ Exit(p)

Next ==
  \/ BeginRebuild \/ BeginFlush \/ WriteColumn \/ WriteMeta
  \/ \E p \in Processes : Process(p)

Spec == Init /\ [][Next]_vars

-------------------------------------------------------------------------------

\* "reload only if the column files are unchanged (mtime), else rebuild": as
\* long as the files have the modification times that a process took, the
\* indexes it works with are those of the files' content, whoever built them,
\* and whatever was written meanwhile.
FreshWhileUnchanged ==
  \A p \in Processes :
    pc[p] = "ready" /\ mtime = snap[p] => index[p] = file
===============================================================================
