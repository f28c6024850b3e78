---------------------------- MODULE CapturePipeline ----------------------------
(***************************************************************************)
(* packetql/capture/pipeline.py: a producer that parses frames and puts    *)
(* records, the ring buffer at the level of LossyQueue, and the writer     *)
(* thread that takes batches, appends them to the store, adds them to the  *)
(* indexes and adapts its batch size to the drop rate.                     *)
(*                                                                         *)
(* Records are numbered in the order they are put.  The writer's own       *)
(* statements are one action as long as no other thread can see between    *)
(* them; the four unlocked counter reads of _adapt, and the drop that put  *)
(* makes visible to them before the record that caused it, are not.        *)
(***************************************************************************)
EXTENDS Integers, Sequences, SequencesExt

CONSTANTS Capacity,         \* of the ring
          FirstBatchSize,   \* batch_size the pipeline starts with
          BatchCap,         \* BATCH_CAP
          InitialRows,      \* rows the store held before (append=True)
          MaxPuts           \* bound on the records put

ASSUME CapacityAssumption == Capacity \in Nat \ {0}
ASSUME BatchAssumption == FirstBatchSize \in Nat \ {0} /\ BatchCap \in Nat \ {0}
ASSUME RowsAssumption == InitialRows \in Nat /\ MaxPuts \in Nat

VARIABLES
  queue, closed, dropped, enqueued,   \* the ring
  putting,      \* put holds the lock: it has dropped the oldest, not yet stored the new
  pc,           \* the writer thread
  batch,        \* what is left of the batch being written
  buffer,       \* appended to the ColumnWriter, not flushed
  stored,       \* the rows of the store
  index,        \* row id of each indexed record
  nextRow, written, batchSize,
  lastDropped, lastEnqueued,          \* the baselines of _adapt
  newDrops, newPuts, seenDropped,     \* its locals d, e and the first re-read
  loggedDrops   \* the sum of all d that went into drop_log

ringVars == <<queue, closed, dropped, enqueued, putting>>
storeVars == <<buffer, stored, index, nextRow, written>>
adaptVars == <<batchSize, lastDropped, lastEnqueued, newDrops, newPuts,
               seenDropped, loggedDrops>>
vars == <<ringVars, pc, batch, storeVars, adaptVars>>

Old == 0        \* a row that was in the store before

\* The row id of the first record.  (Faulty variant: the rows are forgotten.)
FirstRowForgetful == 0
FirstRow == InitialRows

Init ==
  /\ queue = <<>> /\ closed = FALSE /\ dropped = 0 /\ enqueued = 0
  /\ putting = FALSE
  /\ pc = "get" /\ batch = <<>>
  /\ buffer = <<>> /\ stored = [r \in 1 .. InitialRows |-> Old]
  /\ index = <<>>
  /\ nextRow = FirstRow /\ written = 0
  /\ batchSize = FirstBatchSize
  /\ lastDropped = 0 /\ lastEnqueued = 0
  /\ newDrops = 0 /\ newPuts = 0 /\ seenDropped = 0
  /\ loggedDrops = 0

-------------------------------------------------------------------------------
(* The producer: put, in two steps when it overwrites, then close.           *)

\* (Faulty variants: a full ring is noticed one record late; a drop is not
\* counted.)
FullLate == Len(queue) > Capacity
Full == Len(queue) = Capacity
DropUncounted == dropped
CountDrop == dropped + 1

PutDropsOldest ==
  /\ ~closed /\ ~putting
  /\ enqueued < MaxPuts
  /\ Full
  /\ queue' = Tail(queue)
  /\ dropped' = CountDrop
  /\ putting' = TRUE
  /\ UNCHANGED <<closed, enqueued, pc, batch, storeVars, adaptVars>>

Put ==
  /\ ~closed
  /\ enqueued < MaxPuts
  /\ putting \/ ~Full
  /\ queue' = Append(queue, enqueued + 1)
  /\ enqueued' = enqueued + 1
  /\ putting' = FALSE
  /\ UNCHANGED <<closed, dropped, pc, batch, storeVars, adaptVars>>

\* capture_offline and capture_live close after their last put.
Close ==
  /\ ~closed /\ ~putting
  /\ closed' = TRUE
  /\ UNCHANGED <<queue, dropped, enqueued, putting, pc, batch, storeVars, adaptVars>>

-------------------------------------------------------------------------------
(* The writer thread.  Every step on the ring needs its lock.                *)

WriterGoes(from, to) == pc = from /\ pc' = to
Locked(from) == pc = from /\ ~putting

\* (Faulty variant of OldestFirst: the batch comes out newest first.)
NewestFirst(s) == Reverse(s)
OldestFirst(s) == s

TakeBatch ==
  LET k == IF batchSize < Len(queue) THEN batchSize ELSE Len(queue)
  IN  /\ Locked("get") \/ Locked("waiting")
      /\ queue # <<>>
      /\ batch' = OldestFirst(SubSeq(queue, 1, k))
      /\ queue' = SubSeq(queue, k + 1, Len(queue))
      /\ pc' = "append"
      /\ UNCHANGED <<closed, dropped, enqueued, putting, storeVars, adaptVars>>

\* get_batch returns [] from a closed ring.
TakeNothing ==
  /\ Locked("get") \/ Locked("waiting")
  /\ queue = <<>> /\ closed
  /\ pc' = "testClosed"
  /\ UNCHANGED <<ringVars, batch, storeVars, adaptVars>>

Wait ==
  /\ Locked("get")
  /\ queue = <<>> /\ ~closed
  /\ pc' = "waiting"
  /\ UNCHANGED <<ringVars, batch, storeVars, adaptVars>>

\* The 0.2 s ran out; a put or a close may have come in since.
TimeOut ==
  /\ Locked("waiting")
  /\ pc' = "testClosed"
  /\ UNCHANGED <<ringVars, batch, storeVars, adaptVars>>

\* The two operands of the loop's exit test take the lock one after the other.
\* (Faulty variants: the flag as it was when the thread started; no second test.)
ClosedAtStart == FALSE
SeesClosed == closed
SkipLengthTest == TRUE
SeesEmpty == queue = <<>>

TestClosed ==
  /\ Locked("testClosed")
  /\ pc' = IF SeesClosed THEN "testEmpty" ELSE "get"
  /\ UNCHANGED <<ringVars, batch, storeVars, adaptVars>>

TestEmpty ==
  /\ Locked("testEmpty")
  /\ pc' = IF SeesEmpty THEN "close" ELSE "get"
  /\ UNCHANGED <<ringVars, batch, storeVars, adaptVars>>

\* append, indexes.add and the two counters for the next record of the batch;
\* the append that fills the buffer flushes it.
AppendRecord ==
  LET rec == Head(batch)
      rows == Append(buffer, rec)
      flushes == Len(rows) >= batchSize
  IN  /\ pc = "append"
      /\ buffer' = IF flushes THEN <<>> ELSE rows
      /\ stored' = IF flushes THEN stored \o rows ELSE stored
      /\ index' = Append(index, [record |-> rec, row |-> nextRow])
      /\ nextRow' = nextRow + 1
      /\ written' = written + 1
      /\ batch' = Tail(batch)
      /\ pc' = IF Len(batch) = 1 THEN "readDropped" ELSE "append"
      /\ UNCHANGED <<ringVars, adaptVars>>

\* The flush raises: the exception leaves _run_writer and ends the thread, with
\* the rest of the batch and the buffer in its memory.
AppendFails ==
  /\ pc = "append"
  /\ Len(buffer) + 1 >= batchSize
  /\ buffer' = Append(buffer, Head(batch))
  /\ batch' = Tail(batch)
  /\ pc' = "dead"
  /\ UNCHANGED <<ringVars, stored, index, nextRow, written, adaptVars>>

ReadDropped ==
  /\ WriterGoes("readDropped", "readEnqueued")
  /\ newDrops' = dropped - lastDropped
  /\ UNCHANGED <<ringVars, batch, storeVars, batchSize, lastDropped, lastEnqueued,
                 newPuts, seenDropped, loggedDrops>>

ReadEnqueued ==
  /\ WriterGoes("readEnqueued", "rereadDropped")
  /\ newPuts' = enqueued - lastEnqueued
  /\ UNCHANGED <<ringVars, batch, storeVars, batchSize, lastDropped, lastEnqueued,
                 newDrops, seenDropped, loggedDrops>>

RereadDropped ==
  /\ WriterGoes("rereadDropped", "adapt")
  /\ seenDropped' = dropped
  /\ UNCHANGED <<ringVars, batch, storeVars, batchSize, lastDropped, lastEnqueued,
                 newDrops, newPuts, loggedDrops>>

\* (Faulty variant of Baseline: the baseline is not moved.)
StaleBaseline == lastDropped
Baseline == seenDropped

\* The baselines become what was just re-read; more than 5% dropped doubles
\* the batch size of the pipeline and of its ColumnWriter.
Adapt ==
  /\ WriterGoes("adapt", "get")
  /\ lastDropped' = Baseline
  /\ lastEnqueued' = enqueued
  /\ loggedDrops' = loggedDrops + newDrops
  /\ batchSize' = IF newPuts > 0 /\ 20 * newDrops > newPuts /\ batchSize < BatchCap
                  THEN IF 2 * batchSize < BatchCap THEN 2 * batchSize ELSE BatchCap
                  ELSE batchSize
  /\ newDrops' = 0 /\ newPuts' = 0 /\ seenDropped' = 0
  /\ UNCHANGED <<ringVars, batch, storeVars>>

\* close() flushes what is buffered, or fails at it; join() returns either way.
CloseWriter ==
  /\ WriterGoes("close", "done")
  /\ stored' = stored \o buffer
  /\ buffer' = <<>>
  /\ UNCHANGED <<ringVars, batch, index, nextRow, written, adaptVars>>

CloseFails ==
  /\ WriterGoes("close", "dead")
  /\ buffer # <<>>
  /\ UNCHANGED <<ringVars, batch, storeVars, adaptVars>>

WriterStep ==
  \/ TakeBatch \/ TakeNothing \/ TimeOut \/ TestClosed \/ TestEmpty
  \/ AppendRecord
  \/ ReadDropped \/ ReadEnqueued \/ RereadDropped \/ Adapt
  \/ CloseWriter

Finished == pc \in {"done", "dead"}

\* The producer has closed and the thread has ended: nothing is left to do.
Terminated == closed /\ Finished /\ UNCHANGED vars

Next ==
  \/ PutDropsOldest \/ Put \/ Close
  \/ Wait \/ WriterStep
  \/ AppendFails \/ CloseFails
  \/ Terminated

\* put does not stop while it holds the lock, and the writer thread runs.  The
\* producer need not go on, nor close.
Fairness == WF_vars(putting /\ Put) /\ WF_vars(Wait \/ WriterStep)

Spec == Init /\ [][Next]_vars /\ Fairness

-------------------------------------------------------------------------------

\* The counter deltas of _adapt live from the read that sets them to the end of
\* the call, and are zero outside it; batch_size never shrinks, and grows no
\* further than its cap.
AdaptTypes ==
  /\ batchSize \in {FirstBatchSize} \cup FirstBatchSize .. BatchCap
  /\ lastDropped \in Nat /\ loggedDrops \in Nat
  /\ lastEnqueued \in 0 .. enqueued
  /\ newDrops \in Nat
  /\ newPuts \in Nat
  /\ seenDropped \in Nat
  /\ newDrops # 0 => pc \in {"readEnqueued", "rereadDropped", "adapt"}
  /\ newPuts # 0 => pc \in {"rereadDropped", "adapt"}
  /\ seenDropped # 0 => pc = "adapt"

\* Types of the ring, of the writer's lists and of the locals of _adapt.
TypeOK ==
  /\ queue \in Seq(1 .. MaxPuts) /\ Len(queue) <= Capacity
  /\ closed \in BOOLEAN /\ putting \in BOOLEAN
  /\ dropped \in 0 .. enqueued + 1 /\ enqueued \in 0 .. MaxPuts
  /\ pc \in {"get", "waiting", "testClosed", "testEmpty", "append", "readDropped",
             "readEnqueued", "rereadDropped", "adapt", "close", "done", "dead"}
  /\ batch \in Seq(1 .. MaxPuts) /\ (pc = "append" => batch # <<>>)
  /\ buffer \in Seq(1 .. MaxPuts) /\ (pc # "dead" => Len(buffer) < batchSize)
  /\ stored \in Seq(0 .. MaxPuts)
  /\ AdaptTypes

\* Every record that has not been dropped, oldest first: in the store, in the
\* writer's buffer, in the batch it holds, in the ring.
NewRows == SubSeq(stored, InitialRows + 1, Len(stored))
Trail == NewRows \o buffer \o batch \o queue

\* Across the hand-overs from the producer through the ring and the writer's
\* list and buffer to the store, what is not counted as dropped is somewhere,
\* also while put is between its two halves and after the thread has died.
DropsAccountForLosses == Len(Trail) = enqueued - dropped

\* Capture order survives the pipeline: no record is stored twice, and none
\* overtakes another between put and its row in the store.
ArrivalOrder == \A i, j \in 1 .. Len(Trail) : i < j => Trail[i] < Trail[j]

\* Every entry that the incremental indexes.add made names the row that the
\* record has, or will have once the buffer is flushed -- in a store that
\* already held rows, and although indexes run ahead of the flush.
IndexNamesTheRow ==
  \A k \in 1 .. Len(index) :
    LET rows == stored \o buffer
    IN  index[k].row + 1 \in 1 .. Len(rows) /\ rows[index[k].row + 1] = index[k].record

\* When the writer thread ends in good order every record that was put is in
\* the store or counted as dropped, and the store is that many rows longer:
\* no record slips in between the two halves of the exit test.
JoinMeansStored ==
  pc = "done" => /\ closed /\ queue = <<>> /\ batch = <<>> /\ buffer = <<>>
                 /\ Len(stored) = InitialRows + written
                 /\ written = enqueued - dropped
                 /\ Len(index) = written

\* The log never reports a drop twice, although _adapt reads counters that put
\* is changing under a lock it does not hold.  (It may miss drops: those
\* between the first read of `dropped' and the second.)
NoDropLoggedTwice == loggedDrops <= lastDropped /\ lastDropped <= dropped

\* Once the producer closes the ring the writer thread ends, so join returns.
JoinReturns == closed ~> Finished
===============================================================================
