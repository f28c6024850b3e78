# A TLA+ verification of PacketQL

PacketQL captures packets, keeps them in a columnar store and answers SQL over
TCP. This directory holds TLA+ models of it, the TLC configurations that check
them, and theorems that TLAPS proves about them. Paths and lines are those of
the repository; `PROJECT.json` maps every definition to the lines it models.

## 1. The system

| Part | State | Operations | Used by |
|---|---|---|---|
| Ring buffer (`capture/ringbuffer.py`) | slots, head, tail, size, closed, two counters, one condition variable | `put`, `get_batch`, `close`, `closed`, `len` | producer thread, writer thread |
| Capture pipeline (`capture/pipeline.py`) | writer thread, next row id, batch size, drop-rate baselines and log | `start`, `_run_writer`, `_adapt`, `join`, `capture_offline`, `capture_live` | command line |
| Column store (`storage/columnar.py`) | nine column files, `meta.json`, a write buffer per column, a page cache per reader | `append`, `flush`, `close`, `_write_meta`; open with integrity check, `column`, `iter_column`, `read_rows` | pipeline writes; server and command line read |
| Indexes (`index/`) | two tries, two hashes, one bitmap, row count; a pickle file guarded by modification times | `build`, `add`, `load_or_build`, `choose`; `BoundedTopN` | pipeline adds; server and executor read |
| Query engine (`query/`) | none between queries | `tokenize`, `parse`, `plan_query`, `run_query` | server, command line |
| Query server (`server.py`) | listening socket, bounded queue, worker threads, readers-writer lock, query counter, indexes loaded at start | accept loop, `_worker`, `_serve`, `stop`; frames | clients, bridge |
| Dashboard bridge (`dashboard/bridge.py`) | a window of samples | sampler thread, three HTTP routes | web page |

How the parts meet: the producer and the writer thread share the ring; the
writer thread alone touches the `ColumnWriter` and the indexes it is given; the
server, in another process, opens the same directory without any coordination
with that writer; its readers-writer lock orders only its own threads; the
bridge polls the server once a second.

What is hard, part by part, and what makes it correct:

- **Ring.** Two threads, a condition variable, timeouts that race with puts,
  wrap-around and overwriting. Correct: a FIFO queue that loses only its oldest
  item, only when full, and counts it; no sleeper is forgotten.
- **Pipeline.** Hand-over of records through four places, an exit test in two
  lock sections, counters read without the lock, a writer thread that may die.
  Correct: every record is in one place or counted as dropped; order is kept;
  index entries name the right row; `join` means stored.
- **Store.** Nine files and `meta.json` updated one after the other, with
  readers in another process and crashes at any point. Correct: a store that
  opens is whole; what was flushed stays readable (it does not: section 6).
- **Lock.** One condition variable for readers and writers, writer preference.
  Correct: exclusion, no lost wakeup, readers that keep coming do not keep a
  waiting writer out.
- **Server.** Fixed pool, bounded queue, shutdown. Correct: the pool never
  shrinks, every accepted connection is served, `stop` ends the workers.
- **Capture files and frames.** Files that end anywhere, frames cut to any
  length with headers of any length. Correct: what is whole is kept, once and
  in order; nothing is read beyond the end of a frame.
- **Indexes and queries.** Staleness against a growing store, index scan
  against sequential scan, heap against sort, the columns a query reads against
  those it needs. Correct: same rows either way.
- **Wire, bridge.** Partial receives, timeouts and retries, errors that look
  like data. Correct: an answer is whole and one's own, a number shown is one
  that was true, an outage shows.

`PROJECT.json` lists these as hazards, each at its line.

## 2. Modules

| Module | What it is |
|---|---|
| `LossyQueue` | the abstract specification of the ring: a bounded drop-oldest queue |
| `RingBuffer` | `RingBuffer`: slots, pointers, condition variable; implements `LossyQueue` |
| `RingBufferProofs` | its theorems |
| `CapturePipeline` | producer, ring (at the level of `LossyQueue`), writer thread, `_adapt`, the store as a sequence of rows |
| `CapturePipelineProofs` | its theorems |
| `ColumnStore` | `ColumnWriter`, the files, crashes, and the opening of a `ColumnStore` |
| `ColumnStoreProofs` | its theorems |
| `PreferringLock` | the abstract specification of the lock: readers share it, a writer has it alone, no reader enters past a waiting writer |
| `RWLock` | `RWLock`: counters, condition variable; implements `PreferringLock` |
| `RWLockProofs` | its theorems |
| `QueryServer` | accept loop, queue of connections, workers with `_serve`, `stop`, the query counter |
| `QueryServerProofs` | its theorems |
| `LiveQuery` | scans and index queries on a store that another process appends to |
| `LiveQueryProofs` | its theorems |
| `PacketIndexes` | `load_or_build` in several processes, against flushes and rebuilds |
| `Pcap` | the capture file: `write_packets`, `read_packets` |
| `PacketParser` | `parse_packet` and the checksum |
| `InOrder` | numbers in ascending order: what `sort` and the scan of a bitmap return |
| `IndexStructures` | trie, port table, bitmaps, and `PacketIndexes` made of them |
| `CaptureSession` | the three above put together: captures, files cut short, imports, live capture, and the indexes that grow with the store |
| `TopN` | `BoundedTopN` and `top_n` |
| `IndexProofs` | the theorems about `CaptureSession`, `PacketParser`, `TopN` and `PacketIndexes` |
| `QueryPlanner` | the query tree, columns read, WHERE, `choose`, the rows a plan yields |
| `QueryExecutor` | grouping, HAVING, DISTINCT, ORDER BY, LIMIT; `run_query` |
| `QueryParser` | the recursive descent from tokens to the query tree |
| `SqlText` | how a query is written: the tokens that mean a tree |
| `OfflineSession` | `CaptureSession` with queries in between, as `demo.py` and `query.py` put them together |
| `Bridge` | the bridge's sampler, the server it polls, the frames between them |
| `BridgeProofs` | its theorems |
| `MC*` | what TLC gives the constants |

The models stack: `RingBuffer` shows that the class is a lossy queue, so
`CapturePipeline` uses a sequence for it; `CapturePipeline` treats a flush as
one step on the store, and `ColumnStore` opens that step up. `ColumnStore`
shows with `RoundTrip` that row *i* is the *i*-th record, so `LiveQuery` and
`PacketIndexes` need only the number of rows in a file. `QueryServer` leaves
the readers-writer lock out: `_serve` takes it only for reading and nobody
takes it for writing, so it never blocks there. `CaptureSession` and
`OfflineSession` compose the sequential half of the program, over a ring that
drops nothing (`CapturePipeline`) and a store that is closed and whole
(`ColumnStore`); `LiveQuery` has what is different while a capture goes on.
`OfflineSession` conjoins the initial states and the steps of `CaptureSession`
with its own variables, and its other steps leave those of `CaptureSession`
alone; so what is proved of a `CaptureSession` holds of an `OfflineSession`. `Bridge` sees of
the server whether it answers, and of the store whether it opens.

`Pcap`, `PacketParser`, `IndexStructures`, `TopN`, `QueryPlanner`,
`QueryExecutor` and `QueryParser` have no state: they are operators, as the
code's are functions, and the sessions apply them in their actions. What is to be
proved about has its loops as recursive functions of the round (`Reading`,
`Growing`, `Filling`, `Rising`, `Sinking`, `Pushing`); only expression trees and tokens are walked by
`RECURSIVE` operators.
`SqlText` is the other direction of `QueryParser`, taken from the grammar: it
writes a tree with no more parentheses than precedence needs, so a query that
is written and parsed must come back as it was meant.

Some operators come in pairs, the second used by the model and the first a
*faulty variant*, named in a comment: a plausible slip at that place, which the
property listed with it under `mutants` must catch.

### State and actions against the code

**RingBuffer.** Variables carry the attributes' names. Each method runs under
the condition's lock and is one action; `get_batch` is `GetBatch` up to its
return or its wait, `Resume` after a notify, `Expire` when the timer fires and
`ReturnEmpty` when the thread, which has timed out, has the lock again.
`waiters` is the condition's FIFO list of sleepers. As in CPython, a thread
that has timed out leaves the list only after it has the lock back, so a
`notify` may hit it in between and is then wasted. `want` holds the argument of
a call that waits, `batch` the value of the last call that returned.

**CapturePipeline.** Records are numbered in the order of `put`. `pc` is where
the writer thread stands. `put` is split when it overwrites, because `_adapt`
reads the counters without the lock and can see the drop before the record;
`putting` is that moment, in which nobody else gets the lock. `AppendRecord` is
one turn of the loop of `_run_writer` (append, possibly flush, index, count):
no other thread reads what it changes until `join`. `_adapt` is four steps, one
per counter read that another thread can separate. `AppendFails` and
`CloseFails` are the exception that leaves the thread function.

**ColumnStore.** `file` is what the system shows, `synced` how much of it a
power failure keeps. `meta` is the row count in `meta.json`, `Absent` or
`Empty` (truncated by `open(..., "w")`); `metas` is what a power failure may
bring back, since the file is never synced. A flush is `WritePiece` (a batch may
reach a file in pieces) and `SyncColumn` per column, then `TruncateMeta` and
`WriteMeta`. `Kill` keeps the files, `PowerFails` cuts them. A reader reads
`meta.json`, then checks one size per step.

**RWLock.** `pc` says what each thread does with the lock; `sleeping` are the
threads in `wait()`. An acquire that waits is split there.

**QueryServer.** The accept loop is `TestRunning`, `CallAccept`, `Accept` or
`AcceptFails`, `PutConnection`; `CallAccept` is apart because `stop` may close
the socket while an `accept` is under way, which then may still return a
connection, and `accept` may fail at any time, which ends the loop (any
`OSError` does). A worker's turn is `Get`, then for each request `Receive`,
where its type is learnt, and `Execute`: `StoreUnavailable`, which an open store
rules out for the rest of the connection, or `Dispatch`. A query goes on with
`LoadQueries` and `StoreQueries`, the two halves of `+= 1`. `Reply` sends the
answer; `ResultFails` is a result that cannot be encoded or sent, after which
the handler sends an ERROR, and `SendFails` any other answer that cannot be
sent. `Close` is the `finally`. `Stop`, `CloseSocket` and one `PutSentinel` per
worker are `stop`. `Connect`, `Send` and `HangUp` are a client of
`query_client.py`; its requests that nobody has read are a number. `settled`,
the queries that have had their result sent or failed, is a history variable.

**LiveQuery.** `size` is the number of rows in each file, `from` and `to` the
chunk of each column that `_scan_batches` holds, `page` the cached page of each
column, `loaded` the number of rows the server's indexes know: `LoadIndexes`
reads a column once, while the server starts, and a flush may be under way
then, so that they know rows which `meta.json` and other columns do not have
yet. The value read at place *i* of a column is *i*, so a torn row is one whose
columns differ. `Emit` is the loop of `_scan_rows` over a chunk: a column whose
chunk is shorter than the first one's raises `IndexError`, rows of a longer one
are skipped. `quiet` is a history variable.

**PacketIndexes.** What a file holds is the generation of the store and the
number of its rows, its index is that content again. `saved` is `indexes.pkl`.
A process is the sequence `ReadMeta`, `CheckSize` per column, `TakeMtime` per
column, `Load`, then `BuildColumn` per column, `TruncateSaved`, `Dump`.

**CaptureSession, OfflineSession.** `Capture` writes a file, `Interrupt` cuts it at some byte,
`Import` is `capture_offline(read_packets(...))`, `Sniff` the callback of
`capture_live`, `Ask` a query that is written, parsed and run with no indexes,
with those that grew with the store or with those built from it. A frame is its captured length and the
fields that the parser looks at; a file is its frames and the number of bytes
that were written. `owed` is what the table must be, said of the packets and
not by the parser's tests: a packet counts if its IP header was captured, is
IPv4 and adds up, and has ports if as much of its transport header was captured
as the parser asks for. Of the nine columns there are four, one for each index
and one without; an address has two octets of two bits instead of four of
eight. A trie node is named by the bits that lead to it.

**Bridge.** `pc`, `attempt` and `connected` say where `_sampler` is within
`_wire`, `waited` is the timer of its connect, recv or sleep, `age` how long
ago the latest sample was appended. The four streams hold bytes: on their way,
and in the buffers of the two `recv_exact`. `ClientRecv` and `ServerRecv` take
any number of bytes that the call may return. `Begin` starts an attempt or a
sleep and closes the socket; `Fail` is the `except OSError` and, after the last
attempt, the `WireError`. `Tick` is a second.

## 3. Runs

| Run | Instance | Shows |
|---|---|---|
| `ring` | 3 slots, 5 puts of 2 items, a patient and a timed consumer, batches of 1 or 2 | implements `LossyQueue`; `RingShape`; `NeverAllAsleep`; `CloseReleases` |
| `pipeline` | 3 slots, 8 records, batch size 2 up to 5, a store with one row | conservation, order, index row ids, meaning of `join`, the drop log, termination |
| `store` | 2 columns, batches of 2, 4 rows, 2 crashes | an opened store is whole; `meta.json` never ahead; round trip |
| `store_durability` | the same | `DurablePerBatch` is violated (section 6) |
| `rwlock` | 4 threads, each reading and writing | implements `PreferringLock`; no lost wakeup; a waiting writer enters however many readers come, a reader enters once writers stay away |
| `server` | 3 clients, 2 workers, a queue of 1, 2 requests in all | the pool keeps its workers; a connection has one owner; one answer to each request; each query is counted once |
| `server_liveness` | 3 clients, 2 workers, a queue of 2, no requests | connections queued ahead of the sentinels are closed, `stop` ends the pool |
| `live_query` | 2 columns, chunks of 2 rows, a store that grows from 2 to 7 rows by 1 or 2, of which four match | `ScanSeesSnapshot`, `QuietScanIsExact`, `IndexQueryIsSound` |
| `live_query_stale` | the same | `NeverSilentlyStale` is violated (section 6) |
| `index_file` | 2 processes, 2 columns, at most 1 row, 1 rebuild | `FreshWhileUnchanged` |
| `session` | files of up to 3 frames cut at each kind of place, 5 rows, frames of 0 to 88 bytes with 5 header lengths, 216 queries, each with 3 choices of indexes | `ImportKeepsGoodFrames`, `IndexesFindExactly`, `AnswersAgree`, `LimitKeepsTheTop` |
| `bridge` | the program's numbers (headers of 5 bytes, 3 attempts of 3 s, samples good for 4 s), a store of at most 2 rows | `AnswersAreOwn`, `SamplesAreTrue`, `StatsFollowServer` |

Why the bounds suffice. *Ring:* five puts into three slots wrap both pointers
and overwrite twice, and two consumers suffice for a wakeup meant for one to
reach the other. *Pipeline:* eight records overflow a ring of three before,
during and after a batch, and the batch size doubles to its cap. *Store:* two
columns distinguish written from not yet written; two batches put a crash after
a complete flush; two crashes let a writer restart on a torn store and crash
again, which is what it takes for sizes to agree by accident (they do if fsync
is left out). *Lock:* four threads give two readers inside with a reader and a
writer waiting, or two writers waiting. *Server:* with two workers, a queue of
one and three clients, both workers can be busy, the queue full and the accept
loop blocked, when `stop` begins. With a queue of two a connection and a
sentinel are in it together, in either order, and two connections with `stop`
waiting for room; requests are left out there, since one only adds a finite
number of steps to a turn (every branch of it is in the run `server`). *Live
queries:* an odd number of rows ends in a short chunk; a flush of one or two
rows lengthens it, completes it or reaches into the next one, for one column
and not yet for the other. The first two rows match, so that an index query has
several candidates, and is not selective at first; the fifth and sixth do too,
so indexes loaded beside a flush may know a row that the other column does not
have, which the check at open must keep from the query. *Index file:* a rebuild
brings back a row count that was there before, so only the modification times
tell the two stores apart; one process may load what the other saves.
*Session:* a frame of 88 bytes has the longest IP header and a whole TCP
header; three frames put a torn one after whole ones and a corrupt one between;
five rows and `LIMIT 3` make an item sink past a left child to the right; five
rows come in at least two imports, so the indexes grow over two; every WHERE
meets every shape of query. Addresses of four bits have every prefix length at
and between the octets. *Bridge:* two rows make an answer older than the
request that it might be taken for; the times are the program's, so a sample
ages to the 503 within the retries of the next. Clients, workers and processes
are interchangeable, and the runs `server` and `index_file`, which check safety
only, use that symmetry.

Bounds in guards: `MaxPuts` (records put), `MaxRows` (rows appended),
`MaxCrashes`, `MaxRequests` (requests of all clients), `MaxBatch` (rows of one flush),
`MaxGeneration` (rebuilds), `MaxFrames` (frames of a file), `MaxStored` (rows of
a session's store, where frames that only vary one field come alone). `MaxRows`
also bounds the store behind the bridge. Deadlock is checked in every run. The actions
`Terminated`, `StartFails` and `OpenFails` change nothing: they are the program
having ended, and the calls that raise.

## 4. Fairness

- `RingBuffer`: a consumer that can get the lock gets it, and a timer that is
  set fires. No consumer must call, nobody must put or close.
- `CapturePipeline`: the writer thread runs, and a `put` that has begun ends.
  The producer need not go on nor close; failures need not happen.
- `RWLock`: critical sections end (the context managers release in a
  `finally`), and a woken thread gets the condition's lock. Nobody must ask for
  the lock. Only weak fairness: a woken writer may lose to a writer that calls
  again, over and over, so `WaitingWriterEnters` is about a writer that no other
  writer contends with for good; readers may come as they like.
- `QueryServer`: the threads run, `stop` once called goes on, and a client hangs
  up some time (`query_client.py` leaves its `with` block and the bridge closes
  each connection; `_serve` has no timeout of its own, so an idle client would
  keep its worker). Nobody need connect, send or call `stop`, and it is not
  assumed that closing the socket wakes an `accept` under way.
- `Bridge`: the sampler's thread and the server's run, and time passes. It is
  not assumed that the server is up, that it stays up or that a flush ends:
  `StatsFollowServer` names these where it needs them. A server that is up
  answers before a socket times out; one that does not is what the module calls
  silent, and it may be so from any state on.
- `ColumnStore`, `LiveQuery`, `PacketIndexes` and `OfflineSession` have no
  fairness; all their properties are safety.

## 5. Proofs

For every value of the constants, with the assumptions that the modules state:

- **RingBufferProofs.** `[]TypeOK`, `[]RingShape`, `[]NeverAllAsleep`.
  `RingShape` with the types is inductive. `Distance(i)`, how far a slot is
  ahead of tail, replaces modular arithmetic; the lemmas `AheadWraps`,
  `DistanceOfAhead`, `AheadOfDistance` and `OldestAreClose` connect the two.
  `NeverAllAsleep` needs `WaitersOK` besides (a consumer is in the condition's
  list at most once, and only while it is inside `get_batch`): otherwise the
  thread that a `put` wakes might still count as asleep.
  `Implementation` is the refinement `Spec => ImplementsLossyQueue`: the queue is
  the contents of the slots from tail on (`Contents`); `PutMaps` and `PopMaps`
  say what the contents are after a put, which may drop the oldest, and after a
  batch is taken, and every step of the ring is one of the queue's or a stutter
  (`StepMaps`), because all that is left to a consumer is to return what it took.
  Assumed: capacity at least 1 (the constructor raises otherwise) and at least
  one consumer.
- **RWLockProofs.** `[]TypeOK`, `[]Exclusion`, `[]NoLostWakeup`, together
  inductive, for a finite set of threads. The counters equal cardinalities, so
  `readers = 0` in a wait loop's test means that nobody is reading.
  `Implementation` is the refinement `Spec => ImplementsPreferringLock`: with the
  counters read as the sets they count (`TestsMean`), an acquire that returns, at
  once or after any number of wakeups, is one step of the abstract lock, one that
  goes to sleep for writing is its `Wait`, and sleeping again is no step
  (`StepMaps`).
- **CapturePipelineProofs.** All safety properties of the pipeline, for any
  capacity, batch sizes, store and number of records. `RecordsInPlace` follows the
  one sequence `Trail` of the records that are left, from the rows of the store
  over the writer's buffer and batch to the ring: a step moves a record along it,
  adds one at its end or drops one in its middle, so that it stays ordered and
  accounts for the counters. `CountersAgree` ties `next_row`, the number of
  indexed records and the length of the store together, which is what makes an
  index row right before its record is flushed. `ExitProgress` says what is known
  at each place of the writer's loop, and gives `JoinMeansStored`. `AdaptProgress`
  orders the four unlocked reads of `_adapt`: what is about to be logged was
  dropped between the old baseline and the new one, whatever `put` does meanwhile.
- **ColumnStoreProofs.** For any number of columns, rows and crashes.
  `[]MetaNeverAhead`: whatever `meta.json` may say after a power failure is on the
  medium in every column. The strengthening `FlushProgress` says how far a flush
  has come: the columns before the cursor are synced with the batch, the
  current one holds what the cursor says, and the writer's own row count is
  covered everywhere; `CheckProgress` keeps a reader's cursor among the columns.
  `[]OpenedStoreIsWhole` rests on the order of a flush, column by column and each
  synced before the next: a column is never longer than what is synced of an
  earlier one, and if it is as long, it has the same rows (`InStep`, with `Trails`
  for the columns a flush has not finished). Crashes keep this, as they cut an
  earlier column no further than to its synced part. When a reader finds the
  first column as long as `meta.json` said and the others no shorter, they agree,
  and they go on agreeing while files only grow (`ReaderSafe`); the first check
  decides. `[]RoundTrip` adds, for runs without a crash, that row *i* of a column
  is the *i*-th record and that `appended` less the buffer is what `meta.json` says
  (`Uncrashed`).
- **QueryServerProofs.** All safety properties of the server, for any finite pool
  and set of clients, any queue bound and number of requests. `Owners(c)` counts
  the places of a connection: waiting in the kernel (`pending`), with the accept
  loop, in the queue, at a worker, closed. `OneOwner` bounds that sum, and a step moves one
  unit of it. `OneAnswerEach` needs `NothingDue` (a worker starts with a connection
  that owes nothing). `CountedOnce` needs `StatsLocked` (between the two
  halves of `+= 1` a worker is alone and the counter is what it read) and
  `AnswerPending` (only a query is counted, and an ERROR is at hand only while it
  is being sent). `StopProgress`
  ties the sentinels that are still owed to where `stop` is.
- **LiveQueryProofs.** All safety properties of queries beside a capture, for any
  number of columns, any sizes of chunks and flushes, any LIMIT and any set of
  matching rows. `Due` is the number of rows that a scan must get right: those of
  the opened store, or of the whole store while no flush touches it. The heart is
  `Aligned`: until the rows that are due are out, the chunks of all columns begin
  where the result ends, and each is full or reaches beyond the rows that are due.
  So the shortest chunk, which is all that goes out, either is as long as every
  other or completes what is due (`Round`). `ScansAreWhole` and `QuietScansAreExact`
  are its two cases. `IndexQueriesAreSound` follows the candidates column by column
  (`IndexProgress`) through pages that have the rows the indexes know
  (`PagesServe`): the indexes know no more than some column had (`FlushProgress`),
  and a connection opens only when all columns have as much as `meta.json` says,
  so no candidate is beyond its rows (`Phases`), even if the indexes were built in
  the middle of a flush; `AscendingExists` is why the candidates have an order at all: a
  row's place is the number of candidates up to it, and that map has an inverse.
- **IndexProofs.** Four parts.

  *Capture files and the parser.* `[]ImportKeepsGoodFrames` of `CaptureSpec`, for
  any frames, any number of captures and files cut at any byte (`Cuts` is any
  set of distances from the ends of records). The reader's loop has read whole frames only, and all of them
  (`ReaderFindsWholeFrames`); those of them that the parser keeps are those that
  stand for a packet (`KeptFrames`), and it makes the rows of them that `RowsOf`
  says (`ParsedIsRowsOf`), so table and `owed` grow by the same rows.
  Underneath are two theorems about the parser. `ChecksumMeaning`: for a header
  of any length that IPv4 allows and any value of its words, the verifying parser
  keeps the packet exactly if the words' sum is a positive multiple of 65535,
  which is what RFC 1071 asks for. The first fold keeps the remainder modulo 65535
  and whether the sum is zero, and leaves at most 65564; so `parser.py:27-28`,
  which folds twice, never has to fold again. `CaptureSession` judges frames by
  the meaning (`Genuine`) and parses them by the folds. `ParserStaysInFrame`: the
  early returns leave no read beyond the frame.

  *Index structures.* `[]IndexesFindExactly` of `CaptureSpec`, for addresses of
  any width, tables of any size and any store. The invariant is `Exact`: what the
  three structures hold for the rows there are. In the trie a node's count is the
  number of rows whose address begins with its bits, and the leaves' lists have
  each row once, under its address (`ExactTrie`); a bucket is the ascending list of its rows (`ExactTable`); a
  bitmap has the bits of its rows (`ExactBitmaps`). Adding a record keeps it
  (`AddIsExact`), hence a whole import does (`GrowingIsExact`) and a build has it
  (`BuildIsExact`). `ExactFinds` says that lookups in such structures return what a
  filter does; for the trie, because the leaves below a node are those of the
  addresses in its range, whose rows are all different (`PrefixFinds`).

  *The bounded heap.* For any items with keys and any bound `HeapKeepsTheTop`
  says what `top_n` promises: as many items as asked for or there are, the best
  first, each from a place of its own among the items, and none left out that is
  better than one returned. Invariant over the items pushed is `HeapOf`: the heap
  is ordered, no longer than the bound, and `Keeps` the best so far, that is, the
  items that are left out each weigh no more than anything in it, and there are
  such only if it is full. While an item rises it is out of order with its parent
  only, and what is below it is in order with that parent (`OnItsWayUp`); while one
  sinks it is out of order with its children only, and they are in order with its
  parent (`OnItsWayDown`). Each round exchanges two items,
  which loses none (`SwapIs`), and a round that does not break brings the item
  nearer the root, or further down, so that the rounds suffice (`SiftUpIs`,
  `SiftDownIs`). Of an ordered heap the root is the least (`RootIsLeast`), which is
  why an item that does not beat it may be left out (`LeavingOutKeeps`) and one
  that does may replace it (`ReplacingKeeps`). The sort of what is kept is a
  permutation, because the ranks of a strict total order are the numbers below its
  size (`RankIs`, `RanksPutInOrder`). `HeapAgreesWithSort` compares with
  `ORDER BY` alone: place for place the heap returns the keys with which a stable
  sort of all items begins. If some place had a better or a worse key than in the
  sort, *k* different items would have to be among *k* - 1 places (`NoRoomBefore`).

  *Persistence.* `[]FreshWhileUnchanged`, for any number of processes, columns,
  rows and rebuilds. An index and the time it is filed under are `TrueOf` a column
  if that time has been, and the index is the file's content should the file still
  have that time. It holds of what is saved and of what each process has built
  (`SavedIsTrue`, `BuiltIsTrue`): a write makes the time a new one, a column is
  read after its time was taken, and what is dumped goes under the times from
  before the build. Taking them later, as the variant `MtimesNow` does, breaks it.

  These operators are recursive functions over frames, rows and rounds. That such
  a function exists, and what it computes, needs induction over data; the
  library's induction theorems take an operator and cannot be used, so the module
  has its own, about sets: a set of naturals with 0 and the successor of each
  member has all of them (`Induction`, and `InductionUpTo` for a bound), because
  every non-empty set of naturals has a least member (`LeastNatural`, from
  `NatLessThanWellFounded` and `WFMin`).
- **BridgeProofs.** `[]AnswersAreOwn` and `[]SamplesAreTrue`, for any header
  size, number of attempts, timeouts and rows. The invariant follows the one frame
  that a connection carries at a time: nothing, then the request split anywhere
  between wire and server, then a beginning of an answer split anywhere between
  wire and sampler (`OneFrame`). `CompleteIsWhole` is the heart: as the header
  says how long the frame is, what passes for complete is the whole frame.
  `Truthful` adds that an answer to `STATS`, wherever its bytes are, says what was
  true since it was asked for, or is an ERROR, and then a flush was under way; it
  stays so while the store grows. `TotalIsKnown` is what the sampler makes of it.

Assumed of the constants is what the modules state in their `ASSUME`s, which say
what a deployment is: sets are finite, sizes positive, header fields as wide as
they are.

So every safety property of the runs is proved but two. Model-checked only:
liveness (`CloseReleases`, `JoinReturns`, `WaitingWriterEnters`, `ReaderEnters`,
`AcceptedIsClosed`, `StopEndsPool`, `StatsFollowServer`), which the prover does
not reach; and `AnswersAgree` and `LimitKeepsTheTop` of `OfflineSession`, whose
operators walk expression trees and tokens by recursion (`RECURSIVE`, for which
tlapm has no SMT backend) and fold over rows. What they rest on is proved
separately: that lookups in the indexes are exact (`LookupsFindExactly`), so that
candidates are the right rows, and that the heap keeps the keys that the sort would
(`HeapAgreesWithSort`), which is what `LimitKeepsTheTop` says of ORDER BY with LIMIT.
The strengthened invariants of the column store, the pipeline, the
server and the live queries were checked by TLC on the instances of section 3,
the last one also with three columns, before they were proved.

## 6. Findings

`DurablePerBatch` (run `store_durability`): `columnar.py:90` calls a flush
"durable per batch" and `INTERVIEW.md:24` lists it under durability. The values
are fsynced, but a store that has them need not open: if the process dies
between two columns of a later flush, the sizes disagree with `meta.json`; if
it dies between the truncation and the rewriting of `meta.json`, the file is
empty, and neither `ColumnStore` nor an appending `ColumnWriter` can parse it.
The trace TLC prints is of the second kind, and there the restarted writer has
not even appended a row: its constructor rewrites `meta.json` first of all.
`OpenedStoreIsWhole` is the other half of the picture: such a store is refused,
never misread.

`NeverSilentlyStale` (run `live_query_stale`): `CONTRACTS.md:36` says that
indexes must never be silently stale, and `dashboard/README.md:65` recommends a
capture into the very store that a server serves, which "re-reads the store per
connection". The store it does; the indexes it loaded in its constructor
(`server.py:188`). In the trace a row is flushed, a client connects and sees
the new row count, and a query with an indexed predicate does not return the
new row. What does come back is sound (`IndexQueryIsSound`).

The next two are not runs of their own. A passing property is stated so that it
holds in spite of them; without the condition named here TLC refutes it.

`SamplesAreTrue` (run `bridge`): `bridge.py:46` says of `_wire`'s retry that it
"rides over a transient store-write window", and `README.md:192` and
`dashboard/README.md:60` that the total number of packets is "always real". The
retry repeats transport errors only. In a store-write window the server cannot
open the store and answers `STATS` with an ERROR, which `_wire` returns at once;
`pql_total_packets` (`bridge.py:69-72`) does not look at the status and takes an
answer without `rows=` for 0. The dashboard's total falls to 0 for a sample, and
once that sample is the oldest of the last five seconds, `_rate` takes the way
back up for traffic. The property has the condition
`~window` (no flush under way since the rows were asked for); without it, it is
violated in ten states.

`ImportKeepsGoodFrames` (run `session`): `CONTRACTS.md:23` says that the parser
must never "trust a packet without verifying its IP checksum", and `README.md:52`
that corrupt frames are "not silently stored". `capture_live` does not verify it
(`pipeline.py:105`), and the frames it gets, a blank checksum included, are
stored; `owed` counts them, as sound packets for a caller that does not ask for
the check. `RUNBOOK.md:205-207`, the comment at `pipeline.py:101-104` and
`tests/test_parser.py:25-33` say why (checksum offload blanks the host's own
packets). So the code does what it means to, and the contract lacks the
exception.

Met while modelling, and at most in tension with a document:

- Writers are not ordered among themselves: `acquire_write` does not look at
  `_writers_waiting`, so a writer that comes back may take the lock before the
  waiting one that its release has woken, again and again. `INTERVIEW.md:188-189`
  says that a writer "gets exclusive access without starving"; what follows there
  (`:191-193`) promises it against "a steady stream of readers", and that is what
  `WaitingWriterEnters` says. Without its condition on the other writers it is
  violated. Nobody in the program takes the lock for writing yet.

- A scan beside a flush may return torn rows, or fail with `IndexError`, beyond
  the rows that the store had when the connection opened it: chunks of two
  columns end at different rows, and later chunks stay displaced. The rows up
  to there are always whole and in place (`ScanSeesSnapshot`).
- A server that starts beside a capture may end with an `IndexError`: the bitmap
  has room for the rows that `meta.json` gave, and the column has more by the
  time it is read (`GivesUp` in `PacketIndexes`).
- A connection that the accept loop puts into the queue behind the sentinels of
  `stop` is neither served nor closed; `AcceptedIsClosed` is about the others. A
  client that stays connected and idle keeps its worker, and if each worker is
  kept so, `stop` blocks; the liveness of `stop` assumes that clients hang up.
- A sample is stamped when its SUM has ended, even in a timeout
  (`bridge.py:77-85`). If the server falls silent between the two requests,
  `/api/stats` answers 200 for another four seconds after nine in which the
  server answered nothing; then 503 for good (`StatsFollowServer`).
- With an index, a literal that its column cannot hold is answered differently
  than by a scan: `src_ip = '256.0.0.5'` finds 0.0.0.5, `src_ip LIKE '300.%'`
  finds 44.x, `src_ip LIKE '1.2.3.4.5'` ends in a `ValueError` and
  `dst_port = 80.0` in a `TypeError`, where the scan finds nothing for the first
  two, 1.2.3.4 and port 80. `tests/test_index.py:52` compares the two for
  literals in range, and so does `AnswersAgree`.
- `LIMIT` with ties at the boundary may keep other rows than the full sort
  would show first: the heap replaces its root only by an item that beats it,
  and then by whichever tie is on top (`topn.py:57`). SQL allows it;
  `LimitKeepsTheTop` compares keys.

## 7. Not modelled, and the plan

Not modelled, by part. *SQL:* the lexer, malformed statements (`QueryParser` has
their errors, but no query of a session is malformed), `AVG`, `EXPLAIN`,
literals out of range. *Packets:* timestamps, TTL, flags, source
port and destination address, which the parser copies like the fields that are
modelled; pcap files in the other byte order. *Wire:* `encode_result` and
`decode_result`. *Bridge:* rates, time series and its window of 65 s,
`/api/query`. *Programs:* command lines, the web page, fixtures and benchmarks.
These are sequential and covered by the unit tests. *Failures:* write errors
that leave a value half written (the size check treats it like a missing value);
loss of a directory entry in a power failure; a producer that ends without
closing the ring.

`PacketIndexes` assumes that every write to a file changes its modification
time, and leaves out that two processes that write `indexes.pkl` at a time
might produce a mixture that still loads. `LiveQuery` leaves out that a flush
may show part of a value, and that a capture crashes under a server.

Still to come, in this order:

1. `ColumnStore` extended by `write_store` over an existing store and a reader
   that holds it open.
2. Malformed statements, `EXPLAIN` and `AVG`.
3. Result encoding: `decode_result` inverts `encode_result`.
