----------------------------- MODULE QueryServer -----------------------------
(***************************************************************************)
(* packetql/server.py, class QueryServer: the accept loop puts connections *)
(* into a bounded queue, a fixed pool of worker threads serves one         *)
(* connection each, and stop sends every worker a sentinel down the same   *)
(* queue.  Clients connect, send requests and hang up when they like.      *)
(*                                                                         *)
(* A request is its message type, which the server learns when it reads    *)
(* it; what the store or the query engine makes of it is a choice between  *)
(* an answer and an exception.  The readers-writer lock around a query is  *)
(* left out: nothing in the server ever acquires it to write, so (RWLock)  *)
(* no reader waits for it.                                                 *)
(***************************************************************************)
EXTENDS Integers, Sequences, FiniteSets

CONSTANTS Clients, Workers,
          Backlog,        \* maxsize of the queue
          Sentinel,       \* the None that stop puts
          MaxRequests     \* bound on the requests sent

ASSUME PoolAssumption == IsFiniteSet(Workers) /\ Workers # {}
ASSUME BacklogAssumption == Backlog \in Nat \ {0} /\ MaxRequests \in Nat
ASSUME SentinelAssumption == Sentinel \notin Clients

Kinds == {"PING", "STATS", "QUERY", "other"}

VARIABLES
  client,       \* each client's side: "new", "connected", "gone"
  inbox,        \* how many requests it has sent that the server has not read
  requests,     \* how many were sent in all
  due,          \* requests of a client that were read and not answered
  pending,      \* connections the kernel has not handed to accept
  listening,    \* the listening socket is open
  running,      \* _running
  acceptor, arriving,    \* the accept thread, and the connection it holds
  queue,
  stopper, owed,         \* the thread in stop, and the sentinels it has to put
  pc,           \* what each worker does
  conn,         \* the connection it serves
  hasStore,     \* _serve has opened the store for it
  request, answer,       \* the request at hand, and the status of its answer
  queries,      \* _queries
  seen,         \* the value of _queries a worker is about to add one to
  statsHeld,    \* _stats_lock is held
  settled,      \* the QUERY results that were sent, or could not be
  closed        \* connections the workers have closed

clientVars == <<client, inbox, requests>>
acceptVars == <<pending, acceptor, arriving>>
stopVars == <<listening, running, stopper, owed>>
serveVars == <<conn, hasStore, request, answer, due>>
statsVars == <<queries, seen, statsHeld, settled>>
vars == <<clientVars, acceptVars, stopVars, queue, pc, serveVars, statsVars, closed>>

\* As many sentinels as workers.  (Faulty variant: one for all of them.)
OneSentinel == 1
Sentinels == Cardinality(Workers)

\* The state in which start returns.
Init ==
  /\ client = [c \in Clients |-> "new"] /\ inbox = [c \in Clients |-> 0]
  /\ requests = 0 /\ due = [c \in Clients |-> 0]
  /\ pending = <<>> /\ listening = TRUE /\ running = TRUE
  /\ acceptor = "test" /\ arriving = Sentinel
  /\ queue = <<>>
  /\ stopper = "away" /\ owed = Sentinels
  /\ pc = [w \in Workers |-> "get"]
  /\ conn = [w \in Workers |-> Sentinel]
  /\ hasStore = [w \in Workers |-> FALSE]
  /\ request = [w \in Workers |-> "PING"] /\ answer = [w \in Workers |-> "OK"]
  /\ queries = 0 /\ seen = [w \in Workers |-> 0]
  /\ statsHeld = FALSE /\ settled = 0
  /\ closed = {}

-------------------------------------------------------------------------------
(* Clients, and the kernel's side of the listening socket: close does not    *)
(* take it away from an accept that is under way.                            *)

SocketAlive == listening \/ acceptor = "accept"

Connect(c) ==
  /\ client[c] = "new"
  /\ SocketAlive
  /\ client' = [client EXCEPT ![c] = "connected"]
  /\ pending' = Append(pending, c)
  /\ UNCHANGED <<inbox, requests, acceptor, arriving, stopVars, queue, pc, serveVars,
                 statsVars, closed>>

Send(c) ==
  /\ client[c] = "connected"
  /\ requests < MaxRequests
  /\ inbox' = [inbox EXCEPT ![c] = @ + 1]
  /\ requests' = requests + 1
  /\ UNCHANGED <<client, acceptVars, stopVars, queue, pc, serveVars, statsVars, closed>>

HangUp(c) ==
  /\ client[c] = "connected"
  /\ client' = [client EXCEPT ![c] = "gone"]
  /\ UNCHANGED <<inbox, requests, acceptVars, stopVars, queue, pc, serveVars, statsVars,
                 closed>>

-------------------------------------------------------------------------------
(* The accept loop.                                                          *)

AcceptorGoes(from, to) ==
  /\ acceptor = from /\ acceptor' = to
  /\ UNCHANGED <<clientVars, stopVars, pc, serveVars, statsVars, closed>>

TestRunning ==
  /\ AcceptorGoes("test", IF running THEN "call" ELSE "done")
  /\ UNCHANGED <<pending, arriving, queue>>

CallAccept ==
  /\ AcceptorGoes("call", IF listening THEN "accept" ELSE "done")
  /\ UNCHANGED <<pending, arriving, queue>>

Accept ==
  /\ pending # <<>>
  /\ AcceptorGoes("accept", "put")
  /\ arriving' = Head(pending)
  /\ pending' = Tail(pending)
  /\ UNCHANGED queue

\* Any OSError of accept ends the loop for good: a connection that was aborted,
\* no file descriptor left, or the socket closed under it where closing wakes
\* accept.  The socket stays open unless stop closes it.
AcceptFails ==
  /\ AcceptorGoes("accept", "done")
  /\ UNCHANGED <<pending, arriving, queue>>

\* (Faulty variant: the queue has no bound.)
Unbounded == TRUE
HasRoom == Len(queue) < Backlog

PutConnection ==
  /\ HasRoom
  /\ AcceptorGoes("put", "test")
  /\ queue' = Append(queue, arriving)
  /\ arriving' = Sentinel
  /\ UNCHANGED pending

-------------------------------------------------------------------------------
(* stop.                                                                     *)

StopperGoes(from, to) ==
  /\ stopper = from /\ stopper' = to
  /\ UNCHANGED <<clientVars, acceptVars, pc, serveVars, statsVars, closed>>

Stop ==
  /\ StopperGoes("away", "close")
  /\ running' = FALSE
  /\ UNCHANGED <<listening, owed, queue>>

CloseSocket ==
  /\ StopperGoes("close", "put")
  /\ listening' = FALSE
  /\ UNCHANGED <<running, owed, queue>>

PutSentinel ==
  /\ HasRoom
  /\ StopperGoes("put", IF owed = 1 THEN "stopped" ELSE "put")
  /\ queue' = Append(queue, Sentinel)
  /\ owed' = owed - 1
  /\ UNCHANGED <<listening, running>>

-------------------------------------------------------------------------------
(* A worker: _worker and, between "receive" and the closing, _serve.         *)

WorkerGoes(w, from, to) ==
  /\ pc[w] = from /\ pc' = [pc EXCEPT ![w] = to]
  /\ UNCHANGED <<acceptVars, stopVars>>

Get(w) ==
  /\ queue # <<>>
  /\ WorkerGoes(w, "get", IF Head(queue) = Sentinel THEN "ended" ELSE "receive")
  /\ queue' = Tail(queue)
  /\ conn' = [conn EXCEPT ![w] = Head(queue)]
  /\ UNCHANGED <<clientVars, hasStore, request, answer, due, statsVars, closed>>

\* recv_frame.  A PING is answered without the store.
Receive(w) ==
  LET c == conn[w]
  IN  /\ pc[w] = "receive"
      /\ inbox[c] # 0
      /\ inbox' = [inbox EXCEPT ![c] = @ - 1]
      /\ \E kind \in Kinds :
           /\ request' = [request EXCEPT ![w] = kind]
           /\ WorkerGoes(w, "receive", IF kind = "PING" THEN "reply" ELSE "execute")
      /\ due' = [due EXCEPT ![c] = @ + 1]
      /\ UNCHANGED <<client, requests, queue, conn, hasStore, answer, statsVars, closed>>

\* _serve is left, and its locals are gone.
LeaveServe(w, from, to) ==
  /\ WorkerGoes(w, from, to)
  /\ client[conn[w]] = "gone"
  /\ hasStore' = [hasStore EXCEPT ![w] = FALSE]
  /\ request' = [request EXCEPT ![w] = "PING"]
  /\ answer' = [answer EXCEPT ![w] = "OK"]
  /\ UNCHANGED <<clientVars, queue, conn, due, statsVars, closed>>

\* ConnectionError: the peer is gone, and what it sent may be gone with it.
ReceiveFails(w) == LeaveServe(w, "receive", "close")

\* A connection opens the store for its first request that needs it, and tries
\* again for the next one if that fails.
StoreUnavailable(w) ==
  /\ ~hasStore[w]
  /\ WorkerGoes(w, "execute", "reply")
  /\ answer' = [answer EXCEPT ![w] = "ERROR"]
  /\ UNCHANGED hasStore

\* With the store open STATS is answered, an unknown type is refused, and a
\* QUERY does either.
Dispatch(w) ==
  /\ hasStore' = [hasStore EXCEPT ![w] = TRUE]
  /\ \/ request[w] = "QUERY" /\ WorkerGoes(w, "execute", "count") /\ UNCHANGED answer
     \/ request[w] = "STATS" /\ WorkerGoes(w, "execute", "reply") /\ UNCHANGED answer
     \/ /\ request[w] # "STATS" /\ WorkerGoes(w, "execute", "reply")
        /\ answer' = [answer EXCEPT ![w] = "ERROR"]

Execute(w) ==
  /\ StoreUnavailable(w) \/ Dispatch(w)
  /\ UNCHANGED <<clientVars, queue, conn, request, due, statsVars, closed>>

\* with self._stats_lock: self._queries += 1, a load and a store.  (Faulty
\* variant of StatsFree: without the lock.)
NoLock == TRUE
StatsFree == ~statsHeld

LoadQueries(w) ==
  /\ StatsFree
  /\ WorkerGoes(w, "count", "add")
  /\ seen' = [seen EXCEPT ![w] = queries]
  /\ statsHeld' = TRUE
  /\ UNCHANGED <<clientVars, queue, serveVars, queries, settled, closed>>

StoreQueries(w) ==
  /\ WorkerGoes(w, "add", "reply")
  /\ queries' = seen[w] + 1
  /\ seen' = [seen EXCEPT ![w] = 0]
  /\ statsHeld' = FALSE
  /\ UNCHANGED <<clientVars, queue, serveVars, settled, closed>>

\* Where _serve goes on after an answer.  (Faulty variant: the continue after
\* the pong is missing.)
FallThrough(w) == IF request[w] = "PING" THEN "execute" ELSE "receive"
NextRequest(w) == "receive"

Reply(w) ==        \* and the request and its answer are gone
  /\ WorkerGoes(w, "reply", NextRequest(w))
  /\ request' = [request EXCEPT ![w] = "PING"]
  /\ answer' = [answer EXCEPT ![w] = "OK"]
  /\ due' = [due EXCEPT ![conn[w]] = @ - 1]
  /\ settled' = IF request[w] = "QUERY" /\ answer[w] = "OK" THEN settled + 1 ELSE settled
  /\ UNCHANGED <<clientVars, queue, conn, hasStore, queries, seen, statsHeld, closed>>

\* The result of a QUERY cannot be encoded, or not be sent: its handler goes on
\* with the exception as the answer.
ResultFails(w) ==
  /\ request[w] = "QUERY" /\ answer[w] = "OK"
  /\ WorkerGoes(w, "reply", "reply")
  /\ answer' = [answer EXCEPT ![w] = "ERROR"]
  /\ settled' = settled + 1
  /\ UNCHANGED <<clientVars, queue, conn, hasStore, request, due, queries, seen, statsHeld,
                 closed>>

\* Any other answer that cannot be sent, the client being gone, ends _serve.
SendFails(w) ==
  /\ request[w] # "QUERY" \/ answer[w] = "ERROR"
  /\ LeaveServe(w, "reply", "failed")

ReplyFails(w) == ResultFails(w) \/ SendFails(w)

\* Where _worker goes on after a connection.  (Faulty variants: an exception that
\* left _serve is not caught and ends the thread; the loop is "while _running".)
DieOnError(w) == IF pc[w] = "failed" THEN "ended" ELSE "get"
WhileRunning(w) == IF running THEN "get" ELSE "ended"
NextConnection(w) == "get"

\* (Faulty variant of Closed: conn.close is not in a finally.)
ClosedUnlessFailed(w) == IF pc[w] = "failed" THEN closed ELSE closed \cup {conn[w]}
Closed(w) == closed \cup {conn[w]}

\* With the connection go the requests that nobody has read or answered.
Close(w) ==
  /\ \E from \in {"close", "failed"} : WorkerGoes(w, from, NextConnection(w))
  /\ closed' = Closed(w)
  /\ conn' = [conn EXCEPT ![w] = Sentinel]
  /\ inbox' = [inbox EXCEPT ![conn[w]] = 0]
  /\ due' = [due EXCEPT ![conn[w]] = 0]
  /\ UNCHANGED <<client, requests, queue, hasStore, request, answer, statsVars>>

-------------------------------------------------------------------------------

AcceptorStep == TestRunning \/ CallAccept \/ Accept \/ PutConnection
StopperStep == CloseSocket \/ PutSentinel
WorkerStep(w) ==
  \/ Get(w) \/ Receive(w) \/ ReceiveFails(w) \/ Execute(w)
  \/ LoadQueries(w) \/ StoreQueries(w) \/ Reply(w) \/ ReplyFails(w) \/ Close(w)

Ended == stopper = "stopped" /\ \A w \in Workers : pc[w] = "ended"
Terminated == Ended /\ UNCHANGED vars

Next ==
  \/ \E c \in Clients : Connect(c) \/ Send(c) \/ HangUp(c)
  \/ AcceptorStep \/ AcceptFails
  \/ Stop \/ StopperStep
  \/ \E w \in Workers : WorkerStep(w)
  \/ Terminated

\* The threads run, stop ends once begun, and clients hang up some time.
Fairness ==
  /\ WF_vars(AcceptorStep) /\ WF_vars(StopperStep)
  /\ \A w \in Workers : WF_vars(WorkerStep(w))
  /\ WF_vars(\E c \in Clients : HangUp(c))

Spec == Init /\ [][Next]_vars /\ Fairness

-------------------------------------------------------------------------------

Serving == {"receive", "execute", "count", "add", "reply", "close", "failed"}

\* Types, and the queue within its bound.
TypeOK ==
  /\ client \in [Clients -> {"new", "connected", "gone"}]
  /\ inbox \in [Clients -> Nat] /\ requests \in 0 .. MaxRequests
  /\ due \in [Clients -> Int]
  /\ pending \in Seq(Clients) /\ listening \in BOOLEAN /\ running \in BOOLEAN
  /\ acceptor \in {"test", "call", "accept", "put", "done"}
  /\ arriving \in Clients \cup {Sentinel}
  /\ queue \in Seq(Clients \cup {Sentinel}) /\ Len(queue) <= Backlog
  /\ stopper \in {"away", "close", "put", "stopped"}
  /\ owed \in 0 .. Cardinality(Workers)
  /\ pc \in [Workers -> Serving \cup {"get", "ended"}]
  /\ conn \in [Workers -> Clients \cup {Sentinel}]
  /\ \A w \in Workers : pc[w] \in Serving => conn[w] \in Clients
  /\ hasStore \in [Workers -> BOOLEAN]
  /\ request \in [Workers -> Kinds] /\ answer \in [Workers -> {"OK", "ERROR"}]
  /\ queries \in Nat /\ seen \in [Workers -> Nat] /\ statsHeld \in BOOLEAN
  /\ settled \in Nat /\ closed \subseteq Clients

Alive == {w \in Workers : pc[w] # "ended"}
SentinelsQueued == {i \in DOMAIN queue : queue[i] = Sentinel}

\* No request, failure or client that goes away costs the pool a worker, and
\* stop tells each of them: there are at any time as many workers as sentinels
\* that stop has yet to put or that wait in the queue.
PoolMatchesSentinels ==
  Cardinality(Alive) = owed + Cardinality(SentinelsQueued)

\* A connection is in one place between the kernel and its closing, and never
\* handed to two workers.
OneOwner ==
  \A c \in Clients :
    Cardinality({w \in Workers : pc[w] \in Serving /\ conn[w] = c})
      + Cardinality({i \in DOMAIN queue : queue[i] = c})
      + Cardinality({i \in DOMAIN pending : pending[i] = c})
      + (IF acceptor = "put" /\ arriving = c THEN 1 ELSE 0)
      + (IF c \in closed THEN 1 ELSE 0)
    = IF client[c] = "new" THEN 0 ELSE 1

\* A request is answered once, and before the next one is read, whatever the
\* store and the query make of it.
OneAnswerEach ==
  \A w \in Workers :
    /\ pc[w] = "receive" => due[conn[w]] = 0
    /\ pc[w] \in {"execute", "count", "add", "reply"} => due[conn[w]] = 1

\* The queries that are counted and whose result is being sent.
Sending == {w \in Workers : pc[w] = "reply" /\ request[w] = "QUERY" /\ answer[w] = "OK"}

\* Every query is counted once, between its execution and its answer: no
\* increment is lost between the workers or made twice, an answered query is in
\* the number that STATS gives, and one whose result then fails is in it too.
CountedOnce == queries = settled + Cardinality(Sending)

\* While a worker is left, a connection in the queue ahead of every sentinel is
\* served and closed.  (One that the accept loop puts behind the sentinels is
\* not: stop does not wait for that loop.)
Ahead(c) ==
  /\ Alive # {}
  /\ \E i \in DOMAIN queue : queue[i] = c /\ \A j \in 1 .. i : queue[j] # Sentinel
AcceptedIsClosed == \A c \in Clients : Ahead(c) ~> c \in closed

\* stop returns although the queue may be full, and all workers end.
StopEndsPool == (stopper # "away") ~> Ended
===============================================================================
