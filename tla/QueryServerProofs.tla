-------------------------- MODULE QueryServerProofs --------------------------
(***************************************************************************)
(* What the accept loop, the pool and stop promise about workers,          *)
(* connections, answers and the query counter, for any finite pool, any    *)
(* set of clients, any bound of the queue and any number of requests.      *)
(***************************************************************************)
EXTENDS QueryServer, FiniteSetTheorems, SequenceTheorems, TLAPS

\* How often x occurs in s, and where a connection may be.
Places(s, x) == {i \in DOMAIN s : s[i] = x}
Count(s, x) == Cardinality(Places(s, x))
ServedBy(c) == {w \in Workers : pc[w] \in Serving /\ conn[w] = c}
AtAcceptor(c) == IF acceptor = "put" /\ arriving = c THEN 1 ELSE 0
IsClosed(c) == IF c \in closed THEN 1 ELSE 0
Owners(c) ==
  Cardinality(ServedBy(c)) + Count(queue, c) + Count(pending, c) + AtAcceptor(c) + IsClosed(c)

\* stop has as many sentinels left to put as it says; what the accept loop is
\* about to put is a connection.
StopProgress ==
  /\ stopper = "stopped" <=> owed = 0
  /\ acceptor = "put" => arriving \in Clients

\* What no worker serves, and has not been closed, has no answer due: a worker
\* that takes it from the queue starts with none.
NothingDue ==
  \A c \in Clients : ServedBy(c) = {} /\ c \notin closed => due[c] = 0

\* The lock around the counter: a worker between load and store is the only one
\* there, and the counter is what it loaded.
StatsLocked ==
  /\ \A w \in Workers : pc[w] = "add" => statsHeld /\ seen[w] = queries
  /\ \A v, w \in Workers : pc[v] = "add" /\ pc[w] = "add" => v = w

\* Until there is an answer its status is the one that a result would have, and
\* only queries are counted: so what is counted is then being sent.
AnswerPending ==
  \A w \in Workers :
    /\ pc[w] # "reply" => answer[w] = "OK"
    /\ pc[w] \in {"count", "add"} => request[w] = "QUERY"

IInv ==
  /\ TypeOK /\ StopProgress
  /\ PoolMatchesSentinels /\ OneOwner
  /\ OneAnswerEach /\ NothingDue
  /\ StatsLocked /\ AnswerPending /\ CountedOnce

-------------------------------------------------------------------------------
(* Counting.                                                                 *)

\* The places of x in a sequence are finitely many.
LEMMA CountIsNat ==
  ASSUME NEW S, NEW s \in Seq(S), NEW x
  PROVE  /\ IsFiniteSet(Places(s, x))
         /\ Count(s, x) \in Nat
         /\ Count(s, x) = 0 <=> \A i \in 1 .. Len(s) : s[i] # x
<1>1. Len(s) \in Nat /\ DOMAIN s = 1 .. Len(s)
  BY LenProperties
<1>2. IsFiniteSet(1 .. Len(s))
  BY <1>1, FS_Interval
<1>3. Places(s, x) \in SUBSET (1 .. Len(s))
  BY <1>1 DEF Places
<1>4. IsFiniteSet(Places(s, x))
  BY <1>2, <1>3, FS_Subset
<1>5. Cardinality(Places(s, x)) = 0 <=> Places(s, x) = {}
  BY <1>4, FS_EmptySet
<1>6. Places(s, x) = {} <=> \A i \in 1 .. Len(s) : s[i] # x
  BY <1>1 DEF Places
<1> QED
  BY <1>4, <1>5, <1>6, FS_CardinalityType DEF Count

\* put adds one place at the end.
LEMMA CountAppend ==
  ASSUME NEW S, NEW s \in Seq(S), NEW e \in S, NEW x
  PROVE  Count(Append(s, e), x) = Count(s, x) + (IF e = x THEN 1 ELSE 0)
<1> DEFINE a == Append(s, e)
<1>1. Len(s) \in Nat /\ DOMAIN s = 1 .. Len(s)
  BY LenProperties
<1>2. /\ a \in Seq(S) /\ Len(a) = Len(s) + 1
      /\ \A i \in 1 .. Len(s) : a[i] = s[i]
      /\ a[Len(s) + 1] = e
  BY AppendProperties
<1>3. DOMAIN a = 1 .. Len(s) + 1
  BY <1>2, LenProperties
<1> HIDE DEF a
<1>4. IsFiniteSet(Places(s, x)) /\ Count(s, x) \in Nat
  BY CountIsNat
<1>5. Places(s, x) \subseteq 1 .. Len(s)
  BY <1>1 DEF Places
<1>6. CASE e = x
  <2>1. Places(a, x) = Places(s, x) \cup {Len(s) + 1}
    BY <1>1, <1>2, <1>3, <1>6 DEF Places
  <2>2. Len(s) + 1 \notin Places(s, x)
    BY <1>1, <1>5
  <2> QED
    BY <1>4, <1>6, <2>1, <2>2, FS_AddElement DEF Count, a
<1>7. CASE e # x
  <2>1. Places(a, x) = Places(s, x)
    BY <1>1, <1>2, <1>3, <1>7 DEF Places
  <2> QED
    BY <1>4, <1>7, <2>1 DEF Count, a
<1> QED
  BY <1>6, <1>7

\* get takes one place away at the front, and moves the others up.
LEMMA CountTail ==
  ASSUME NEW S, NEW s \in Seq(S), s # <<>>, NEW x
  PROVE  /\ Count(Tail(s), x) = Count(s, x) - (IF Head(s) = x THEN 1 ELSE 0)
         /\ Head(s) = x => Count(s, x) >= 1
<1> DEFINE t == Tail(s)
           rest == Places(s, x) \ {1}
<1>1. Len(s) \in Nat /\ Len(s) # 0 /\ DOMAIN s = 1 .. Len(s)
  BY LenProperties, EmptySeq
<1>2. t \in Seq(S) /\ Len(t) = Len(s) - 1 /\ \A i \in 1 .. Len(t) : t[i] = s[i + 1]
  BY HeadTailProperties
<1>3. DOMAIN t = 1 .. Len(t)
  BY <1>2, LenProperties
<1> HIDE DEF t
<1>4. /\ IsFiniteSet(Places(s, x)) /\ Count(s, x) \in Nat
      /\ IsFiniteSet(Places(t, x)) /\ Count(t, x) \in Nat
  BY <1>2, CountIsNat
<1>5. /\ IsFiniteSet(rest)
      /\ Cardinality(rest) = IF 1 \in Places(s, x) THEN Count(s, x) - 1 ELSE Count(s, x)
  BY <1>4, FS_RemoveElement DEF Count
<1>6. 1 \in Places(s, x) <=> Head(s) = x
  BY <1>1 DEF Places
<1>7. Cardinality(rest) = Count(t, x)
  <2> DEFINE f == [i \in Places(t, x) |-> i + 1]
  <2>1. \A i \in Places(t, x) : i \in 1 .. Len(t) /\ i + 1 \in rest
    BY <1>1, <1>2, <1>3 DEF Places
  <2>2. \A j \in rest : j - 1 \in Places(t, x) /\ (j - 1) + 1 = j
    BY <1>1, <1>2, <1>3 DEF Places
  <2> HIDE DEF rest
  <2>3. f \in [Places(t, x) -> rest]
    BY <2>1
  <2>4. \A i, j \in Places(t, x) : f[i] = f[j] => i = j
    BY <2>1
  <2>5. \A j \in rest : \E i \in Places(t, x) : f[i] = j
    <3> TAKE j \in rest
    <3>1. j - 1 \in Places(t, x) /\ f[j - 1] = j
      BY <2>2
    <3> QED
      BY <3>1
  <2> HIDE DEF f
  <2>6. f \in Bijection(Places(t, x), rest)
    BY <2>3, <2>4, <2>5 DEF Bijection, Injection, Surjection, IsInjective
  <2>7. ExistsBijection(Places(t, x), rest)
    BY <2>6 DEF ExistsBijection
  <2> QED
    BY <1>4, <2>7, FS_Bijection DEF Count
<1>8. Cardinality(rest) \in Nat
  BY <1>5, FS_CardinalityType
<1> HIDE DEF rest
<1> QED
  BY <1>4, <1>5, <1>6, <1>7, <1>8 DEF t

\* A connection has finitely many owners, each counted at least zero times.
LEMMA OwnersAreNat ==
  ASSUME TypeOK, NEW c \in Clients
  PROVE  /\ IsFiniteSet(ServedBy(c)) /\ Cardinality(ServedBy(c)) \in Nat
         /\ Cardinality(ServedBy(c)) = 0 <=> ServedBy(c) = {}
         /\ Count(queue, c) \in Nat /\ Count(pending, c) \in Nat
         /\ AtAcceptor(c) \in {0, 1} /\ IsClosed(c) \in {0, 1}
<1>1. ServedBy(c) \in SUBSET Workers
  BY DEF ServedBy
<1>2. IsFiniteSet(ServedBy(c))
  BY <1>1, PoolAssumption, FS_Subset
<1>3. Cardinality(ServedBy(c)) = 0 <=> ServedBy(c) = {}
  BY <1>2, FS_EmptySet
<1>4. Count(queue, c) \in Nat /\ Count(pending, c) \in Nat
  BY CountIsNat DEF TypeOK
<1> QED
  BY <1>2, <1>3, <1>4, FS_CardinalityType DEF AtAcceptor, IsClosed

LEMMA OwnersAreOne ==
  OneOwner <=> \A c \in Clients : Owners(c) = IF client[c] = "new" THEN 0 ELSE 1
BY DEF OneOwner, Owners, ServedBy, Count, Places, AtAcceptor, IsClosed

LEMMA OwnersStayOne ==
  ASSUME \A c \in Clients : Owners(c)' = IF client'[c] = "new" THEN 0 ELSE 1
  PROVE  OneOwner'
BY DEF OneOwner, Owners, ServedBy, Count, Places, AtAcceptor, IsClosed

\* Two owners of a connection are one.
LEMMA OnlyServer ==
  ASSUME TypeOK, OneOwner, NEW w \in Workers, pc[w] \in Serving
  PROVE  /\ conn[w] \in Clients /\ conn[w] \notin closed
         /\ ServedBy(conn[w]) = {w}
         /\ client[conn[w]] # "new"
         /\ Count(queue, conn[w]) = 0 /\ Count(pending, conn[w]) = 0
         /\ AtAcceptor(conn[w]) = 0
<1> DEFINE c == conn[w]
<1>1. c \in Clients
  BY DEF TypeOK
<1>2. w \in ServedBy(c)
  BY DEF ServedBy
<1> HIDE DEF c
<1>3. Owners(c) <= 1 /\ (client[c] = "new" => Owners(c) = 0)
  BY <1>1, OwnersAreOne
<1>4. /\ IsFiniteSet(ServedBy(c)) /\ Cardinality(ServedBy(c)) \in Nat
      /\ Cardinality(ServedBy(c)) # 0
      /\ Count(queue, c) \in Nat /\ Count(pending, c) \in Nat
      /\ AtAcceptor(c) \in {0, 1} /\ IsClosed(c) \in {0, 1}
  BY <1>1, <1>2, OwnersAreNat
<1>5. /\ Cardinality(ServedBy(c)) = 1 /\ Count(queue, c) = 0 /\ Count(pending, c) = 0
      /\ AtAcceptor(c) = 0 /\ IsClosed(c) = 0 /\ client[c] # "new"
  BY <1>3, <1>4 DEF Owners
<1>6. PICK x : ServedBy(c) = {x}
  BY <1>4, <1>5, FS_Singleton
<1>7. ServedBy(c) = {w}
  BY <1>2, <1>6
<1>8. c \notin closed
  BY <1>5 DEF IsClosed
<1> QED
  BY <1>1, <1>5, <1>7, <1>8 DEF c

\* A connection that waits in the queue is nobody's yet.
LEMMA NobodyServes ==
  ASSUME TypeOK, OneOwner, NEW c \in Clients, Count(queue, c) >= 1
  PROVE  ServedBy(c) = {} /\ c \notin closed
<1>1. Owners(c) <= 1
  BY OwnersAreOne
<1>2. /\ Cardinality(ServedBy(c)) \in Nat
      /\ Cardinality(ServedBy(c)) = 0 <=> ServedBy(c) = {}
      /\ Count(queue, c) \in Nat /\ Count(pending, c) \in Nat
      /\ AtAcceptor(c) \in {0, 1} /\ IsClosed(c) \in {0, 1}
  BY OwnersAreNat
<1>3. Cardinality(ServedBy(c)) = 0 /\ IsClosed(c) = 0
  BY <1>1, <1>2 DEF Owners
<1> QED
  BY <1>2, <1>3 DEF IsClosed

\* The workers' own parts of the invariant stay as long as the workers do.
WorkersStay == UNCHANGED <<pc, conn, hasStore, request, answer, due, queries, seen,
                           statsHeld, settled, closed>>

LEMMA WorkersStayKeeps ==
  ASSUME IInv, WorkersStay
  PROVE  /\ OneAnswerEach' /\ NothingDue' /\ StatsLocked' /\ AnswerPending' /\ CountedOnce'
         /\ Alive' = Alive
         /\ \A c \in Clients : ServedBy(c)' = ServedBy(c) /\ IsClosed(c)' = IsClosed(c)
<1>1. /\ UNCHANGED <<pc, conn, hasStore, request, answer, due, queries>>
      /\ UNCHANGED <<seen, statsHeld, settled, closed>>
  BY DEF WorkersStay
<1>2. /\ Alive' = Alive /\ Sending' = Sending
      /\ \A c \in Clients : ServedBy(c)' = ServedBy(c) /\ IsClosed(c)' = IsClosed(c)
  BY <1>1 DEF Alive, Sending, ServedBy, IsClosed
<1>3. OneAnswerEach'
  BY <1>1 DEF IInv, OneAnswerEach
<1>4. NothingDue'
  BY <1>1, <1>2 DEF IInv, NothingDue
<1>5. StatsLocked'
  BY <1>1 DEF IInv, StatsLocked
<1>6. AnswerPending'
  BY <1>1 DEF IInv, AnswerPending
<1>7. CountedOnce'
  BY <1>1, <1>2 DEF IInv, CountedOnce
<1> QED
  BY <1>2, <1>3, <1>4, <1>5, <1>6, <1>7

-------------------------------------------------------------------------------
(* Clients, the accept loop and stop.                                        *)

LEMMA ConnectKeeps == ASSUME IInv, NEW d \in Clients, Connect(d) PROVE IInv'
<1>1. /\ client[d] = "new" /\ client' = [client EXCEPT ![d] = "connected"]
      /\ pending' = Append(pending, d)
      /\ UNCHANGED <<inbox, requests, acceptor, arriving, listening, running, stopper,
                     owed, queue>>
      /\ WorkersStay
  BY DEF Connect, stopVars, serveVars, statsVars, WorkersStay
<1>2. /\ OneAnswerEach' /\ NothingDue' /\ StatsLocked' /\ AnswerPending' /\ CountedOnce'
      /\ Alive' = Alive
      /\ \A c \in Clients : ServedBy(c)' = ServedBy(c) /\ IsClosed(c)' = IsClosed(c)
  BY <1>1, WorkersStayKeeps
<1>3. pending \in Seq(Clients)
  BY DEF IInv, TypeOK
<1>4. pending' \in Seq(Clients)
  BY <1>1, <1>3, AppendProperties
<1>5. TypeOK'
  BY <1>1, <1>4 DEF IInv, TypeOK, WorkersStay
<1>6. StopProgress' /\ PoolMatchesSentinels'
  BY <1>1, <1>2 DEF IInv, StopProgress, PoolMatchesSentinels, SentinelsQueued
<1>7. ASSUME NEW c \in Clients
      PROVE  Owners(c)' = IF client'[c] = "new" THEN 0 ELSE 1
  <2>1. Count(pending, c)' = Count(pending, c) + (IF d = c THEN 1 ELSE 0)
    <3>1. Count(Append(pending, d), c) = Count(pending, c) + (IF d = c THEN 1 ELSE 0)
      BY <1>3, CountAppend
    <3>2. Count(pending, c)' = Count(Append(pending, d), c)
      BY <1>1 DEF Count, Places
    <3> QED
      BY <3>1, <3>2
  <2>2. Count(queue, c)' = Count(queue, c) /\ AtAcceptor(c)' = AtAcceptor(c)
    BY <1>1 DEF Count, Places, AtAcceptor
  <2>3. Owners(c) = IF client[c] = "new" THEN 0 ELSE 1
    BY OwnersAreOne DEF IInv
  <2>4. /\ Cardinality(ServedBy(c)) \in Nat /\ Count(queue, c) \in Nat
        /\ Count(pending, c) \in Nat /\ AtAcceptor(c) \in {0, 1} /\ IsClosed(c) \in {0, 1}
    BY OwnersAreNat DEF IInv
  <2>5. Owners(c)' = Owners(c) + (IF d = c THEN 1 ELSE 0)
    BY <1>2, <2>1, <2>2, <2>4 DEF Owners
  <2>6. client \in [Clients -> {"new", "connected", "gone"}]
    BY DEF IInv, TypeOK
  <2> QED
    BY <1>1, <2>3, <2>5, <2>6
<1>8. OneOwner'
  BY <1>7, OwnersStayOne
<1> QED
  BY <1>2, <1>5, <1>6, <1>8 DEF IInv

\* Steps that move no connection and put no sentinel.
LEMMA NothingMovesKeeps ==
  ASSUME IInv, TypeOK', WorkersStay, UNCHANGED <<pending, queue, arriving, owed>>,
         acceptor' = "put" <=> acceptor = "put",
         stopper' = "stopped" <=> stopper = "stopped",
         \A c \in Clients : client'[c] = "new" <=> client[c] = "new"
  PROVE  IInv'
<1>1. /\ OneAnswerEach' /\ NothingDue' /\ StatsLocked' /\ AnswerPending' /\ CountedOnce'
      /\ Alive' = Alive
      /\ \A c \in Clients : ServedBy(c)' = ServedBy(c) /\ IsClosed(c)' = IsClosed(c)
  BY WorkersStayKeeps
<1>2. StopProgress' /\ PoolMatchesSentinels'
  BY <1>1 DEF IInv, StopProgress, PoolMatchesSentinels, SentinelsQueued
<1>3. ASSUME NEW c \in Clients
      PROVE  Owners(c)' = IF client'[c] = "new" THEN 0 ELSE 1
  <2>1. /\ Count(queue, c)' = Count(queue, c) /\ Count(pending, c)' = Count(pending, c)
        /\ AtAcceptor(c)' = AtAcceptor(c)
    BY DEF Count, Places, AtAcceptor
  <2>2. Owners(c) = IF client[c] = "new" THEN 0 ELSE 1
    BY OwnersAreOne DEF IInv
  <2> QED
    BY <1>1, <2>1, <2>2 DEF Owners
<1>4. OneOwner'
  BY <1>3, OwnersStayOne
<1> QED
  BY <1>1, <1>2, <1>4 DEF IInv

LEMMA SendKeeps == ASSUME IInv, NEW d \in Clients, Send(d) PROVE IInv'
<1>1. /\ requests < MaxRequests /\ requests' = requests + 1
      /\ UNCHANGED <<client, pending, acceptor, arriving, listening, running, stopper,
                     owed, queue>>
      /\ WorkersStay
  BY DEF Send, acceptVars, stopVars, serveVars, statsVars, WorkersStay
<1>2. inbox' = [inbox EXCEPT ![d] = @ + 1]
  BY DEF Send
<1>3. inbox' \in [Clients -> Nat]
  BY <1>2 DEF IInv, TypeOK
<1>4. requests' \in 0 .. MaxRequests
  BY <1>1, BacklogAssumption DEF IInv, TypeOK
<1>5. TypeOK'
  BY <1>1, <1>3, <1>4 DEF IInv, TypeOK, WorkersStay
<1> QED
  BY <1>1, <1>5, NothingMovesKeeps

LEMMA HangUpKeeps == ASSUME IInv, NEW d \in Clients, HangUp(d) PROVE IInv'
<1>1. /\ client[d] = "connected" /\ client' = [client EXCEPT ![d] = "gone"]
      /\ UNCHANGED <<inbox, requests, pending, acceptor, arriving, listening, running,
                     stopper, owed, queue>>
      /\ WorkersStay
  BY DEF HangUp, acceptVars, stopVars, serveVars, statsVars, WorkersStay
<1>2. TypeOK'
  BY <1>1 DEF IInv, TypeOK, WorkersStay
<1>3. \A c \in Clients : client'[c] = "new" <=> client[c] = "new"
  BY <1>1 DEF IInv, TypeOK
<1> QED
  BY <1>1, <1>2, <1>3, NothingMovesKeeps

LEMMA TestRunningKeeps ==
  ASSUME IInv, TestRunning \/ CallAccept \/ AcceptFails PROVE IInv'
<1>1. /\ acceptor \in {"test", "call", "accept"} /\ acceptor' \in {"call", "accept", "done"}
      /\ UNCHANGED <<client, inbox, requests, pending, arriving, listening, running, stopper,
                     owed, queue>>
      /\ WorkersStay
  BY DEF TestRunning, CallAccept, AcceptFails, AcceptorGoes, clientVars, stopVars,
         serveVars, statsVars, WorkersStay
<1>2. TypeOK'
  BY <1>1 DEF IInv, TypeOK, WorkersStay
<1> QED
  BY <1>1, <1>2, NothingMovesKeeps

LEMMA StopKeeps == ASSUME IInv, Stop \/ CloseSocket PROVE IInv'
<1>1. /\ stopper \in {"away", "close"} /\ stopper' \in {"close", "put"}
      /\ running' \in {running, FALSE} /\ listening' \in {listening, FALSE}
      /\ UNCHANGED <<client, inbox, requests, pending, acceptor, arriving, owed, queue>>
      /\ WorkersStay
  BY DEF Stop, CloseSocket, StopperGoes, clientVars, acceptVars, serveVars, statsVars,
         WorkersStay
<1>2. TypeOK'
  BY <1>1 DEF IInv, TypeOK, WorkersStay
<1> QED
  BY <1>1, <1>2, NothingMovesKeeps

LEMMA AcceptKeeps == ASSUME IInv, Accept PROVE IInv'
<1>1. /\ pending # <<>> /\ acceptor = "accept" /\ acceptor' = "put"
      /\ arriving' = Head(pending) /\ pending' = Tail(pending)
      /\ UNCHANGED <<client, inbox, requests, listening, running, stopper, owed, queue>>
      /\ WorkersStay
  BY DEF Accept, AcceptorGoes, clientVars, stopVars, serveVars, statsVars, WorkersStay
<1>2. /\ OneAnswerEach' /\ NothingDue' /\ StatsLocked' /\ AnswerPending' /\ CountedOnce'
      /\ Alive' = Alive
      /\ \A c \in Clients : ServedBy(c)' = ServedBy(c) /\ IsClosed(c)' = IsClosed(c)
  BY <1>1, WorkersStayKeeps
<1>3. pending \in Seq(Clients)
  BY DEF IInv, TypeOK
<1>4. pending' \in Seq(Clients) /\ arriving' \in Clients
  BY <1>1, <1>3, HeadTailProperties
<1>5. TypeOK'
  BY <1>1, <1>4 DEF IInv, TypeOK, WorkersStay
<1>6. StopProgress' /\ PoolMatchesSentinels'
  BY <1>1, <1>2, <1>4 DEF IInv, StopProgress, PoolMatchesSentinels, SentinelsQueued
<1>7. ASSUME NEW c \in Clients
      PROVE  Owners(c)' = IF client'[c] = "new" THEN 0 ELSE 1
  <2>1. Count(pending, c)' = Count(pending, c) - (IF Head(pending) = c THEN 1 ELSE 0)
    <3>1. Count(Tail(pending), c) = Count(pending, c) - (IF Head(pending) = c THEN 1 ELSE 0)
      BY <1>1, <1>3, CountTail
    <3>2. Count(pending, c)' = Count(Tail(pending), c)
      BY <1>1 DEF Count, Places
    <3> QED
      BY <3>1, <3>2
  <2>2. /\ Count(queue, c)' = Count(queue, c) /\ AtAcceptor(c) = 0
        /\ AtAcceptor(c)' = IF Head(pending) = c THEN 1 ELSE 0
    BY <1>1 DEF Count, Places, AtAcceptor
  <2>3. Owners(c) = IF client[c] = "new" THEN 0 ELSE 1
    BY OwnersAreOne DEF IInv
  <2>4. /\ Cardinality(ServedBy(c)) \in Nat /\ Count(queue, c) \in Nat
        /\ Count(pending, c) \in Nat /\ IsClosed(c) \in {0, 1}
    BY OwnersAreNat DEF IInv
  <2>5. Owners(c)' = Owners(c)
    BY <1>2, <2>1, <2>2, <2>4 DEF Owners
  <2> QED
    BY <1>1, <2>3, <2>5
<1>8. OneOwner'
  BY <1>7, OwnersStayOne
<1> QED
  BY <1>2, <1>5, <1>6, <1>8 DEF IInv

LEMMA PutConnectionKeeps == ASSUME IInv, PutConnection PROVE IInv'
<1>1. /\ Len(queue) < Backlog /\ queue' = Append(queue, arriving)
      /\ acceptor = "put" /\ acceptor' = "test" /\ arriving' = Sentinel
      /\ UNCHANGED <<client, inbox, requests, pending, listening, running, stopper, owed>>
      /\ WorkersStay
  BY DEF PutConnection, HasRoom, AcceptorGoes, clientVars, stopVars, serveVars, statsVars,
         WorkersStay
<1>2. /\ OneAnswerEach' /\ NothingDue' /\ StatsLocked' /\ AnswerPending' /\ CountedOnce'
      /\ Alive' = Alive
      /\ \A c \in Clients : ServedBy(c)' = ServedBy(c) /\ IsClosed(c)' = IsClosed(c)
  BY <1>1, WorkersStayKeeps
<1>3. queue \in Seq(Clients \cup {Sentinel}) /\ arriving \in Clients
  BY <1>1 DEF IInv, TypeOK, StopProgress
<1>4. queue' \in Seq(Clients \cup {Sentinel}) /\ Len(queue') = Len(queue) + 1
  BY <1>1, <1>3, AppendProperties
<1>5. Len(queue') <= Backlog
  BY <1>1, <1>3, <1>4, LenProperties, BacklogAssumption
<1>6. TypeOK'
  BY <1>1, <1>4, <1>5 DEF IInv, TypeOK, WorkersStay
<1>7. \A x : Count(queue, x)' = Count(queue, x) + (IF arriving = x THEN 1 ELSE 0)
  <2> TAKE x
  <2>1. Count(Append(queue, arriving), x) = Count(queue, x) + (IF arriving = x THEN 1 ELSE 0)
    BY <1>3, CountAppend
  <2>2. Count(queue, x)' = Count(Append(queue, arriving), x)
    BY <1>1 DEF Count, Places
  <2> QED
    BY <2>1, <2>2
<1>8. StopProgress' /\ PoolMatchesSentinels'
  <2>1. Count(queue, Sentinel)' = Count(queue, Sentinel)
    <3>1. arriving # Sentinel
      BY <1>3, SentinelAssumption
    <3>2. Count(queue, Sentinel) \in Nat
      BY <1>3, CountIsNat
    <3> QED
      BY <1>7, <3>1, <3>2
  <2>2. Cardinality(SentinelsQueued)' = Cardinality(SentinelsQueued)
    BY <2>1 DEF SentinelsQueued, Count, Places
  <2> QED
    BY <1>1, <1>2, <2>2 DEF IInv, StopProgress, PoolMatchesSentinels
<1>9. ASSUME NEW c \in Clients
      PROVE  Owners(c)' = IF client'[c] = "new" THEN 0 ELSE 1
  <2>1. /\ Count(pending, c)' = Count(pending, c) /\ AtAcceptor(c)' = 0
        /\ AtAcceptor(c) = IF arriving = c THEN 1 ELSE 0
    BY <1>1 DEF Count, Places, AtAcceptor
  <2>2. Owners(c) = IF client[c] = "new" THEN 0 ELSE 1
    BY OwnersAreOne DEF IInv
  <2>3. /\ Cardinality(ServedBy(c)) \in Nat /\ Count(queue, c) \in Nat
        /\ Count(pending, c) \in Nat /\ IsClosed(c) \in {0, 1}
    BY OwnersAreNat DEF IInv
  <2>4. Count(queue, c)' = Count(queue, c) + AtAcceptor(c)
    BY <1>7, <2>1
  <2>5. Owners(c)' = Owners(c)
    BY <1>2, <2>1, <2>3, <2>4 DEF Owners
  <2> QED
    BY <1>1, <2>2, <2>5
<1>10. OneOwner'
  BY <1>9, OwnersStayOne
<1> QED
  BY <1>2, <1>6, <1>8, <1>10 DEF IInv

LEMMA PutSentinelKeeps == ASSUME IInv, PutSentinel PROVE IInv'
<1>1. /\ Len(queue) < Backlog /\ queue' = Append(queue, Sentinel)
      /\ stopper = "put" /\ stopper' = (IF owed = 1 THEN "stopped" ELSE "put")
      /\ owed' = owed - 1
      /\ UNCHANGED <<client, inbox, requests, pending, acceptor, arriving, listening, running>>
      /\ WorkersStay
  BY DEF PutSentinel, HasRoom, StopperGoes, clientVars, acceptVars, serveVars, statsVars,
         WorkersStay
<1>2. /\ OneAnswerEach' /\ NothingDue' /\ StatsLocked' /\ AnswerPending' /\ CountedOnce'
      /\ Alive' = Alive
      /\ \A c \in Clients : ServedBy(c)' = ServedBy(c) /\ IsClosed(c)' = IsClosed(c)
  BY <1>1, WorkersStayKeeps
<1>3. queue \in Seq(Clients \cup {Sentinel})
  BY DEF IInv, TypeOK
<1>4. queue' \in Seq(Clients \cup {Sentinel}) /\ Len(queue') = Len(queue) + 1
  BY <1>1, <1>3, AppendProperties
<1>5. Len(queue') <= Backlog
  BY <1>1, <1>3, <1>4, LenProperties, BacklogAssumption
<1>6. /\ owed \in Nat \ {0} /\ owed <= Cardinality(Workers) /\ Cardinality(Workers) \in Nat
      /\ owed' \in 0 .. Cardinality(Workers)
  BY <1>1, PoolAssumption, FS_CardinalityType DEF IInv, TypeOK, StopProgress
<1>7. TypeOK'
  BY <1>1, <1>4, <1>5, <1>6 DEF IInv, TypeOK, WorkersStay
<1>8. \A x : Count(queue, x)' = Count(queue, x) + (IF Sentinel = x THEN 1 ELSE 0)
  <2> TAKE x
  <2>1. Count(Append(queue, Sentinel), x) = Count(queue, x) + (IF Sentinel = x THEN 1 ELSE 0)
    BY <1>3, CountAppend
  <2>2. Count(queue, x)' = Count(Append(queue, Sentinel), x)
    BY <1>1 DEF Count, Places
  <2> QED
    BY <2>1, <2>2
<1>9. StopProgress'
  BY <1>1, <1>6 DEF IInv, StopProgress
<1>10. PoolMatchesSentinels'
  <2>1. Count(queue, Sentinel) \in Nat
    BY <1>3, CountIsNat
  <2>2. Count(queue, Sentinel)' = Count(queue, Sentinel) + 1
    BY <1>8
  <2>3. Cardinality(Alive) = owed + Count(queue, Sentinel)
    BY DEF IInv, PoolMatchesSentinels, SentinelsQueued, Count, Places
  <2>4. Cardinality(Alive)' = owed' + Count(queue, Sentinel)'
    BY <1>1, <1>2, <1>6, <2>1, <2>2, <2>3
  <2> QED
    BY <2>4 DEF PoolMatchesSentinels, SentinelsQueued, Count, Places
<1>11. ASSUME NEW c \in Clients
       PROVE  Owners(c)' = IF client'[c] = "new" THEN 0 ELSE 1
  <2>1. Count(pending, c)' = Count(pending, c) /\ AtAcceptor(c)' = AtAcceptor(c)
    BY <1>1 DEF Count, Places, AtAcceptor
  <2>2. Owners(c) = IF client[c] = "new" THEN 0 ELSE 1
    BY OwnersAreOne DEF IInv
  <2>3. Count(queue, c)' = Count(queue, c)
    <3>1. Count(queue, c) \in Nat /\ c # Sentinel
      BY <1>3, CountIsNat, SentinelAssumption
    <3> QED
      BY <1>8, <3>1
  <2> QED
    BY <1>1, <1>2, <2>1, <2>2, <2>3 DEF Owners
<1>12. OneOwner'
  BY <1>11, OwnersStayOne
<1> QED
  BY <1>2, <1>7, <1>9, <1>10, <1>12 DEF IInv

-------------------------------------------------------------------------------
(* Workers.                                                                  *)

\* A worker that goes on serving its connection moves nothing.
LEMMA ServesOnKeeps ==
  ASSUME IInv, NEW w \in Workers, NEW to \in Serving, pc[w] \in Serving,
         pc' = [pc EXCEPT ![w] = to],
         UNCHANGED <<client, pending, acceptor, arriving, stopper, owed, queue, conn, closed>>
  PROVE  /\ StopProgress' /\ PoolMatchesSentinels' /\ OneOwner'
         /\ \A c \in Clients : ServedBy(c)' = ServedBy(c)
<1>1. pc \in [Workers -> Serving \cup {"get", "ended"}]
  BY DEF IInv, TypeOK
<1>2. "ended" \notin Serving
  BY DEF Serving
<1>3. Alive' = Alive
  BY <1>1, <1>2 DEF Alive
<1>4. \A c \in Clients : ServedBy(c)' = ServedBy(c)
  BY <1>1 DEF ServedBy
<1>5. StopProgress' /\ PoolMatchesSentinels'
  BY <1>3 DEF IInv, StopProgress, PoolMatchesSentinels, SentinelsQueued
<1>6. ASSUME NEW c \in Clients
      PROVE  Owners(c)' = IF client'[c] = "new" THEN 0 ELSE 1
  <2>1. /\ Count(queue, c)' = Count(queue, c) /\ Count(pending, c)' = Count(pending, c)
        /\ AtAcceptor(c)' = AtAcceptor(c) /\ IsClosed(c)' = IsClosed(c)
    BY DEF Count, Places, AtAcceptor, IsClosed
  <2>2. Owners(c) = IF client[c] = "new" THEN 0 ELSE 1
    BY OwnersAreOne DEF IInv
  <2> QED
    BY <1>4, <2>1, <2>2 DEF Owners
<1>7. OneOwner'
  BY <1>6, OwnersStayOne
<1> QED
  BY <1>4, <1>5, <1>7

\* While it has the request, the one answer stays due.
LEMMA StillDue ==
  ASSUME IInv, NEW w \in Workers, NEW to \in Serving, pc[w] \in Serving,
         pc' = [pc EXCEPT ![w] = to], UNCHANGED <<conn, due, closed>>,
         to # "receive",
         to \in {"execute", "count", "add", "reply"}
           => pc[w] \in {"execute", "count", "add", "reply"}
  PROVE  OneAnswerEach' /\ NothingDue'
<1>1. pc \in [Workers -> Serving \cup {"get", "ended"}]
  BY DEF IInv, TypeOK
<1>2. OneAnswerEach'
  BY <1>1 DEF IInv, OneAnswerEach
<1>3. \A c \in Clients : ServedBy(c)' = ServedBy(c)
  BY <1>1 DEF ServedBy
<1>4. NothingDue'
  BY <1>3 DEF IInv, NothingDue
<1> QED
  BY <1>2, <1>4

\* Away from the counter its lock stays as it is.
LEMMA StatsLockedStays ==
  ASSUME IInv, NEW w \in Workers, pc[w] # "add", NEW to, to # "add",
         pc' = [pc EXCEPT ![w] = to], UNCHANGED <<queries, seen, statsHeld>>
  PROVE  StatsLocked'
<1>1. pc \in [Workers -> Serving \cup {"get", "ended"}]
  BY DEF IInv, TypeOK
<1>2. \A v \in Workers : pc'[v] = "add" => pc[v] = "add"
  BY <1>1
<1> QED
  BY <1>2 DEF IInv, StatsLocked

LEMMA CountedOnceStays ==
  ASSUME IInv, Sending' = Sending, UNCHANGED <<queries, settled>>
  PROVE  CountedOnce'
BY DEF IInv, CountedOnce

LEMMA SendingIsFinite ==
  ASSUME IInv
  PROVE  IsFiniteSet(Sending) /\ Cardinality(Sending) \in Nat
<1>1. Sending \in SUBSET Workers
  BY DEF Sending
<1> QED
  BY <1>1, PoolAssumption, FS_Subset, FS_CardinalityType

LEMMA ReceiveKeeps == ASSUME IInv, NEW w \in Workers, Receive(w) PROVE IInv'
<1> DEFINE c == conn[w]
<1>1. PICK kind \in Kinds :
        /\ request' = [request EXCEPT ![w] = kind]
        /\ pc' = [pc EXCEPT ![w] = IF kind = "PING" THEN "reply" ELSE "execute"]
  BY DEF Receive, WorkerGoes
<1> DEFINE to == IF kind = "PING" THEN "reply" ELSE "execute"
<1>2. /\ pc[w] = "receive" /\ pc' = [pc EXCEPT ![w] = to]
      /\ inbox[c] # 0 /\ inbox' = [inbox EXCEPT ![c] = @ - 1]
      /\ request' = [request EXCEPT ![w] = kind]
      /\ due' = [due EXCEPT ![c] = @ + 1]
      /\ UNCHANGED <<client, requests, pending, acceptor, arriving, listening, running,
                     stopper, owed, queue, conn, hasStore, answer, queries, seen, statsHeld,
                     settled, closed>>
  BY <1>1 DEF Receive, WorkerGoes, acceptVars, stopVars, statsVars
<1>3. /\ c \in Clients /\ ServedBy(c) = {w}
      /\ pc[w] \in Serving /\ to \in Serving /\ to \notin {"count", "add", "receive"}
  BY <1>2, OnlyServer DEF IInv, Serving
<1>4. inbox[c] - 1 \in Nat
  BY <1>2, <1>3 DEF IInv, TypeOK
<1>5. kind = "PING" <=> to = "reply"
  OBVIOUS
<1> HIDE DEF c, to
<1>6. TypeOK'
  <2>1. inbox' \in [Clients -> Nat]
    BY <1>2, <1>3, <1>4 DEF IInv, TypeOK
  <2>2. request' \in [Workers -> Kinds]
    BY <1>2 DEF IInv, TypeOK
  <2>3. due' \in [Clients -> Int]
    BY <1>2, <1>3 DEF IInv, TypeOK
  <2>4. /\ pc' \in [Workers -> Serving \cup {"get", "ended"}]
        /\ \A v \in Workers : pc'[v] \in Serving => conn'[v] \in Clients
    BY <1>2, <1>3 DEF IInv, TypeOK, c
  <2> QED
    BY <1>2, <2>1, <2>2, <2>3, <2>4 DEF IInv, TypeOK
<1>7. /\ StopProgress' /\ PoolMatchesSentinels' /\ OneOwner'
      /\ \A d \in Clients : ServedBy(d)' = ServedBy(d)
  BY <1>2, <1>3, ServesOnKeeps
<1>8. due[c] = 0
  BY <1>2 DEF IInv, OneAnswerEach, c
<1>9. OneAnswerEach'
  <2> SUFFICES ASSUME NEW v \in Workers
               PROVE  /\ pc'[v] = "receive" => due'[conn'[v]] = 0
                      /\ pc'[v] \in {"execute", "count", "add", "reply"}
                           => due'[conn'[v]] = 1
    BY DEF OneAnswerEach
  <2>1. due \in [Clients -> Int] /\ pc \in [Workers -> Serving \cup {"get", "ended"}]
    BY DEF IInv, TypeOK
  <2>2. CASE v = w
    <3>1. due'[c] = 1 /\ conn'[v] = c /\ pc'[v] = to
      BY <1>2, <1>3, <1>8, <2>1, <2>2 DEF c
    <3> QED
      BY <1>3, <3>1
  <2>3. CASE v # w /\ pc[v] \in Serving
    <3>1. conn[v] # c
      BY <1>3, <2>3 DEF ServedBy
    <3>2. due'[conn[v]] = due[conn[v]] /\ pc'[v] = pc[v] /\ conn'[v] = conn[v]
      BY <1>2, <2>1, <2>3, <3>1 DEF IInv, TypeOK
    <3> QED
      BY <3>2 DEF IInv, OneAnswerEach
  <2>4. CASE v # w /\ pc[v] \notin Serving
    BY <1>2, <2>1, <2>4 DEF Serving
  <2> QED
    BY <2>2, <2>3, <2>4
<1>10. NothingDue'
  <2> SUFFICES ASSUME NEW d \in Clients, ServedBy(d)' = {}, d \notin closed'
               PROVE  due'[d] = 0
    BY DEF NothingDue
  <2>1. ServedBy(d) = {} /\ d # c /\ d \notin closed
    BY <1>2, <1>3, <1>7
  <2> QED
    BY <1>2, <2>1 DEF IInv, NothingDue, TypeOK
<1>11. StatsLocked'
  BY <1>2, <1>3, StatsLockedStays
<1>12. Sending' = Sending
  <2>1. /\ request \in [Workers -> Kinds] /\ answer \in [Workers -> {"OK", "ERROR"}]
        /\ pc \in [Workers -> Serving \cup {"get", "ended"}]
    BY DEF IInv, TypeOK
  <2>2. w \notin Sending /\ w \notin Sending'
    BY <1>2, <1>5, <2>1 DEF Sending
  <2>3. \A v \in Workers \ {w} : v \in Sending' <=> v \in Sending
    BY <1>2, <2>1 DEF Sending
  <2> QED
    BY <2>2, <2>3 DEF Sending
<1>13. CountedOnce'
  BY <1>2, <1>12, CountedOnceStays
<1>14. AnswerPending'
  BY <1>2, <1>3 DEF IInv, AnswerPending, TypeOK
<1> QED
  BY <1>14, <1>6, <1>7, <1>9, <1>10, <1>11, <1>13 DEF IInv

\* _serve is left: what it has at hand is no longer to be answered.
LEMMA LeaveServeKeeps ==
  ASSUME IInv, NEW w \in Workers, ReceiveFails(w) \/ SendFails(w)
  PROVE  IInv'
<1>1. PICK to \in {"close", "failed"} : pc' = [pc EXCEPT ![w] = to]
  BY DEF ReceiveFails, SendFails, LeaveServe, WorkerGoes
<1>2. /\ pc[w] \in {"receive", "reply"}
      /\ pc[w] = "reply" => request[w] # "QUERY" \/ answer[w] = "ERROR"
      /\ hasStore' = [hasStore EXCEPT ![w] = FALSE]
      /\ request' = [request EXCEPT ![w] = "PING"] /\ answer' = [answer EXCEPT ![w] = "OK"]
      /\ UNCHANGED <<client, inbox, requests, pending, acceptor, arriving, listening, running,
                     stopper, owed, queue, conn, due, queries, seen, statsHeld, settled,
                     closed>>
  BY DEF ReceiveFails, SendFails, LeaveServe, WorkerGoes, clientVars, acceptVars, stopVars,
         statsVars
<1>3. /\ pc[w] \in Serving /\ to \in Serving /\ to # "add" /\ to # "receive" /\ pc[w] # "add"
      /\ to \notin {"execute", "count", "add", "reply"}
  BY <1>2 DEF Serving
<1>4. /\ conn[w] \in Clients /\ pc \in [Workers -> Serving \cup {"get", "ended"}]
      /\ request \in [Workers -> Kinds] /\ answer \in [Workers -> {"OK", "ERROR"}]
  BY <1>3 DEF IInv, TypeOK
<1>5. TypeOK'
  <2>1. /\ hasStore' \in [Workers -> BOOLEAN] /\ answer' \in [Workers -> {"OK", "ERROR"}]
        /\ request' \in [Workers -> Kinds]
    BY <1>2 DEF IInv, TypeOK, Kinds
  <2>2. /\ pc' \in [Workers -> Serving \cup {"get", "ended"}]
        /\ \A v \in Workers : pc'[v] \in Serving => conn'[v] \in Clients
    BY <1>1, <1>2, <1>3, <1>4 DEF IInv, TypeOK
  <2> QED
    BY <1>2, <2>1, <2>2 DEF IInv, TypeOK
<1>6. StopProgress' /\ PoolMatchesSentinels' /\ OneOwner'
  BY <1>1, <1>2, <1>3, ServesOnKeeps
<1>7. OneAnswerEach' /\ NothingDue'
  BY <1>1, <1>2, <1>3, StillDue
<1>8. StatsLocked'
  BY <1>1, <1>2, <1>3, StatsLockedStays
<1>9. Sending' = Sending
  <2>1. w \notin Sending /\ w \notin Sending'
    BY <1>1, <1>2, <1>4 DEF Sending
  <2>2. \A v \in Workers \ {w} : v \in Sending' <=> v \in Sending
    BY <1>1, <1>2, <1>4 DEF Sending
  <2> QED
    BY <2>1, <2>2 DEF Sending
<1>10. CountedOnce'
  BY <1>2, <1>9, CountedOnceStays
<1>11. AnswerPending'
  BY <1>1, <1>2, <1>4 DEF IInv, AnswerPending
<1> QED
  BY <1>5, <1>6, <1>7, <1>8, <1>10, <1>11 DEF IInv

\* A request that is looked at: it is refused, answered, or will be counted.
LEMMA ExecuteKeeps == ASSUME IInv, NEW w \in Workers, Execute(w) PROVE IInv'
<1> DEFINE
     Goes(to) ==
        /\ pc[w] = "execute" /\ pc' = [pc EXCEPT ![w] = to]
        /\ hasStore' = hasStore \/ hasStore' = [hasStore EXCEPT ![w] = TRUE]
        /\ \/ answer' = answer /\ to = "count" /\ request[w] = "QUERY"
           \/ answer' = answer /\ to = "reply" /\ request[w] = "STATS"
           \/ answer' = [answer EXCEPT ![w] = "ERROR"] /\ to = "reply"
<1>1. PICK to \in {"count", "reply"} : Goes(to)
  <2>1. StoreUnavailable(w) => Goes("reply")
    BY DEF StoreUnavailable, WorkerGoes
  <2>2. Dispatch(w) => Goes("count") \/ Goes("reply")
    BY DEF Dispatch, WorkerGoes
  <2> HIDE DEF Goes
  <2> QED
    BY <2>1, <2>2 DEF Execute
<1>2. UNCHANGED <<client, inbox, requests, pending, acceptor, arriving, listening, running,
                  stopper, owed, queue, conn, request, due, queries, seen, statsHeld,
                  settled, closed>>
  BY DEF StoreUnavailable, Dispatch, Execute, WorkerGoes, clientVars, acceptVars, stopVars,
         statsVars
<1>3. /\ pc[w] \in Serving /\ to \in Serving /\ to # "add" /\ to # "receive" /\ pc[w] # "add"
      /\ to \in {"execute", "count", "add", "reply"}
           => pc[w] \in {"execute", "count", "add", "reply"}
  BY <1>1 DEF Serving
<1>4. conn[w] \in Clients
  BY <1>3 DEF IInv, TypeOK
<1>5. TypeOK'
  <2>1. hasStore' \in [Workers -> BOOLEAN] /\ answer' \in [Workers -> {"OK", "ERROR"}]
    BY <1>1 DEF IInv, TypeOK
  <2>2. /\ pc' \in [Workers -> Serving \cup {"get", "ended"}]
        /\ \A v \in Workers : pc'[v] \in Serving => conn'[v] \in Clients
    BY <1>1, <1>2, <1>3, <1>4 DEF IInv, TypeOK
  <2> QED
    BY <1>2, <2>1, <2>2 DEF IInv, TypeOK
<1>6. StopProgress' /\ PoolMatchesSentinels' /\ OneOwner'
  BY <1>1, <1>2, <1>3, ServesOnKeeps
<1>7. OneAnswerEach' /\ NothingDue'
  BY <1>1, <1>2, <1>3, StillDue
<1>8. StatsLocked'
  BY <1>1, <1>2, <1>3, StatsLockedStays
<1>9. Sending' = Sending
  <2>1. /\ answer \in [Workers -> {"OK", "ERROR"}]
        /\ pc \in [Workers -> Serving \cup {"get", "ended"}]
    BY DEF IInv, TypeOK
  <2>2. w \notin Sending /\ w \notin Sending'
    BY <1>1, <1>2, <2>1 DEF Sending
  <2>3. \A v \in Workers \ {w} : v \in Sending' <=> v \in Sending
    BY <1>1, <1>2, <2>1 DEF Sending
  <2> QED
    BY <2>2, <2>3 DEF Sending
<1>10. CountedOnce'
  BY <1>2, <1>9, CountedOnceStays
<1>11. AnswerPending'
  BY <1>1, <1>2 DEF IInv, AnswerPending, TypeOK
<1> QED
  BY <1>5, <1>6, <1>7, <1>8, <1>10, <1>11 DEF IInv

\* The lock is free: nobody is between load and store, and w comes to be.
LEMMA LoadQueriesKeeps == ASSUME IInv, NEW w \in Workers, LoadQueries(w) PROVE IInv'
<1>1. /\ ~statsHeld /\ statsHeld' = TRUE
      /\ pc[w] = "count" /\ pc' = [pc EXCEPT ![w] = "add"]
      /\ seen' = [seen EXCEPT ![w] = queries]
      /\ UNCHANGED <<client, inbox, requests, pending, acceptor, arriving, listening, running,
                     stopper, owed, queue, conn, hasStore, request, answer, due, queries,
                     settled, closed>>
  BY DEF LoadQueries, StatsFree, WorkerGoes, clientVars, acceptVars, stopVars, serveVars
<1>2. pc[w] \in Serving /\ "add" \in Serving
  BY <1>1 DEF Serving
<1>3. /\ conn[w] \in Clients /\ pc \in [Workers -> Serving \cup {"get", "ended"}]
      /\ seen \in [Workers -> Nat] /\ queries \in Nat
  BY <1>2 DEF IInv, TypeOK
<1>4. TypeOK'
  <2>1. /\ pc' \in [Workers -> Serving \cup {"get", "ended"}]
        /\ \A v \in Workers : pc'[v] \in Serving => conn'[v] \in Clients
    BY <1>1, <1>2, <1>3 DEF IInv, TypeOK
  <2>2. seen' \in [Workers -> Nat] /\ statsHeld' \in BOOLEAN
    BY <1>1, <1>3
  <2> QED
    BY <1>1, <2>1, <2>2 DEF IInv, TypeOK
<1>5. StopProgress' /\ PoolMatchesSentinels' /\ OneOwner'
  BY <1>1, <1>2, ServesOnKeeps
<1>6. OneAnswerEach' /\ NothingDue'
  BY <1>1, <1>2, StillDue
<1>7. \A v \in Workers : pc[v] # "add"
  BY <1>1 DEF IInv, StatsLocked
<1>8. \A v \in Workers : pc'[v] = "add" => v = w
  BY <1>1, <1>3, <1>7
<1>9. StatsLocked'
  BY <1>1, <1>3, <1>8 DEF StatsLocked
<1>10. Sending' = Sending
  BY <1>1, <1>3 DEF Sending
<1>11. CountedOnce'
  BY <1>1, <1>10, CountedOnceStays
<1>12. AnswerPending'
  BY <1>1, <1>3 DEF IInv, AnswerPending
<1> QED
  BY <1>4, <1>5, <1>6, <1>9, <1>11, <1>12 DEF IInv

\* What it stores is one more than the counter; its own result may now be sent.
LEMMA StoreQueriesKeeps == ASSUME IInv, NEW w \in Workers, StoreQueries(w) PROVE IInv'
<1>1. /\ pc[w] = "add" /\ pc' = [pc EXCEPT ![w] = "reply"]
      /\ queries' = seen[w] + 1 /\ seen' = [seen EXCEPT ![w] = 0] /\ statsHeld' = FALSE
      /\ UNCHANGED <<client, inbox, requests, pending, acceptor, arriving, listening, running,
                     stopper, owed, queue, conn, hasStore, request, answer, due, settled,
                     closed>>
  BY DEF StoreQueries, WorkerGoes, clientVars, acceptVars, stopVars, serveVars
<1>2. pc[w] \in Serving /\ "reply" \in Serving
  BY <1>1 DEF Serving
<1>3. /\ conn[w] \in Clients /\ pc \in [Workers -> Serving \cup {"get", "ended"}]
      /\ seen \in [Workers -> Nat] /\ queries \in Nat /\ settled \in Nat
  BY <1>2 DEF IInv, TypeOK
<1>4. seen[w] = queries
  BY <1>1 DEF IInv, StatsLocked
<1>5. TypeOK'
  <2>1. /\ pc' \in [Workers -> Serving \cup {"get", "ended"}]
        /\ \A v \in Workers : pc'[v] \in Serving => conn'[v] \in Clients
    BY <1>1, <1>2, <1>3 DEF IInv, TypeOK
  <2>2. seen' \in [Workers -> Nat] /\ queries' \in Nat /\ statsHeld' \in BOOLEAN
    <3>1. seen[w] \in Nat /\ 0 \in Nat
      BY <1>3
    <3>2. seen' \in [Workers -> Nat]
      BY <1>1, <1>3, <3>1
    <3>3. queries' \in Nat
      BY <1>1, <3>1
    <3> QED
      BY <1>1, <3>2, <3>3
  <2>3. UNCHANGED <<client, inbox, requests, pending, acceptor, arriving, listening, running,
                    stopper, owed, queue, conn, hasStore, request, answer, due, settled,
                    closed>>
    BY <1>1
  <2> QED
    BY <2>1, <2>2, <2>3 DEF IInv, TypeOK
<1>6. StopProgress' /\ PoolMatchesSentinels' /\ OneOwner'
  BY <1>1, <1>2, ServesOnKeeps
<1>7. OneAnswerEach' /\ NothingDue'
  BY <1>1, <1>2, StillDue
<1>8. \A v \in Workers : pc'[v] # "add"
  BY <1>1, <1>3 DEF IInv, StatsLocked
<1>9. StatsLocked'
  BY <1>8 DEF StatsLocked
<1>10. CountedOnce'
  <2>1. w \notin Sending /\ Sending' = Sending \cup {w}
    <3>1. request[w] = "QUERY" /\ answer[w] = "OK"
      BY <1>1 DEF IInv, AnswerPending
    <3>2. w \notin Sending /\ w \in Sending'
      BY <1>1, <1>3, <3>1 DEF Sending
    <3>3. \A v \in Workers \ {w} : v \in Sending' <=> v \in Sending
      BY <1>1, <1>3 DEF Sending
    <3> QED
      BY <3>2, <3>3 DEF Sending
  <2>2. IsFiniteSet(Sending) /\ Cardinality(Sending) \in Nat
    BY SendingIsFinite
  <2>3. Cardinality(Sending \cup {w}) = Cardinality(Sending) + 1
    BY <2>1, <2>2, FS_AddElement
  <2>4. Cardinality(Sending)' = Cardinality(Sending) + 1
    BY <2>1, <2>3
  <2>5. queries = settled + Cardinality(Sending)
    BY DEF IInv, CountedOnce
  <2>6. queries' = settled' + Cardinality(Sending)'
    BY <1>1, <1>3, <1>4, <2>2, <2>4, <2>5
  <2> QED
    BY <2>6 DEF CountedOnce
<1>11. AnswerPending'
  BY <1>1, <1>3 DEF IInv, AnswerPending
<1> QED
  BY <1>5, <1>6, <1>7, <1>9, <1>10, <1>11 DEF IInv

\* The answer is no longer due, and of no other connection.
LEMMA ReplyKeeps == ASSUME IInv, NEW w \in Workers, Reply(w) PROVE IInv'
<1> DEFINE c == conn[w]
<1>1. /\ pc[w] = "reply" /\ pc' = [pc EXCEPT ![w] = "receive"]
      /\ due' = [due EXCEPT ![c] = @ - 1]
      /\ settled' = IF request[w] = "QUERY" /\ answer[w] = "OK" THEN settled + 1
                     ELSE settled
      /\ request' = [request EXCEPT ![w] = "PING"] /\ answer' = [answer EXCEPT ![w] = "OK"]
      /\ UNCHANGED <<client, inbox, requests, pending, acceptor, arriving, listening, running,
                     stopper, owed, queue, conn, hasStore, queries, seen, statsHeld, closed>>
  BY DEF Reply, NextRequest, WorkerGoes, clientVars, acceptVars, stopVars
<1>2. /\ c \in Clients /\ ServedBy(c) = {w}
      /\ pc[w] \in Serving /\ "receive" \in Serving
  BY <1>1, OnlyServer DEF IInv, Serving
<1>3. due[c] = 1
  BY <1>1 DEF IInv, OneAnswerEach
<1> HIDE DEF c
<1>4. /\ pc \in [Workers -> Serving \cup {"get", "ended"}] /\ due \in [Clients -> Int]
      /\ settled \in Nat /\ queries \in Nat
  BY DEF IInv, TypeOK
<1>5. TypeOK'
  <2>1. /\ pc' \in [Workers -> Serving \cup {"get", "ended"}]
        /\ \A v \in Workers : pc'[v] \in Serving => conn'[v] \in Clients
    BY <1>1, <1>2, <1>4 DEF IInv, TypeOK, c
  <2>2. due' \in [Clients -> Int]
    BY <1>1, <1>2, <1>4
  <2>3. settled' \in Nat
    BY <1>1, <1>4
  <2>4. request' \in [Workers -> Kinds] /\ answer' \in [Workers -> {"OK", "ERROR"}]
    BY <1>1 DEF IInv, TypeOK, Kinds
  <2> QED
    BY <1>1, <2>1, <2>2, <2>3, <2>4 DEF IInv, TypeOK
<1>6. /\ StopProgress' /\ PoolMatchesSentinels' /\ OneOwner'
      /\ \A d \in Clients : ServedBy(d)' = ServedBy(d)
  BY <1>1, <1>2, ServesOnKeeps
<1>7. OneAnswerEach'
  <2> SUFFICES ASSUME NEW v \in Workers
               PROVE  /\ pc'[v] = "receive" => due'[conn'[v]] = 0
                      /\ pc'[v] \in {"execute", "count", "add", "reply"}
                           => due'[conn'[v]] = 1
    BY DEF OneAnswerEach
  <2>1. CASE v = w
    <3>1. due'[c] = 0 /\ conn'[v] = c /\ pc'[v] = "receive"
      BY <1>1, <1>2, <1>3, <1>4, <2>1 DEF c
    <3> QED
      BY <3>1
  <2>2. CASE v # w /\ pc[v] \in Serving
    <3>1. conn[v] # c
      BY <1>2, <2>2 DEF ServedBy
    <3>2. due'[conn[v]] = due[conn[v]] /\ pc'[v] = pc[v] /\ conn'[v] = conn[v]
      BY <1>1, <1>4, <2>2, <3>1 DEF IInv, TypeOK
    <3> QED
      BY <3>2 DEF IInv, OneAnswerEach
  <2>3. CASE v # w /\ pc[v] \notin Serving
    BY <1>1, <1>4, <2>3 DEF Serving
  <2> QED
    BY <2>1, <2>2, <2>3
<1>8. NothingDue'
  <2> SUFFICES ASSUME NEW d \in Clients, ServedBy(d)' = {}, d \notin closed'
               PROVE  due'[d] = 0
    BY DEF NothingDue
  <2>1. ServedBy(d) = {} /\ d # c /\ d \notin closed
    BY <1>1, <1>2, <1>6
  <2> QED
    BY <1>1, <1>4, <2>1 DEF IInv, NothingDue
<1>9. StatsLocked'
  BY <1>1, StatsLockedStays
<1>10. CountedOnce'
  <2>1. Sending' = Sending \ {w}
    <3>1. w \notin Sending'
      BY <1>1, <1>4 DEF Sending
    <3>2. \A v \in Workers \ {w} : v \in Sending' <=> v \in Sending
      BY <1>1, <1>4 DEF IInv, TypeOK, Sending
    <3> QED
      BY <3>1, <3>2 DEF Sending
  <2>2. w \in Sending <=> request[w] = "QUERY" /\ answer[w] = "OK"
    BY <1>1 DEF Sending
  <2>3. IsFiniteSet(Sending) /\ Cardinality(Sending) \in Nat
    BY SendingIsFinite
  <2>4. Cardinality(Sending)'
          = IF w \in Sending THEN Cardinality(Sending) - 1 ELSE Cardinality(Sending)
    BY <2>1, <2>3, FS_RemoveElement
  <2>5. queries = settled + Cardinality(Sending)
    BY DEF IInv, CountedOnce
  <2>6. queries' = settled' + Cardinality(Sending)'
    BY <1>1, <1>4, <2>2, <2>3, <2>4, <2>5
  <2> QED
    BY <2>6 DEF CountedOnce
<1>11. AnswerPending'
  BY <1>1, <1>4 DEF IInv, AnswerPending, TypeOK
<1> QED
  BY <1>5, <1>6, <1>7, <1>8, <1>9, <1>10, <1>11 DEF IInv

\* A result that fails is no longer being sent, and its query stays counted.
LEMMA ResultFailsKeeps == ASSUME IInv, NEW w \in Workers, ResultFails(w) PROVE IInv'
<1>1. /\ pc[w] = "reply" /\ pc' = [pc EXCEPT ![w] = "reply"]
      /\ request[w] = "QUERY" /\ answer[w] = "OK"
      /\ answer' = [answer EXCEPT ![w] = "ERROR"] /\ settled' = settled + 1
      /\ UNCHANGED <<client, inbox, requests, pending, acceptor, arriving, listening, running,
                     stopper, owed, queue, conn, hasStore, request, due, queries, seen,
                     statsHeld, closed>>
  BY DEF ResultFails, WorkerGoes, clientVars, acceptVars, stopVars
<1>2. pc[w] \in Serving /\ "reply" \in Serving
  BY <1>1 DEF Serving
<1>3. /\ conn[w] \in Clients /\ pc \in [Workers -> Serving \cup {"get", "ended"}]
      /\ answer \in [Workers -> {"OK", "ERROR"}]
      /\ settled \in Nat /\ queries \in Nat
  BY <1>2 DEF IInv, TypeOK
<1>4. TypeOK'
  <2>1. answer' \in [Workers -> {"OK", "ERROR"}] /\ settled' \in Nat
    BY <1>1, <1>3
  <2>2. /\ pc' \in [Workers -> Serving \cup {"get", "ended"}]
        /\ \A v \in Workers : pc'[v] \in Serving => conn'[v] \in Clients
    BY <1>1, <1>2, <1>3 DEF IInv, TypeOK
  <2> QED
    BY <1>1, <2>1, <2>2 DEF IInv, TypeOK
<1>5. StopProgress' /\ PoolMatchesSentinels' /\ OneOwner'
  BY <1>1, <1>2, ServesOnKeeps
<1>6. OneAnswerEach' /\ NothingDue'
  BY <1>1, <1>2, StillDue
<1>7. StatsLocked'
  BY <1>1, StatsLockedStays
<1>8. CountedOnce'
  <2>1. w \in Sending /\ Sending' = Sending \ {w}
    BY <1>1, <1>3 DEF Sending
  <2>2. IsFiniteSet(Sending) /\ Cardinality(Sending) \in Nat
    BY SendingIsFinite
  <2>3. Cardinality(Sending)' = Cardinality(Sending) - 1
    BY <2>1, <2>2, FS_RemoveElement
  <2>4. queries = settled + Cardinality(Sending)
    BY DEF IInv, CountedOnce
  <2>5. queries' = settled' + Cardinality(Sending)'
    BY <1>1, <1>3, <2>2, <2>3, <2>4
  <2> QED
    BY <2>5 DEF CountedOnce
<1>9. AnswerPending'
  BY <1>1, <1>3 DEF IInv, AnswerPending
<1> QED
  BY <1>4, <1>5, <1>6, <1>7, <1>8, <1>9 DEF IInv

\* Taking a sentinel: one worker less, and one sentinel less.
LEMMA GetSentinelKeeps ==
  ASSUME IInv, NEW w \in Workers, Get(w), Head(queue) = Sentinel PROVE IInv'
<1>1. /\ queue # <<>> /\ queue' = Tail(queue)
      /\ pc[w] = "get" /\ pc' = [pc EXCEPT ![w] = "ended"]
      /\ conn' = [conn EXCEPT ![w] = Sentinel]
      /\ UNCHANGED <<client, inbox, requests, pending, acceptor, arriving, listening, running,
                     stopper, owed, hasStore, request, answer, due, queries, seen, statsHeld,
                     settled, closed>>
  BY DEF Get, WorkerGoes, clientVars, acceptVars, stopVars, statsVars
<1>2. /\ queue \in Seq(Clients \cup {Sentinel}) /\ Len(queue) <= Backlog
      /\ pc \in [Workers -> Serving \cup {"get", "ended"}]
      /\ conn \in [Workers -> Clients \cup {Sentinel}]
  BY DEF IInv, TypeOK
<1>3. "get" \notin Serving /\ "ended" \notin Serving
  BY DEF Serving
<1>4. /\ queue' \in Seq(Clients \cup {Sentinel}) /\ Len(queue') <= Backlog
      /\ Len(queue) \in Nat \ {0}
  <2>1. queue' \in Seq(Clients \cup {Sentinel}) /\ Len(queue') = Len(queue) - 1
    BY <1>1, <1>2, HeadTailProperties
  <2>2. Len(queue) \in Nat \ {0}
    BY <1>1, <1>2, LenProperties, EmptySeq
  <2> QED
    BY <1>2, <2>1, <2>2, BacklogAssumption
<1>5. TypeOK'
  <2>1. /\ pc' \in [Workers -> Serving \cup {"get", "ended"}]
        /\ conn' \in [Workers -> Clients \cup {Sentinel}]
    BY <1>1, <1>2
  <2>2. \A v \in Workers : pc'[v] \in Serving => conn'[v] \in Clients
    BY <1>1, <1>2, <1>3 DEF IInv, TypeOK
  <2> QED
    BY <1>1, <1>4, <2>1, <2>2 DEF IInv, TypeOK
<1>6. StopProgress'
  BY <1>1 DEF IInv, StopProgress
<1>7. \A c \in Clients : ServedBy(c)' = ServedBy(c)
  BY <1>1, <1>2, <1>3 DEF ServedBy
<1>8. \A x : Count(queue, x)' = Count(queue, x) - (IF Sentinel = x THEN 1 ELSE 0)
  <2> TAKE x
  <2>1. Count(Tail(queue), x) = Count(queue, x) - (IF Head(queue) = x THEN 1 ELSE 0)
    BY <1>1, <1>2, CountTail
  <2>2. Count(queue, x)' = Count(Tail(queue), x)
    BY <1>1 DEF Count, Places
  <2> QED
    BY <2>1, <2>2
<1>9. PoolMatchesSentinels'
  <2>1. Alive' = Alive \ {w} /\ w \in Alive
    BY <1>1, <1>2 DEF Alive
  <2>2. Alive \in SUBSET Workers
    BY DEF Alive
  <2>3. IsFiniteSet(Alive) /\ Cardinality(Alive) \in Nat
    BY <2>2, PoolAssumption, FS_Subset, FS_CardinalityType
  <2>4. Cardinality(Alive \ {w}) = Cardinality(Alive) - 1
    BY <2>1, <2>3, FS_RemoveElement
  <2>5. Cardinality(Alive) = owed + Count(queue, Sentinel)
    BY DEF IInv, PoolMatchesSentinels, SentinelsQueued, Count, Places
  <2>6. Count(queue, Sentinel) \in Nat /\ owed \in Nat
    <3>1. Count(queue, Sentinel) \in Nat
      BY <1>2, CountIsNat
    <3>2. Cardinality(Workers) \in Nat
      BY PoolAssumption, FS_CardinalityType
    <3> QED
      BY <3>1, <3>2 DEF IInv, TypeOK
  <2>7. Count(queue, Sentinel)' = Count(queue, Sentinel) - 1
    BY <1>8
  <2>8. Cardinality(Alive)' = Cardinality(Alive \ {w})
    BY <2>1
  <2>9. Cardinality(Alive)' = owed' + Count(queue, Sentinel)'
    BY <1>1, <2>3, <2>4, <2>5, <2>6, <2>7, <2>8
  <2> QED
    BY <2>9 DEF PoolMatchesSentinels, SentinelsQueued, Count, Places
<1>10. ASSUME NEW c \in Clients
       PROVE  Owners(c)' = IF client'[c] = "new" THEN 0 ELSE 1
  <2>1. /\ Count(pending, c)' = Count(pending, c) /\ AtAcceptor(c)' = AtAcceptor(c)
        /\ IsClosed(c)' = IsClosed(c)
    BY <1>1 DEF Count, Places, AtAcceptor, IsClosed
  <2>2. Owners(c) = IF client[c] = "new" THEN 0 ELSE 1
    BY OwnersAreOne DEF IInv
  <2>3. Count(queue, c)' = Count(queue, c)
    <3>1. Count(queue, c) \in Nat /\ c # Sentinel
      BY <1>2, CountIsNat, SentinelAssumption
    <3> QED
      BY <1>8, <3>1
  <2> QED
    BY <1>1, <1>7, <2>1, <2>2, <2>3 DEF Owners
<1>11. OneOwner'
  BY <1>10, OwnersStayOne
<1>12. OneAnswerEach'
  <2> SUFFICES ASSUME NEW v \in Workers
               PROVE  /\ pc'[v] = "receive" => due'[conn'[v]] = 0
                      /\ pc'[v] \in {"execute", "count", "add", "reply"}
                           => due'[conn'[v]] = 1
    BY DEF OneAnswerEach
  <2>1. CASE v = w
    BY <1>1, <1>2, <2>1
  <2>2. CASE v # w
    BY <1>1, <1>2, <2>2 DEF IInv, OneAnswerEach
  <2> QED
    BY <2>1, <2>2
<1>13. NothingDue'
  BY <1>1, <1>7 DEF IInv, NothingDue
<1>14. StatsLocked'
  BY <1>1, StatsLockedStays
<1>15. Sending' = Sending
  BY <1>1, <1>2 DEF Sending
<1>16. CountedOnce'
  BY <1>1, <1>15, CountedOnceStays
<1>17. AnswerPending'
  BY <1>1, <1>2 DEF IInv, AnswerPending
<1> QED
  BY <1>5, <1>6, <1>9, <1>11, <1>12, <1>13, <1>14, <1>16, <1>17 DEF IInv

\* Taking a connection: it has waited in the queue, so nobody serves it and
\* nothing is due for it.
LEMMA GetConnectionKeeps ==
  ASSUME IInv, NEW w \in Workers, Get(w), Head(queue) # Sentinel PROVE IInv'
<1> DEFINE h == Head(queue)
<1>1. /\ queue # <<>> /\ queue' = Tail(queue)
      /\ pc[w] = "get" /\ pc' = [pc EXCEPT ![w] = "receive"]
      /\ conn' = [conn EXCEPT ![w] = h]
      /\ UNCHANGED <<client, inbox, requests, pending, acceptor, arriving, listening, running,
                     stopper, owed, hasStore, request, answer, due, queries, seen, statsHeld,
                     settled, closed>>
  BY DEF Get, WorkerGoes, clientVars, acceptVars, stopVars, statsVars
<1>2. /\ queue \in Seq(Clients \cup {Sentinel}) /\ Len(queue) <= Backlog
      /\ pc \in [Workers -> Serving \cup {"get", "ended"}]
      /\ conn \in [Workers -> Clients \cup {Sentinel}]
  BY DEF IInv, TypeOK
<1>3. "get" \notin Serving /\ "receive" \in Serving
  BY DEF Serving
<1>4. /\ queue' \in Seq(Clients \cup {Sentinel}) /\ Len(queue') <= Backlog
      /\ h \in Clients
  <2>1. /\ queue' \in Seq(Clients \cup {Sentinel}) /\ Len(queue') = Len(queue) - 1
        /\ h \in Clients \cup {Sentinel}
    BY <1>1, <1>2, HeadTailProperties
  <2>2. Len(queue) \in Nat \ {0}
    BY <1>1, <1>2, LenProperties, EmptySeq
  <2> QED
    BY <1>2, <2>1, <2>2, BacklogAssumption
<1>5. \A x : /\ Count(queue, x)' = Count(queue, x) - (IF h = x THEN 1 ELSE 0)
             /\ h = x => Count(queue, x) >= 1
  <2> TAKE x
  <2>1. /\ Count(Tail(queue), x) = Count(queue, x) - (IF h = x THEN 1 ELSE 0)
        /\ h = x => Count(queue, x) >= 1
    BY <1>1, <1>2, CountTail
  <2>2. Count(queue, x)' = Count(Tail(queue), x)
    BY <1>1 DEF Count, Places
  <2> QED
    BY <2>1, <2>2
<1> HIDE DEF h
<1>6. ServedBy(h) = {} /\ h \notin closed
  BY <1>4, <1>5, NobodyServes DEF IInv
<1>7. due[h] = 0
  BY <1>4, <1>6 DEF IInv, NothingDue
<1>8. TypeOK'
  <2>1. /\ pc' \in [Workers -> Serving \cup {"get", "ended"}]
        /\ conn' \in [Workers -> Clients \cup {Sentinel}]
    BY <1>1, <1>2, <1>3, <1>4
  <2>2. \A v \in Workers : pc'[v] \in Serving => conn'[v] \in Clients
    BY <1>1, <1>2, <1>4 DEF IInv, TypeOK
  <2> QED
    BY <1>1, <1>4, <2>1, <2>2 DEF IInv, TypeOK
<1>9. StopProgress'
  BY <1>1 DEF IInv, StopProgress
<1>10. PoolMatchesSentinels'
  <2>1. Alive' = Alive
    BY <1>1, <1>2 DEF Alive
  <2>2. Count(queue, Sentinel)' = Count(queue, Sentinel)
    <3>1. Count(queue, Sentinel) \in Nat /\ h # Sentinel
      BY <1>2, <1>4, CountIsNat, SentinelAssumption
    <3> QED
      BY <1>5, <3>1
  <2>3. Cardinality(SentinelsQueued)' = Cardinality(SentinelsQueued)
    BY <2>2 DEF SentinelsQueued, Count, Places
  <2> QED
    BY <1>1, <2>1, <2>3 DEF IInv, PoolMatchesSentinels
<1>11. ASSUME NEW c \in Clients
       PROVE  ServedBy(c)' = IF c = h THEN {w} ELSE ServedBy(c)
  <2>1. w \in ServedBy(c)' <=> c = h
    BY <1>1, <1>2, <1>3 DEF ServedBy
  <2>2. \A v \in Workers \ {w} : v \in ServedBy(c)' <=> v \in ServedBy(c)
    BY <1>1, <1>2 DEF ServedBy
  <2>3. ServedBy(c)' \subseteq Workers /\ ServedBy(c) \subseteq Workers /\ w \notin ServedBy(c)
    BY <1>1, <1>3 DEF ServedBy
  <2> QED
    BY <1>6, <2>1, <2>2, <2>3
<1>12. ASSUME NEW c \in Clients
       PROVE  Owners(c)' = IF client'[c] = "new" THEN 0 ELSE 1
  <2>1. /\ Count(pending, c)' = Count(pending, c) /\ AtAcceptor(c)' = AtAcceptor(c)
        /\ IsClosed(c)' = IsClosed(c)
    BY <1>1 DEF Count, Places, AtAcceptor, IsClosed
  <2>2. Owners(c) = IF client[c] = "new" THEN 0 ELSE 1
    BY OwnersAreOne DEF IInv
  <2>3. /\ Cardinality(ServedBy(c)) \in Nat /\ Count(queue, c) \in Nat
        /\ Count(pending, c) \in Nat /\ AtAcceptor(c) \in {0, 1} /\ IsClosed(c) \in {0, 1}
    BY OwnersAreNat DEF IInv
  <2>4. Cardinality(ServedBy(c))' = Cardinality(ServedBy(c)) + (IF h = c THEN 1 ELSE 0)
    <3>1. CASE h = c
      <4>1. Cardinality(ServedBy(c)) = 0
        BY <1>6, <3>1, FS_EmptySet
      <4>2. Cardinality({w}) = 1
        BY FS_Singleton
      <4>3. ServedBy(c)' = {w}
        BY <1>11, <3>1
      <4> QED
        BY <3>1, <4>1, <4>2, <4>3
    <3>2. CASE h # c
      BY <1>11, <2>3, <3>2
    <3> QED
      BY <3>1, <3>2
  <2>5. Count(queue, c)' = Count(queue, c) - (IF h = c THEN 1 ELSE 0)
    BY <1>5
  <2>6. Owners(c)' = Owners(c)
    BY <2>1, <2>3, <2>4, <2>5 DEF Owners
  <2> QED
    BY <1>1, <2>2, <2>6
<1>13. OneOwner'
  BY <1>12, OwnersStayOne
<1>14. OneAnswerEach'
  <2> SUFFICES ASSUME NEW v \in Workers
               PROVE  /\ pc'[v] = "receive" => due'[conn'[v]] = 0
                      /\ pc'[v] \in {"execute", "count", "add", "reply"}
                           => due'[conn'[v]] = 1
    BY DEF OneAnswerEach
  <2>1. CASE v = w
    BY <1>1, <1>2, <1>7, <2>1
  <2>2. CASE v # w
    BY <1>1, <1>2, <2>2 DEF IInv, OneAnswerEach
  <2> QED
    BY <2>1, <2>2
<1>15. NothingDue'
  <2> SUFFICES ASSUME NEW d \in Clients, ServedBy(d)' = {}, d \notin closed'
               PROVE  due'[d] = 0
    BY DEF NothingDue
  <2>1. d # h
    BY <1>11
  <2>2. ServedBy(d) = {} /\ d \notin closed
    BY <1>1, <1>11, <2>1
  <2> QED
    BY <1>1, <2>2 DEF IInv, NothingDue
<1>16. StatsLocked'
  BY <1>1, StatsLockedStays
<1>17. Sending' = Sending
  BY <1>1, <1>2 DEF Sending
<1>18. CountedOnce'
  BY <1>1, <1>17, CountedOnceStays
<1>19. AnswerPending'
  BY <1>1, <1>2 DEF IInv, AnswerPending
<1> QED
  BY <1>8, <1>9, <1>10, <1>13, <1>14, <1>15, <1>16, <1>18, <1>19 DEF IInv

\* Closing: the connection has no server from now on, and has one owner still,
\* the closed ones.
LEMMA CloseKeeps == ASSUME IInv, NEW w \in Workers, Close(w) PROVE IInv'
<1> DEFINE c == conn[w]
<1>1. /\ pc[w] \in {"close", "failed"} /\ pc' = [pc EXCEPT ![w] = "get"]
      /\ closed' = closed \cup {c} /\ conn' = [conn EXCEPT ![w] = Sentinel]
      /\ inbox' = [inbox EXCEPT ![c] = 0] /\ due' = [due EXCEPT ![c] = 0]
  BY DEF Close, Closed, NextConnection, WorkerGoes
<1>2. UNCHANGED <<client, requests, pending, acceptor, arriving, listening, running, stopper,
                  owed, queue, hasStore, request, answer, queries, seen, statsHeld, settled>>
  BY DEF Close, WorkerGoes, clientVars, acceptVars, stopVars, statsVars
<1>3. pc[w] \in Serving /\ "get" \notin Serving
  BY <1>1 DEF Serving
<1>4. c \in Clients /\ c \notin closed /\ ServedBy(c) = {w}
  BY <1>3, OnlyServer DEF IInv
<1> HIDE DEF c
<1>5. /\ pc \in [Workers -> Serving \cup {"get", "ended"}]
      /\ conn \in [Workers -> Clients \cup {Sentinel}] /\ due \in [Clients -> Int]
  BY DEF IInv, TypeOK
<1>6. TypeOK'
  <2>1. /\ pc' \in [Workers -> Serving \cup {"get", "ended"}]
        /\ conn' \in [Workers -> Clients \cup {Sentinel}]
    BY <1>1, <1>5
  <2>2. \A v \in Workers : pc'[v] \in Serving => conn'[v] \in Clients
    BY <1>1, <1>3, <1>5 DEF IInv, TypeOK
  <2>3. inbox' \in [Clients -> Nat] /\ due' \in [Clients -> Int]
    <3>1. inbox \in [Clients -> Nat] /\ 0 \in Nat /\ 0 \in Int
      BY DEF IInv, TypeOK
    <3>2. inbox' \in [Clients -> Nat]
      BY <1>1, <3>1
    <3>3. due' \in [Clients -> Int]
      BY <1>1, <1>5, <3>1
    <3> QED
      BY <3>2, <3>3
  <2>4. closed' \subseteq Clients
    BY <1>1, <1>4 DEF IInv, TypeOK
  <2> QED
    BY <1>2, <2>1, <2>2, <2>3, <2>4 DEF IInv, TypeOK
<1>7. StopProgress'
  BY <1>2 DEF IInv, StopProgress
<1>8. PoolMatchesSentinels'
  <2>1. Alive' = Alive
    BY <1>1, <1>5 DEF Alive
  <2> QED
    BY <1>2, <2>1 DEF IInv, PoolMatchesSentinels, SentinelsQueued
<1>9. ASSUME NEW d \in Clients
      PROVE  ServedBy(d)' = IF d = c THEN {} ELSE ServedBy(d)
  <2>1. w \notin ServedBy(d)'
    BY <1>1, <1>3, <1>5 DEF ServedBy
  <2>2. \A v \in Workers \ {w} : v \in ServedBy(d)' <=> v \in ServedBy(d)
    BY <1>1, <1>5 DEF ServedBy
  <2>3. ServedBy(d)' \subseteq Workers /\ ServedBy(d) \subseteq Workers
    BY DEF ServedBy
  <2>4. w \in ServedBy(d) <=> d = c
    BY <1>3 DEF ServedBy, c
  <2> QED
    BY <1>4, <2>1, <2>2, <2>3, <2>4
<1>10. ASSUME NEW d \in Clients
       PROVE  Owners(d)' = IF client'[d] = "new" THEN 0 ELSE 1
  <2>1. /\ Count(pending, d)' = Count(pending, d) /\ AtAcceptor(d)' = AtAcceptor(d)
        /\ Count(queue, d)' = Count(queue, d)
    BY <1>2 DEF Count, Places, AtAcceptor
  <2>2. Owners(d) = IF client[d] = "new" THEN 0 ELSE 1
    BY OwnersAreOne DEF IInv
  <2>3. /\ Cardinality(ServedBy(d)) \in Nat /\ Count(queue, d) \in Nat
        /\ Count(pending, d) \in Nat /\ AtAcceptor(d) \in {0, 1}
    BY OwnersAreNat DEF IInv
  <2>4. Cardinality(ServedBy(d))' + IsClosed(d)' = Cardinality(ServedBy(d)) + IsClosed(d)
    <3>1. CASE d = c
      <4>1. Cardinality(ServedBy(d)) = 1
        BY <1>4, <3>1, FS_Singleton
      <4>2. Cardinality(ServedBy(d))' = 0
        <5>1. ServedBy(d)' = {}
          BY <1>9, <3>1
        <5> QED
          BY <5>1, FS_EmptySet
      <4>3. IsClosed(d) = 0 /\ IsClosed(d)' = 1
        BY <1>1, <1>4, <3>1 DEF IsClosed
      <4> QED
        BY <4>1, <4>2, <4>3
    <3>2. CASE d # c
      <4>1. IsClosed(d)' = IsClosed(d)
        BY <1>1, <3>2 DEF IsClosed
      <4> QED
        BY <1>9, <3>2, <4>1
    <3> QED
      BY <3>1, <3>2
  <2>5. IsClosed(d) \in {0, 1} /\ IsClosed(d)' \in {0, 1} /\ Cardinality(ServedBy(d))' \in Nat
    <3>1. IsClosed(d) \in {0, 1} /\ IsClosed(d)' \in {0, 1}
      BY DEF IsClosed
    <3>2. Cardinality(ServedBy(d))' \in Nat
      <4>1. ServedBy(d)' = {} \/ ServedBy(d)' = ServedBy(d)
        BY <1>9
      <4>2. CASE ServedBy(d)' = {}
        BY <4>2, FS_EmptySet
      <4>3. CASE ServedBy(d)' = ServedBy(d)
        BY <2>3, <4>3
      <4> QED
        BY <4>1, <4>2, <4>3
    <3> QED
      BY <3>1, <3>2
  <2>6. Owners(d)' = Owners(d)
    BY <2>1, <2>3, <2>4, <2>5 DEF Owners
  <2> QED
    BY <1>2, <2>2, <2>6
<1>11. OneOwner'
  BY <1>10, OwnersStayOne
<1>12. OneAnswerEach'
  <2> SUFFICES ASSUME NEW v \in Workers
               PROVE  /\ pc'[v] = "receive" => due'[conn'[v]] = 0
                      /\ pc'[v] \in {"execute", "count", "add", "reply"}
                           => due'[conn'[v]] = 1
    BY DEF OneAnswerEach
  <2>1. CASE v = w
    BY <1>1, <1>5, <2>1
  <2>2. CASE v # w /\ pc[v] \in Serving
    <3>1. conn[v] # c
      BY <1>4, <2>2 DEF ServedBy
    <3>2. due'[conn[v]] = due[conn[v]] /\ pc'[v] = pc[v] /\ conn'[v] = conn[v]
      BY <1>1, <1>5, <2>2, <3>1 DEF IInv, TypeOK
    <3> QED
      BY <3>2 DEF IInv, OneAnswerEach
  <2>3. CASE v # w /\ pc[v] \notin Serving
    BY <1>1, <1>5, <2>3 DEF Serving
  <2> QED
    BY <2>1, <2>2, <2>3
<1>13. NothingDue'
  <2> SUFFICES ASSUME NEW d \in Clients, ServedBy(d)' = {}, d \notin closed'
               PROVE  due'[d] = 0
    BY DEF NothingDue
  <2>1. ServedBy(d) = {} /\ d # c /\ d \notin closed
    BY <1>1, <1>4, <1>9
  <2> QED
    BY <1>1, <1>5, <2>1 DEF IInv, NothingDue
<1>14. StatsLocked'
  BY <1>1, <1>2, StatsLockedStays
<1>15. Sending' = Sending
  <2>1. w \notin Sending /\ w \notin Sending'
    BY <1>1, <1>5 DEF Sending
  <2>2. \A v \in Workers \ {w} : v \in Sending' <=> v \in Sending
    BY <1>1, <1>2, <1>5 DEF Sending
  <2> QED
    BY <2>1, <2>2 DEF Sending
<1>16. CountedOnce'
  BY <1>2, <1>15, CountedOnceStays
<1>17. AnswerPending'
  BY <1>1, <1>2, <1>5 DEF IInv, AnswerPending
<1> QED
  BY <1>6, <1>7, <1>8, <1>11, <1>12, <1>13, <1>14, <1>16, <1>17 DEF IInv

-------------------------------------------------------------------------------

LEMMA InitIInv == Init => IInv
<1> SUFFICES ASSUME Init PROVE IInv
  OBVIOUS
<1>1. Cardinality(Workers) \in Nat \ {0}
  BY PoolAssumption, FS_CardinalityType, FS_EmptySet
<1>2. /\ client = [c \in Clients |-> "new"] /\ due = [c \in Clients |-> 0]
      /\ pending = <<>> /\ queue = <<>> /\ closed = {}
      /\ acceptor = "test" /\ stopper = "away" /\ owed = Cardinality(Workers)
      /\ pc = [w \in Workers |-> "get"]
      /\ queries = 0 /\ settled = 0
  BY DEF Init, Sentinels
<1>3. "get" \notin Serving
  BY DEF Serving
<1>4. TypeOK
  <2>1. pending \in Seq(Clients) /\ queue \in Seq(Clients \cup {Sentinel})
    BY <1>2, EmptySeq
  <2>2. inbox \in [Clients -> Nat]
    BY DEF Init
  <2>3. Len(queue) <= Backlog
    BY <1>2, EmptySeq, BacklogAssumption
  <2>4. requests \in 0 .. MaxRequests /\ owed \in 0 .. Cardinality(Workers)
    BY <1>1, <1>2, BacklogAssumption DEF Init
  <2>5. /\ pc \in [Workers -> Serving \cup {"get", "ended"}]
        /\ \A w \in Workers : pc[w] \in Serving => conn[w] \in Clients
    BY <1>2, <1>3
  <2>6. /\ client \in [Clients -> {"new", "connected", "gone"}] /\ due \in [Clients -> Int]
        /\ conn \in [Workers -> Clients \cup {Sentinel}] /\ hasStore \in [Workers -> BOOLEAN]
        /\ request \in [Workers -> Kinds] /\ answer \in [Workers -> {"OK", "ERROR"}]
        /\ seen \in [Workers -> Nat]
    BY DEF Init, Kinds
  <2>7. /\ listening \in BOOLEAN /\ running \in BOOLEAN /\ statsHeld \in BOOLEAN
        /\ acceptor \in {"test", "call", "accept", "put", "done"}
        /\ arriving \in Clients \cup {Sentinel}
        /\ stopper \in {"away", "close", "put", "stopped"}
        /\ queries \in Nat /\ settled \in Nat /\ closed \subseteq Clients
    BY DEF Init
  <2> QED
    BY <2>1, <2>2, <2>3, <2>4, <2>5, <2>6, <2>7 DEF TypeOK
<1>5. StopProgress
  BY <1>1, <1>2 DEF StopProgress
<1>6. \A x : Count(queue, x) = 0 /\ Count(pending, x) = 0
  <2>1. \A x : Places(queue, x) = {} /\ Places(pending, x) = {}
    BY <1>2 DEF Places
  <2> QED
    BY <2>1, FS_EmptySet DEF Count
<1>7. PoolMatchesSentinels
  <2>1. Alive = Workers
    BY <1>2 DEF Alive
  <2>2. Cardinality(SentinelsQueued) = 0
    BY <1>6 DEF SentinelsQueued, Count, Places
  <2> QED
    BY <1>1, <1>2, <2>1, <2>2 DEF PoolMatchesSentinels
<1>8. \A c \in Clients : ServedBy(c) = {}
  BY <1>2, <1>3 DEF ServedBy
<1>9. OneOwner
  <2>1. ASSUME NEW c \in Clients
        PROVE  Owners(c) = IF client[c] = "new" THEN 0 ELSE 1
    <3>1. Cardinality(ServedBy(c)) = 0 /\ AtAcceptor(c) = 0 /\ IsClosed(c) = 0
      BY <1>2, <1>8, FS_EmptySet DEF AtAcceptor, IsClosed
    <3> QED
      BY <1>2, <1>6, <3>1 DEF Owners
  <2> QED
    BY <2>1, OwnersAreOne
<1>10. OneAnswerEach /\ NothingDue /\ StatsLocked
  BY <1>2 DEF OneAnswerEach, NothingDue, StatsLocked
<1>11. CountedOnce
  <2>1. Sending = {}
    BY <1>2 DEF Sending
  <2> QED
    BY <1>2, <2>1, FS_EmptySet DEF CountedOnce
<1>12. AnswerPending
  BY <1>2 DEF Init, AnswerPending
<1> QED
  BY <1>4, <1>5, <1>7, <1>9, <1>10, <1>11, <1>12 DEF IInv

LEMMA StepIInv == IInv /\ [Next]_vars => IInv'
<1> SUFFICES ASSUME IInv, [Next]_vars PROVE IInv'
  OBVIOUS
<1>1. ASSUME NEW c \in Clients, Connect(c) \/ Send(c) \/ HangUp(c) PROVE IInv'
  BY <1>1, ConnectKeeps, SendKeeps, HangUpKeeps
<1>2. CASE AcceptorStep \/ AcceptFails
  BY <1>2, TestRunningKeeps, AcceptKeeps, PutConnectionKeeps DEF AcceptorStep
<1>3. CASE Stop \/ StopperStep
  BY <1>3, StopKeeps, PutSentinelKeeps DEF StopperStep
<1>4. ASSUME NEW w \in Workers, WorkerStep(w) PROVE IInv'
  <2>1. CASE Get(w)
    BY <2>1, GetSentinelKeeps, GetConnectionKeeps
  <2>2. CASE Receive(w)
    BY <2>2, ReceiveKeeps
  <2>3. CASE ReceiveFails(w) \/ SendFails(w)
    BY <2>3, LeaveServeKeeps
  <2>4. CASE Execute(w)
    BY <2>4, ExecuteKeeps
  <2>5. CASE LoadQueries(w)
    BY <2>5, LoadQueriesKeeps
  <2>6. CASE StoreQueries(w)
    BY <2>6, StoreQueriesKeeps
  <2>7. CASE Reply(w)
    BY <2>7, ReplyKeeps
  <2>8. CASE ResultFails(w)
    BY <2>8, ResultFailsKeeps
  <2>9. CASE Close(w)
    BY <2>9, CloseKeeps
  <2> QED
    BY <1>4, <2>1, <2>2, <2>3, <2>5, <2>6, <2>7, <2>8, <2>9, <2>4
    DEF WorkerStep, ReplyFails
<1>5. CASE UNCHANGED vars
  <2>1. /\ WorkersStay /\ UNCHANGED <<pending, queue, arriving, owed, acceptor, stopper, client>>
        /\ UNCHANGED <<inbox, requests, listening, running>>
    BY <1>5 DEF vars, clientVars, acceptVars, stopVars, serveVars, statsVars, WorkersStay
  <2>2. TypeOK'
    BY <2>1 DEF IInv, TypeOK, WorkersStay
  <2> QED
    BY <2>1, <2>2, NothingMovesKeeps
<1> QED
  BY <1>1, <1>2, <1>3, <1>4, <1>5 DEF Next, Terminated

LEMMA Invariance == Spec => []IInv
BY InitIInv, StepIInv, PTL DEF Spec

\* The server keeps its types; the queue never holds more than its bound, and a
\* worker that serves always has a connection to serve.
THEOREM TypeCorrectness == Spec => []TypeOK
<1>1. IInv => TypeOK
  BY DEF IInv
<1> QED
  BY <1>1, Invariance, PTL

\* Whatever requests, failures and hang-ups do to the workers, and whenever stop
\* is called: the workers alive are as many as the sentinels that stop has yet to
\* put or that wait in the queue, so that none is left without one.
THEOREM EveryWorkerIsTold == Spec => []PoolMatchesSentinels
<1>1. IInv => PoolMatchesSentinels
  BY DEF IInv
<1> QED
  BY <1>1, Invariance, PTL

\* A connection that was made is in the kernel's backlog, with the accept loop,
\* in the queue, with one worker or closed: in one of these places, once.
THEOREM ConnectionsHaveOneOwner == Spec => []OneOwner
<1>1. IInv => OneOwner
  BY DEF IInv
<1> QED
  BY <1>1, Invariance, PTL

\* Between requests a connection has no answer due and within one it has one,
\* whatever the store and the query make of it: none is left out or sent twice.
THEOREM AnswersAreInStep == Spec => []OneAnswerEach
<1>1. IInv => OneAnswerEach
  BY DEF IInv
<1> QED
  BY <1>1, Invariance, PTL

\* The lock around the counter neither loses an increment nor makes one twice: the
\* counter is at all times the number of queries whose result was sent, has failed,
\* or is about to be sent.
THEOREM QueriesAreCounted == Spec => []CountedOnce
<1>1. IInv => CountedOnce
  BY DEF IInv
<1> QED
  BY <1>1, Invariance, PTL
===============================================================================
