-------------------------------- MODULE Bridge --------------------------------
(***************************************************************************)
(* The sampler thread of dashboard/bridge.py, the query server it polls    *)
(* and the frames between them (recv_exact, send_frame and recv_frame of   *)
(* packetql/server.py).  Once a second the sampler asks for the number of  *)
(* rows and then for a sum, each request over a connection of its own with *)
(* retries, and records a sample.  /api/stats answers 503 when the latest  *)
(* sample is too old.                                                      *)
(*                                                                         *)
(* The server is up and then answers in time, or down, or silent: stopped, *)
(* hung, or with all its workers busy.  A capture appends to its store,    *)
(* which cannot be opened while columns and meta.json disagree (module     *)
(* ColumnStore).  Time passes in seconds; a connection carries bytes, each *)
(* of them knowing its frame, its place and what the frame says.           *)
(***************************************************************************)
EXTENDS Integers, Sequences

CONSTANTS HeaderSize,   \* bytes of a frame's header, 5 in the program
          Retries,      \* attempts of a request, 3
          Timeout,      \* seconds a socket waits, 3
          Fresh,        \* seconds a sample is good for, 4
          MaxRows       \* bound on the rows of the store

ASSUME BridgeAssumption ==
  /\ HeaderSize \in Nat \ {0} /\ Retries \in Nat \ {0}
  /\ Timeout \in Nat \ {0} /\ Fresh \in Nat /\ MaxRows \in Nat

VARIABLES
  server,       \* "up", "down", "silent"
  writing,      \* a flush is under way: the store does not open
  rows,         \* rows of the store
  pc,           \* the sampler: "sleep", or the request it makes: "stats", "sum"
  attempt,
  connected,
  waited,       \* seconds in this sleep, connect or recv
  age,          \* seconds since the latest sample
  toServer, toClient,   \* the bytes on their way
  atServer, atClient,   \* the bytes of the frame that recv_frame is putting together
  broken,       \* the server has gone away from this connection
  total,        \* the number of rows for the next sample
  since,        \* the rows when the request for it was made (history)
  window        \* a flush was under way since (history)

store == <<writing, rows>>
streams == <<toServer, toClient, atServer, atClient>>
request == <<pc, attempt, connected, waited>>
history == <<total, since, window>>
vars == <<server, store, request, age, streams, broken, history>>

Init ==
  /\ server \in {"up", "down"}
  /\ writing = FALSE /\ rows \in 0 .. MaxRows
  /\ pc = "sleep" /\ attempt = 0 /\ connected = FALSE /\ waited = 0
  /\ age = Fresh + 1
  /\ toServer = <<>> /\ toClient = <<>> /\ atServer = <<>> /\ atClient = <<>>
  /\ broken = FALSE
  /\ total = 0 /\ since = 0 /\ window = FALSE

-----------------------------------------------------------------------------
(* Frames.                                                                 *)

\* What an answer says; an ERROR has no rows.
Says(n) == [ok |-> TRUE, rows |-> n]
NoRows == [ok |-> FALSE, rows |-> 0]

\* send_frame: a header with the length and a payload; what it says is in the bytes.
Frame(of, length, says) ==
  [at \in 1 .. HeaderSize + length |-> [of |-> of, at |-> at, length |-> length, says |-> says]]

Request == Frame(<<pc, attempt>>, IF pc = "stats" THEN 0 ELSE 1, NoRows)

\* A reader for which one recv of the payload is all of it.
OneRecv(got) == \/ Len(got) > HeaderSize
                \/ Len(got) = HeaderSize /\ got[1].length = 0

\* recv_frame has the header, and as many bytes of payload as it announces.
Complete(got) == Len(got) >= HeaderSize /\ Len(got) = HeaderSize + got[1].length

\* What recv_exact still asks for, of the header first.
Missing(got) ==
  IF Len(got) < HeaderSize THEN HeaderSize - Len(got) ELSE HeaderSize + got[1].length - Len(got)

\* A recv returns some of what is there, at most what it asks for.
Received(stream, got) ==
  {n \in 1 .. Len(stream) : ~Complete(got) /\ n <= Missing(got)}

-----------------------------------------------------------------------------
(* The server and the store.                                               *)

\* A flush begins: until it ends the sizes and meta.json disagree.
BeginFlush ==
  /\ ~writing /\ rows < MaxRows
  /\ writing' = TRUE
  /\ window' = (window \/ pc = "stats")
  /\ UNCHANGED <<server, rows, request, age, streams, broken, total, since>>

EndFlush ==
  /\ writing
  /\ writing' = FALSE /\ rows' = rows + 1
  /\ UNCHANGED <<server, request, age, streams, broken, history>>

\* The server ends; of what it has sent some may still arrive.
GoDown ==
  /\ server # "down"
  /\ server' = "down"
  /\ broken' = connected
  /\ toServer' = <<>> /\ atServer' = <<>>
  /\ \E n \in 0 .. Len(toClient) : toClient' = SubSeq(toClient, 1, n)
  /\ UNCHANGED <<store, request, age, atClient, history>>

GoSilent ==
  /\ server = "up"
  /\ server' = "silent"
  /\ UNCHANGED <<store, request, age, streams, broken, history>>

ComeUp ==
  /\ server # "up"
  /\ server' = "up"
  /\ UNCHANGED <<store, request, age, streams, broken, history>>

\* recv_exact in the worker.
ServerRecv ==
  /\ server = "up"
  /\ \E n \in Received(toServer, atServer) :
       /\ atServer' = atServer \o SubSeq(toServer, 1, n)
       /\ toServer' = SubSeq(toServer, n + 1, Len(toServer))
  /\ UNCHANGED <<server, store, request, age, toClient, atClient, broken, history>>

\* _serve: the rows, or an ERROR that the store could not be opened.
ServerReply ==
  /\ server = "up" /\ Complete(atServer)
  /\ toClient' = toClient \o Frame(atServer[1].of, 2, IF writing THEN NoRows ELSE Says(rows))
  /\ atServer' = <<>>
  /\ UNCHANGED <<server, store, request, age, toServer, atClient, broken, history>>

-----------------------------------------------------------------------------
(* The sampler.                                                            *)

\* A sampler that goes on with the connection of the attempt before.
KeepSocket == UNCHANGED <<toServer, toClient, atServer, broken>>

\* sock.close(): what is still on its way is of no concern to the next attempt.
CloseSocket == toServer' = <<>> /\ toClient' = <<>> /\ atServer' = <<>> /\ broken' = FALSE

\* The next step of the sampler: an attempt of a request, or a sleep.
Begin(kind, n) ==
  /\ pc' = kind /\ attempt' = n /\ connected' = FALSE /\ waited' = 0
  /\ atClient' = <<>>
  /\ CloseSocket

Wake ==
  /\ pc = "sleep" /\ waited >= 1
  /\ Begin("stats", 1)
  /\ since' = rows /\ window' = writing
  /\ UNCHANGED <<server, store, age, total>>

\* A sample is taken with the number of rows there is; then a second's sleep.
Sample ==
  /\ age' = 0
  /\ Begin("sleep", 0)
  /\ total' = 0 /\ since' = 0 /\ window' = FALSE

\* create_connection and send_frame; a listening socket accepts for a silent server.
Connect ==
  /\ pc # "sleep" /\ ~connected /\ server # "down"
  /\ connected' = TRUE /\ waited' = 0
  /\ toServer' = toServer \o Request
  /\ UNCHANGED <<server, store, pc, attempt, age, toClient, atServer, atClient, broken, history>>

ClientRecv ==
  /\ connected
  /\ \E n \in Received(toClient, atClient) :
       /\ atClient' = atClient \o SubSeq(toClient, 1, n)
       /\ toClient' = SubSeq(toClient, n + 1, Len(toClient))
  /\ waited' = 0
  /\ UNCHANGED <<server, store, pc, attempt, connected, age, toServer, atServer, broken, history>>

\* pql_total_packets: the status is not looked at, and no rows=N counts as none.
RowsIn(says) == IF says.ok THEN says.rows ELSE 0

Answered ==
  /\ connected /\ Complete(atClient)
  /\ IF pc = "stats"
     THEN /\ total' = RowsIn(atClient[1].says)
          /\ Begin("sum", 1)
          /\ UNCHANGED <<age, since, window>>
     ELSE Sample
  /\ UNCHANGED <<server, store>>

\* Every attempt has failed: without the rows there is no sample.
NeverGivesUp == FALSE
GivesUp == pc = "stats"

\* An OSError: the next attempt, or a WireError.
Fail ==
  /\ IF attempt < Retries
     THEN Begin(pc, attempt + 1) /\ UNCHANGED <<age, history>>
     ELSE IF GivesUp THEN Begin("sleep", 0) /\ UNCHANGED age /\ total' = 0 /\ since' = 0 /\ window' = FALSE
     ELSE Sample
  /\ UNCHANGED <<server, store>>

Refused == pc # "sleep" /\ ~connected /\ server = "down" /\ Fail
Reset == broken /\ toClient = <<>> /\ ~Complete(atClient) /\ Fail
TimeOut == pc # "sleep" /\ waited = Timeout /\ Fail

\* A second passes.  No timer runs over, and a server that is up answers in time.
Tick ==
  /\ pc # "sleep" => waited < (IF server = "up" THEN Timeout - 1 ELSE Timeout)
  /\ waited' = IF pc = "sleep" THEN 1 ELSE waited + 1
  /\ age' = IF age > Fresh THEN age ELSE age + 1
  /\ UNCHANGED <<server, store, pc, attempt, connected, streams, broken, history>>

Sampler == Wake \/ Connect \/ ClientRecv \/ Answered \/ Refused \/ Reset \/ TimeOut
Server == ServerRecv \/ ServerReply
Next == \/ BeginFlush \/ EndFlush \/ GoDown \/ GoSilent \/ ComeUp
        \/ Server \/ Sampler \/ Tick

\* The threads run and time passes; nothing says that the server must be up.
Fairness == WF_vars(Sampler) /\ WF_vars(Server) /\ WF_vars(Tick)
Spec == Init /\ [][Next]_vars /\ Fairness

-----------------------------------------------------------------------------
(* Properties.                                                             *)

\* An answer that recv_frame has put together is one whole frame, byte for byte, and
\* it answers the request that this attempt made: however the frames are cut and
\* whichever attempts before timed out or broke (server.py:42-59, bridge.py:46-57).
AnswersAreOwn ==
  connected /\ Complete(atClient) => atClient = Frame(<<pc, attempt>>, 2, atClient[1].says)

\* The number of rows that a sample records is one that the store had since it was
\* asked for, through all retries and outages, unless a flush was under way while
\* it was asked for.  Beside a flush the code records 0 (bridge.py:46, 69-72: the
\* ERROR is neither retried nor told from an answer), which is a finding.
SamplesAreTrue == pc = "sum" /\ ~window => total \in since .. rows

\* api_stats answers 503 (bridge.py:128).
Unreachable == age > Fresh

\* A server that stays away, whether it refuses connections or hangs, ends in
\* /api/stats saying so for good (bridge.py:91-92, 128); and one that stays up is
\* seen again and again, whatever state its outage left the sampler in.
StatsFollowServer ==
  /\ <>[](server # "up") => <>[]Unreachable
  /\ <>[](server = "up") => []<>~Unreachable
===============================================================================
