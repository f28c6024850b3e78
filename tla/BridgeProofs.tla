----------------------------- MODULE BridgeProofs -----------------------------
(***************************************************************************)
(* An answer put together is one's own, and a sample that no flush came    *)
(* beside is true, for every size of header, number of attempts, timeouts  *)
(* and rows.                                                               *)
(*                                                                         *)
(* The inductive invariant follows one frame at a time over a connection:  *)
(* nothing, then the request, split anywhere between the wire and the      *)
(* server, then an answer of which the end may be lost, split anywhere     *)
(* between the wire and the sampler.  The answer, wherever it is, says     *)
(* something that was true since the rows were asked for.                  *)
(***************************************************************************)
EXTENDS Bridge, SequenceTheorems, TLAPS

Kinds == {"sleep", "stats", "sum"}
Answers == [ok : BOOLEAN, rows : Nat]
Bytes == [of : Kinds \X Nat, at : Nat, length : Nat, says : Answers]

Types ==
  /\ writing \in BOOLEAN /\ rows \in Nat
  /\ pc \in Kinds /\ attempt \in Nat /\ connected \in BOOLEAN
  /\ toServer \in Seq(Bytes) /\ toClient \in Seq(Bytes)
  /\ atServer \in Seq(Bytes) /\ atClient \in Seq(Bytes)
  /\ total \in Nat /\ since \in Nat /\ window \in BOOLEAN

\* What an answer may say while the rows are asked for.
Truthful == {s \in Answers : pc = "stats" => IF s.ok THEN s.rows \in since .. rows ELSE window}

Quiet == toServer = <<>> /\ atServer = <<>> /\ toClient = <<>> /\ atClient = <<>>

Asking ==
  /\ connected /\ pc # "sleep"
  /\ toClient = <<>> /\ atClient = <<>>
  /\ atServer \o toServer = Request

Answering ==
  /\ connected /\ pc # "sleep"
  /\ toServer = <<>> /\ atServer = <<>>
  /\ \E says \in Truthful, n \in 0 .. HeaderSize + 2 :
       atClient \o toClient = SubSeq(Frame(<<pc, attempt>>, 2, says), 1, n)

OneFrame == Quiet \/ Asking \/ Answering

AskedSince ==
  pc = "stats" => since <= rows /\ (writing => window)

\* The total of the next sample: a true number of rows, or the 0 of an ERROR, which
\* is had only beside a flush.
TotalIsKnown ==
  pc = "sum" => \/ total \in since .. rows
                \/ total = 0 /\ window

IInv == Types /\ OneFrame /\ AskedSince /\ TotalIsKnown /\ (~connected => Quiet)

-----------------------------------------------------------------------------
(* Frames and pieces of them.                                              *)

LEMMA FrameBytes ==
  ASSUME NEW of \in Kinds \X Nat, NEW length \in Nat, NEW says \in Answers
  PROVE  /\ Frame(of, length, says) \in Seq(Bytes)
         /\ Len(Frame(of, length, says)) = HeaderSize + length
         /\ \A i \in 1 .. HeaderSize + length :
              Frame(of, length, says)[i] = [of |-> of, at |-> i, length |-> length, says |-> says]
<1>1. HeaderSize + length \in Nat
  BY BridgeAssumption
<1>2. Frame(of, length, says) \in [1 .. HeaderSize + length -> Bytes]
  BY <1>1 DEF Frame, Bytes
<1> QED
  BY <1>1, <1>2 DEF Frame

\* Every byte of a frame, so its first, knows what the frame says.
LEMMA FirstByte ==
  ASSUME NEW of, NEW length \in Nat, NEW says
  PROVE  Frame(of, length, says)[1].says = says
<1>1. 1 \in 1 .. HeaderSize + length
  BY BridgeAssumption
<1> QED
  BY <1>1 DEF Frame

\* A recv moves bytes from the stream to the reader, and none is lost or moved past another.
LEMMA RecvKeepsBytes ==
  ASSUME NEW got \in Seq(Bytes), NEW stream \in Seq(Bytes), NEW n \in 1 .. Len(stream)
  PROVE  /\ got \o SubSeq(stream, 1, n) \in Seq(Bytes)
         /\ SubSeq(stream, n + 1, Len(stream)) \in Seq(Bytes)
         /\ (got \o SubSeq(stream, 1, n)) \o SubSeq(stream, n + 1, Len(stream)) = got \o stream
<1> DEFINE front == SubSeq(stream, 1, n)
           back == SubSeq(stream, n + 1, Len(stream))
<1>1. Len(stream) \in Nat
  BY LenProperties
<1>2. front \in Seq(Bytes)
  <2>1. \A i \in 1 .. n : stream[i] \in Bytes
    BY <1>1, ElementOfSeq
  <2> QED
    BY <1>1, <2>1, SubSeqProperties
<1>3. back \in Seq(Bytes)
  <2>1. \A i \in n + 1 .. Len(stream) : stream[i] \in Bytes
    BY <1>1, ElementOfSeq
  <2> QED
    BY <1>1, <2>1, SubSeqProperties
<1>4. front \o back = stream
  BY <1>1, ConcatAdjacentSubSeq, SubSeqFull
<1>5. \A s, t, u \in Seq(Bytes) : (s \o t) \o u = s \o (t \o u)
  OBVIOUS
<1> QED
  <2> HIDE DEF front, back
  <2>1. (got \o front) \o back = got \o stream
    BY <1>2, <1>3, <1>4, <1>5
  <2>2. got \o front \in Seq(Bytes)
    BY <1>2, ConcatProperties, Zenon
  <2> QED
    BY <1>3, <2>1, <2>2 DEF front, back

\* A frame that loses its end stays the beginning of a frame.
LEMMA CutKeepsBeginning ==
  ASSUME NEW got \in Seq(Bytes), NEW stream \in Seq(Bytes), NEW n \in 0 .. Len(stream),
         NEW frame \in Seq(Bytes), NEW m \in 0 .. Len(frame),
         got \o stream = SubSeq(frame, 1, m)
  PROVE  /\ SubSeq(stream, 1, n) \in Seq(Bytes)
         /\ Len(got) + n \in 0 .. Len(frame)
         /\ got \o SubSeq(stream, 1, n) = SubSeq(frame, 1, Len(got) + n)
<1> DEFINE piece == SubSeq(stream, 1, n)
           k == Len(got) + n
<1>1. /\ Len(stream) \in Nat /\ Len(got) \in Nat /\ Len(frame) \in Nat
      /\ n \in Int /\ m \in Int
  BY LenProperties
<1>2. /\ piece \in Seq(Bytes) /\ Len(piece) = n
      /\ \A i \in 1 .. n : piece[i] = stream[i]
  <2>1. \A i \in 1 .. n : stream[i] \in Bytes
    BY <1>1, ElementOfSeq
  <2> QED
    BY <1>1, <2>1, SubSeqProperties
<1>3. \A j \in 0 .. Len(frame) :
         /\ SubSeq(frame, 1, j) \in Seq(Bytes) /\ Len(SubSeq(frame, 1, j)) = j
         /\ \A i \in 1 .. j : SubSeq(frame, 1, j)[i] = frame[i]
  <2> SUFFICES ASSUME NEW j \in 0 .. Len(frame)
               PROVE  /\ SubSeq(frame, 1, j) \in Seq(Bytes) /\ Len(SubSeq(frame, 1, j)) = j
                      /\ \A i \in 1 .. j : SubSeq(frame, 1, j)[i] = frame[i]
    OBVIOUS
  <2>1. j \in Int /\ \A i \in 1 .. j : frame[i] \in Bytes
    BY <1>1, ElementOfSeq
  <2> QED
    BY <1>1, <2>1, SubSeqProperties
<1>4. /\ Len(got) + Len(stream) = m
      /\ \A i \in 1 .. m : (got \o stream)[i] = frame[i]
      /\ \A i \in 1 .. m : (got \o stream)[i] = IF i <= Len(got) THEN got[i] ELSE stream[i - Len(got)]
  BY <1>3, ConcatProperties
<1>5. /\ got \o piece \in Seq(Bytes) /\ Len(got \o piece) = k
      /\ \A i \in 1 .. k : (got \o piece)[i] = IF i <= Len(got) THEN got[i] ELSE piece[i - Len(got)]
  BY <1>2, ConcatProperties
<1>6. k \in 0 .. Len(frame) /\ k <= m
  BY <1>1, <1>4
<1>7. \A i \in 1 .. k : (got \o piece)[i] = SubSeq(frame, 1, k)[i]
  BY <1>1, <1>2, <1>3, <1>4, <1>5, <1>6
<1>8. got \o piece = SubSeq(frame, 1, k)
  BY <1>3, <1>5, <1>6, <1>7, SeqEqual
<1> QED
  BY <1>2, <1>6, <1>8

\* recv_frame returns when it has the whole frame and nothing else.
LEMMA CompleteIsWhole ==
  ASSUME NEW of \in Kinds \X Nat, NEW length \in Nat, NEW says \in Answers,
         NEW got \in Seq(Bytes), NEW rest \in Seq(Bytes), NEW m \in 0 .. HeaderSize + length,
         got \o rest = SubSeq(Frame(of, length, says), 1, m),
         Complete(got)
  PROVE  got = Frame(of, length, says) /\ rest = <<>>
<1> DEFINE frame == Frame(of, length, says)
<1>1. /\ frame \in Seq(Bytes) /\ Len(frame) = HeaderSize + length
      /\ \A i \in 1 .. HeaderSize + length :
           frame[i] = [of |-> of, at |-> i, length |-> length, says |-> says]
  BY FrameBytes
<1> HIDE DEF frame
<1>2. Len(got) \in Nat /\ Len(rest) \in Nat /\ HeaderSize + length \in Nat /\ m \in Int
  BY LenProperties, BridgeAssumption
<1>3. /\ SubSeq(frame, 1, m) \in Seq(Bytes) /\ Len(SubSeq(frame, 1, m)) = m
      /\ \A i \in 1 .. m : SubSeq(frame, 1, m)[i] = frame[i]
  <2>1. \A i \in 1 .. m : frame[i] \in Bytes
    BY <1>1, <1>2, ElementOfSeq
  <2> QED
    BY <1>2, <2>1, SubSeqProperties
<1>4. /\ Len(got) + Len(rest) = m
      /\ \A i \in 1 .. m : (got \o rest)[i] = frame[i]
      /\ \A i \in 1 .. m : (got \o rest)[i] = IF i <= Len(got) THEN got[i] ELSE rest[i - Len(got)]
  BY <1>3, ConcatProperties DEF frame
<1>5. \A i \in 1 .. Len(got) : got[i] = frame[i]
  BY <1>2, <1>4
<1>6. got[1].length = length
  <2>1. 1 \in 1 .. Len(got) /\ 1 \in 1 .. HeaderSize + length
    BY <1>2, <1>4, BridgeAssumption DEF Complete
  <2> QED
    BY <1>1, <1>5, <2>1
<1>7. Len(got) = Len(frame) /\ Len(rest) = 0
  BY <1>1, <1>2, <1>4, <1>6, BridgeAssumption DEF Complete
<1>8. got = frame
  BY <1>1, <1>5, <1>7, SeqEqual
<1> QED
  BY <1>7, <1>8, EmptySeq DEF frame

-----------------------------------------------------------------------------
(* The invariant.                                                          *)

LEMMA RequestBytes ==
  ASSUME Types
  PROVE  /\ Request = Frame(<<pc, attempt>>, IF pc = "stats" THEN 0 ELSE 1, NoRows)
         /\ <<pc, attempt>> \in Kinds \X Nat
         /\ NoRows \in Answers
         /\ Request \in Seq(Bytes)
         /\ SubSeq(Request, 1, Len(Request)) = Request
<1>1. /\ <<pc, attempt>> \in Kinds \X Nat
      /\ NoRows \in Answers
      /\ Request = Frame(<<pc, attempt>>, IF pc = "stats" THEN 0 ELSE 1, NoRows)
  BY DEF Types, NoRows, Answers, Request
<1>2. Request \in Seq(Bytes)
  BY <1>1, FrameBytes
<1> QED
  BY <1>1, <1>2, SubSeqFull

\* What an invariant state says of an answer that is complete.
LEMMA CompleteIsOwn ==
  ASSUME IInv, connected, Complete(atClient)
  PROVE  \E says \in Truthful :
           /\ atClient = Frame(<<pc, attempt>>, 2, says)
           /\ atClient[1].says = says
<1>1. atClient # <<>> /\ 1 \in 1 .. HeaderSize + 2
  BY BridgeAssumption, EmptySeq DEF Complete
<1>2. Answering
  BY <1>1 DEF IInv, OneFrame, Quiet, Asking
<1>3. PICK says \in Truthful, n \in 0 .. HeaderSize + 2 :
        atClient \o toClient = SubSeq(Frame(<<pc, attempt>>, 2, says), 1, n)
  BY <1>2 DEF Answering
<1>4. /\ says \in Answers /\ <<pc, attempt>> \in Kinds \X Nat
      /\ atClient \in Seq(Bytes) /\ toClient \in Seq(Bytes)
  BY <1>3 DEF Truthful, IInv, Types
<1>5. atClient = Frame(<<pc, attempt>>, 2, says)
  BY <1>3, <1>4, CompleteIsWhole
<1>6. Frame(<<pc, attempt>>, 2, says)[1].says = says
  BY FirstByte
<1> QED
  BY <1>5, <1>6

LEMMA InitIInv == Init => IInv
<1> SUFFICES ASSUME Init PROVE IInv
  OBVIOUS
<1>1. Types
  <2>1. rows \in Nat
    BY BridgeAssumption DEF Init
  <2>2. <<>> \in Seq(Bytes)
    BY EmptySeq
  <2> QED
    BY <2>1, <2>2 DEF Init, Types, Kinds
<1>2. Quiet /\ AskedSince /\ TotalIsKnown
  BY DEF Init, Quiet, AskedSince, TotalIsKnown
<1> QED
  BY <1>1, <1>2 DEF IInv, OneFrame

\* A step of the sampler that closes the socket need only see to the history.
LEMMA BeginIInv ==
  ASSUME IInv, NEW kind \in Kinds, NEW n \in Nat, Begin(kind, n),
         UNCHANGED <<writing, rows>>,
         total' \in Nat, since' \in Nat, window' \in BOOLEAN,
         AskedSince', TotalIsKnown'
  PROVE  IInv'
<1>1. Types'
  BY EmptySeq DEF IInv, Types, Begin, CloseSocket
<1>2. Quiet'
  BY DEF Begin, CloseSocket, Quiet
<1> QED
  BY <1>1, <1>2 DEF IInv, OneFrame

LEMMA FailIInv ==
  ASSUME IInv, Fail
  PROVE  IInv'
<1>1. CASE attempt < Retries
  <2>1. Begin(pc, attempt + 1) /\ UNCHANGED <<writing, rows, total, since, window>> /\ pc' = pc
    BY <1>1 DEF Fail, Begin, history, store
  <2>2. AskedSince' /\ TotalIsKnown'
    BY <2>1 DEF IInv, AskedSince, TotalIsKnown
  <2> QED
    BY <2>1, <2>2, BeginIInv DEF IInv, Types
<1>2. CASE ~(attempt < Retries)
  <2>1. /\ Begin("sleep", 0) /\ UNCHANGED <<writing, rows>> /\ pc' = "sleep"
        /\ total' = 0 /\ since' = 0 /\ window' = FALSE
    BY <1>2 DEF Fail, Begin, Sample, store
  <2>2. AskedSince' /\ TotalIsKnown'
    BY <2>1 DEF AskedSince, TotalIsKnown
  <2> QED
    BY <2>1, <2>2, BeginIInv DEF Kinds
<1> QED
  BY <1>1, <1>2

\* The bytes of the request or of the answer stay those of one frame when the frame
\* and the four places are what they were.
LEMMA TruthfulGrows ==
  ASSUME IInv, UNCHANGED <<pc, since>>, rows' \in Nat, rows <= rows', window => window'
  PROVE  Truthful \subseteq Truthful'
  BY DEF IInv, Types, Truthful, Answers

LEMMA FrameStays ==
  ASSUME IInv, UNCHANGED <<pc, attempt, connected, since, streams>>,
         rows' \in Nat, rows <= rows', window => window'
  PROVE  OneFrame' /\ (~connected' => Quiet')
<1>1. Quiet => Quiet'
  BY DEF Quiet, streams
<1>2. Asking => Asking'
  BY DEF Asking, streams, Request, Frame
<1>3. Answering => Answering'
  BY TruthfulGrows DEF Answering, streams, Frame
<1> QED
  BY <1>1, <1>2, <1>3 DEF IInv, OneFrame

\* A step that leaves the sampler and the bytes alone.
LEMMA BesideIInv ==
  ASSUME IInv, UNCHANGED <<pc, attempt, connected, total, since, streams>>,
         writing' \in BOOLEAN, rows' \in Nat, rows <= rows',
         window' \in BOOLEAN, window => window', pc = "stats" /\ writing' => window'
  PROVE  IInv'
<1>1. Types'
  BY DEF IInv, Types, streams
<1>2. OneFrame' /\ (~connected' => Quiet')
  BY FrameStays
<1>3. AskedSince' /\ TotalIsKnown'
  BY DEF IInv, Types, AskedSince, TotalIsKnown
<1> QED
  BY <1>1, <1>2, <1>3 DEF IInv

LEMMA StoreIInv ==
  ASSUME IInv, BeginFlush \/ EndFlush
  PROVE  IInv'
<1>1. CASE BeginFlush
  <2>1. /\ UNCHANGED <<pc, attempt, connected, total, since, streams, rows>>
        /\ writing' = TRUE /\ window' = (window \/ pc = "stats")
    BY <1>1 DEF BeginFlush, request
  <2>2. rows' \in Nat /\ rows <= rows' /\ window' \in BOOLEAN
    BY <2>1 DEF IInv, Types
  <2> QED
    BY <2>1, <2>2, BesideIInv
<1>2. CASE EndFlush
  <2>1. /\ UNCHANGED <<pc, attempt, connected, total, since, streams, window>>
        /\ writing' = FALSE /\ rows' = rows + 1
    BY <1>2 DEF EndFlush, request, history
  <2>2. rows' \in Nat /\ rows <= rows' /\ window' \in BOOLEAN
    BY <2>1 DEF IInv, Types
  <2> QED
    BY <2>1, <2>2, BesideIInv
<1> QED
  BY <1>1, <1>2

LEMMA GoDownIInv ==
  ASSUME IInv, GoDown
  PROVE  IInv'
<1>1. /\ UNCHANGED <<pc, attempt, connected, total, since, window, writing, rows, atClient>>
      /\ toServer' = <<>> /\ atServer' = <<>>
  BY DEF GoDown, store, request, history
<1>2. PICK n \in 0 .. Len(toClient) : toClient' = SubSeq(toClient, 1, n)
  BY DEF GoDown
<1>3. CASE toClient = <<>> /\ atClient = <<>>
  <2>1. toClient' = <<>>
    BY <1>2, <1>3, SubSeqEmpty
  <2>2. Quiet'
    BY <1>1, <1>3, <2>1 DEF Quiet
  <2>3. Types'
    BY <1>1, <2>1, EmptySeq DEF IInv, Types
  <2> QED
    BY <1>1, <2>2, <2>3 DEF IInv, OneFrame, AskedSince, TotalIsKnown
<1>4. CASE ~(toClient = <<>> /\ atClient = <<>>)
  <2>1. Answering
    BY <1>4 DEF IInv, OneFrame, Quiet, Asking
  <2>2. PICK says \in Truthful, m \in 0 .. HeaderSize + 2 :
          atClient \o toClient = SubSeq(Frame(<<pc, attempt>>, 2, says), 1, m)
    BY <2>1 DEF Answering
  <2> DEFINE frame == Frame(<<pc, attempt>>, 2, says)
  <2>3. frame \in Seq(Bytes) /\ Len(frame) = HeaderSize + 2
    <3>1. says \in Answers /\ <<pc, attempt>> \in Kinds \X Nat
      BY DEF Truthful, IInv, Types
    <3> QED
      BY <3>1, FrameBytes
  <2>4. atClient \in Seq(Bytes) /\ toClient \in Seq(Bytes)
    BY DEF IInv, Types
  <2>5. /\ toClient' \in Seq(Bytes)
        /\ \E k \in 0 .. HeaderSize + 2 : atClient \o toClient' = SubSeq(frame, 1, k)
    <3>1. atClient \o toClient = SubSeq(frame, 1, m)
      BY <2>2
    <3>2. m \in 0 .. Len(frame)
      BY <2>3
    <3> HIDE DEF frame
    <3>3. /\ Len(atClient) + n \in 0 .. Len(frame)
          /\ atClient \o SubSeq(toClient, 1, n) = SubSeq(frame, 1, Len(atClient) + n)
      BY <1>2, <2>3, <2>4, <3>1, <3>2, CutKeepsBeginning
    <3>4. SubSeq(toClient, 1, n) \in Seq(Bytes)
      BY <1>2, <2>3, <2>4, <3>1, <3>2, CutKeepsBeginning
    <3> QED
      BY <1>2, <2>3, <3>3, <3>4
  <2>6. Types'
    BY <1>1, <2>5, EmptySeq DEF IInv, Types
  <2>7. says \in Truthful'
    BY <1>1 DEF Truthful
  <2>8. Answering'
    BY <1>1, <2>1, <2>5, <2>7 DEF Answering, Frame
  <2> QED
    BY <1>1, <2>1, <2>6, <2>8 DEF IInv, OneFrame, Answering, AskedSince, TotalIsKnown
<1> QED
  BY <1>3, <1>4

LEMMA ServerRecvIInv ==
  ASSUME IInv, ServerRecv
  PROVE  IInv'
<1>1. UNCHANGED <<pc, attempt, connected, total, since, window, writing, rows, toClient, atClient>>
  BY DEF ServerRecv, store, request, history
<1>2. PICK n \in 1 .. Len(toServer) :
        /\ atServer' = atServer \o SubSeq(toServer, 1, n)
        /\ toServer' = SubSeq(toServer, n + 1, Len(toServer))
  BY DEF ServerRecv, Received
<1>3. atServer \in Seq(Bytes) /\ toServer \in Seq(Bytes)
  BY DEF IInv, Types
<1>4. /\ atServer' \in Seq(Bytes) /\ toServer' \in Seq(Bytes)
      /\ atServer' \o toServer' = atServer \o toServer
  BY <1>2, <1>3, RecvKeepsBytes
<1>5. toServer # <<>>
  BY <1>2, EmptySeq
<1>6. Asking
  BY <1>5 DEF IInv, OneFrame, Quiet, Answering
<1>7. Asking'
  BY <1>1, <1>4, <1>6 DEF Asking, Request, Frame
<1>8. Types'
  BY <1>1, <1>4 DEF IInv, Types
<1> QED
  BY <1>1, <1>6, <1>7, <1>8 DEF IInv, OneFrame, Asking, AskedSince, TotalIsKnown

LEMMA ServerReplyIInv ==
  ASSUME IInv, ServerReply
  PROVE  IInv'
<1> DEFINE says == IF writing THEN NoRows ELSE Says(rows)
           frame == Frame(<<pc, attempt>>, 2, says)
<1>1. UNCHANGED <<pc, attempt, connected, total, since, window, writing, rows, toServer, atClient>>
  BY DEF ServerReply, store, request, history
<1>2. Len(atServer) # 0 /\ Complete(atServer)
  BY BridgeAssumption DEF ServerReply, Complete
<1>3. Asking
  BY <1>2, EmptySeq DEF IInv, OneFrame, Quiet, Answering
<1>4. atServer = Request /\ toServer = <<>>
  <2>1. Request \in Seq(Bytes) /\ SubSeq(Request, 1, Len(Request)) = Request
    BY RequestBytes DEF IInv
  <2>2. /\ Request = Frame(<<pc, attempt>>, IF pc = "stats" THEN 0 ELSE 1, NoRows)
        /\ <<pc, attempt>> \in Kinds \X Nat /\ NoRows \in Answers
    BY RequestBytes DEF IInv
  <2>3. Len(Request) = HeaderSize + (IF pc = "stats" THEN 0 ELSE 1)
    BY <2>2, FrameBytes
  <2>4. Len(Request) \in 0 .. HeaderSize + (IF pc = "stats" THEN 0 ELSE 1)
    BY <2>3, BridgeAssumption
  <2>5. atServer \o toServer = SubSeq(Request, 1, Len(Request))
    BY <1>3, <2>1 DEF Asking
  <2>6. atServer \in Seq(Bytes) /\ toServer \in Seq(Bytes)
    BY DEF IInv, Types
  <2> QED
    BY <1>2, <2>2, <2>4, <2>5, <2>6, CompleteIsWhole
<1>5. atServer[1].of = <<pc, attempt>>
  <2>1. 1 \in 1 .. HeaderSize + (IF pc = "stats" THEN 0 ELSE 1)
    BY BridgeAssumption
  <2> QED
    BY <1>4, <2>1 DEF Request, Frame
<1>6. says \in Truthful /\ says \in Answers /\ <<pc, attempt>> \in Kinds \X Nat
  BY DEF Truthful, Answers, Says, NoRows, IInv, Types, AskedSince
<1>7. frame \in Seq(Bytes) /\ Len(frame) = HeaderSize + 2
  BY <1>6, FrameBytes
<1>8. toClient' = frame /\ atServer' = <<>>
  <2>1. toClient' = <<>> \o frame
    BY <1>3, <1>5 DEF ServerReply, Asking
  <2> HIDE DEF frame
  <2> QED
    BY <1>7, <2>1, ConcatEmptySeq DEF ServerReply
<1>9. Types'
  BY <1>1, <1>7, <1>8, EmptySeq DEF IInv, Types
<1>10. Answering'
  <2>1. atClient' \o toClient' = SubSeq(frame, 1, HeaderSize + 2)
    <3> HIDE DEF frame
    <3>1. <<>> \o frame = frame /\ SubSeq(frame, 1, Len(frame)) = frame
      BY <1>7, ConcatEmptySeq, SubSeqFull
    <3> QED
      BY <1>1, <1>3, <1>7, <1>8, <3>1 DEF Asking
  <2>2. says \in Truthful' /\ HeaderSize + 2 \in 0 .. HeaderSize + 2
    BY <1>1, <1>6, BridgeAssumption DEF Truthful
  <2> QED
    BY <1>1, <1>3, <1>4, <1>8, <2>1, <2>2 DEF Answering, Asking, Frame
<1> QED
  BY <1>1, <1>3, <1>9, <1>10 DEF IInv, OneFrame, Asking, AskedSince, TotalIsKnown

LEMMA ClientRecvIInv ==
  ASSUME IInv, ClientRecv
  PROVE  IInv'
<1>1. UNCHANGED <<pc, attempt, connected, total, since, window, writing, rows, toServer, atServer>>
  BY DEF ClientRecv, store, history
<1>2. PICK n \in 1 .. Len(toClient) :
        /\ atClient' = atClient \o SubSeq(toClient, 1, n)
        /\ toClient' = SubSeq(toClient, n + 1, Len(toClient))
  BY DEF ClientRecv, Received
<1>3. atClient \in Seq(Bytes) /\ toClient \in Seq(Bytes)
  BY DEF IInv, Types
<1>4. /\ atClient' \in Seq(Bytes) /\ toClient' \in Seq(Bytes)
      /\ atClient' \o toClient' = atClient \o toClient
  BY <1>2, <1>3, RecvKeepsBytes
<1>5. toClient # <<>>
  BY <1>2, EmptySeq
<1>6. Answering
  BY <1>5 DEF IInv, OneFrame, Quiet, Asking
<1>7. Answering'
  <2>1. Truthful' = Truthful
    BY <1>1 DEF Truthful
  <2> QED
    BY <1>1, <1>4, <1>6, <2>1 DEF Answering, Frame
<1>8. Types'
  BY <1>1, <1>4 DEF IInv, Types
<1> QED
  BY <1>1, <1>6, <1>7, <1>8 DEF IInv, OneFrame, Answering, AskedSince, TotalIsKnown

LEMMA ConnectIInv ==
  ASSUME IInv, Connect
  PROVE  IInv'
<1>1. /\ UNCHANGED <<pc, attempt, total, since, window, writing, rows, toClient, atServer, atClient>>
      /\ connected' = TRUE /\ pc # "sleep"
  BY DEF Connect, store, history
<1>2. Quiet
  BY DEF Connect, IInv
<1>3. toServer' = Request /\ Request \in Seq(Bytes)
  <2>1. Request \in Seq(Bytes)
    BY RequestBytes DEF IInv
  <2>2. toServer' = <<>> \o Request
    BY <1>2 DEF Connect, Quiet
  <2> QED
    BY <2>1, <2>2, ConcatEmptySeq
<1>4. atServer' \o toServer' = Request
  BY <1>1, <1>2, <1>3, ConcatEmptySeq DEF Quiet
<1>5. Asking'
  BY <1>1, <1>2, <1>4 DEF Asking, Quiet, Request, Frame
<1>6. Types'
  BY <1>1, <1>3 DEF IInv, Types
<1> QED
  BY <1>1, <1>5, <1>6 DEF IInv, OneFrame, AskedSince, TotalIsKnown

LEMMA WakeIInv ==
  ASSUME IInv, Wake
  PROVE  IInv'
<1>1. /\ Begin("stats", 1) /\ pc' = "stats"
      /\ UNCHANGED <<writing, rows, total>>
      /\ since' = rows /\ window' = writing
  BY DEF Wake, Begin, store
<1>2. total' \in Nat /\ since' \in Nat /\ window' \in BOOLEAN
  BY <1>1 DEF IInv, Types
<1>3. AskedSince' /\ TotalIsKnown'
  BY <1>1 DEF IInv, Types, AskedSince, TotalIsKnown
<1> QED
  BY <1>1, <1>2, <1>3, BeginIInv DEF Kinds

LEMMA AnsweredIInv ==
  ASSUME IInv, Answered
  PROVE  IInv'
<1>1. UNCHANGED <<writing, rows>>
  BY DEF Answered, store
<1>2. CASE pc = "stats"
  <2>1. /\ Begin("sum", 1) /\ pc' = "sum"
        /\ total' = RowsIn(atClient[1].says)
        /\ UNCHANGED <<since, window>>
    BY <1>2 DEF Answered, Begin
  <2>2. atClient[1].says \in Truthful
    BY CompleteIsOwn DEF Answered
  <2>3. total' \in Nat /\ ((total' \in since .. rows) \/ (total' = 0 /\ window))
    BY <1>2, <2>1, <2>2 DEF Truthful, Answers, RowsIn
  <2>4. AskedSince' /\ TotalIsKnown'
    BY <1>1, <2>1, <2>3 DEF AskedSince, TotalIsKnown
  <2> QED
    BY <1>1, <2>1, <2>3, <2>4, BeginIInv DEF IInv, Types, Kinds
<1>3. CASE pc # "stats"
  <2>1. /\ Begin("sleep", 0) /\ pc' = "sleep"
        /\ total' = 0 /\ since' = 0 /\ window' = FALSE
    BY <1>3 DEF Answered, Sample, Begin
  <2>2. AskedSince' /\ TotalIsKnown'
    BY <2>1 DEF AskedSince, TotalIsKnown
  <2> QED
    BY <1>1, <2>1, <2>2, BeginIInv DEF Kinds
<1> QED
  BY <1>2, <1>3

LEMMA StepIInv == IInv /\ [Next]_vars => IInv'
<1> SUFFICES ASSUME IInv, [Next]_vars PROVE IInv'
  OBVIOUS
<1>1. CASE BeginFlush \/ EndFlush
  BY <1>1, StoreIInv
<1>2. CASE GoDown
  BY <1>2, GoDownIInv
<1>3. ASSUME UNCHANGED <<pc, attempt, connected, total, since, window, writing, rows, streams>>
      PROVE  IInv'
  <2>1. /\ writing' \in BOOLEAN /\ rows' \in Nat /\ rows <= rows'
        /\ window' \in BOOLEAN /\ (pc = "stats" /\ writing' => window')
    BY <1>3 DEF IInv, Types, AskedSince
  <2> QED
    BY <1>3, <2>1, BesideIInv
<1>4. CASE GoSilent \/ ComeUp \/ Tick \/ UNCHANGED vars
  BY <1>3, <1>4 DEF GoSilent, ComeUp, Tick, vars, store, request, history
<1>5. CASE Server
  BY <1>5, ServerRecvIInv, ServerReplyIInv DEF Server
<1>6. CASE Wake \/ Connect \/ ClientRecv \/ Answered
  BY <1>6, WakeIInv, ConnectIInv, ClientRecvIInv, AnsweredIInv
<1>7. CASE Refused \/ Reset \/ TimeOut
  BY <1>7, FailIInv DEF Refused, Reset, TimeOut
<1> QED
  BY <1>1, <1>2, <1>4, <1>5, <1>6, <1>7 DEF Next, Sampler

-----------------------------------------------------------------------------
LEMMA Invariance == Spec => []IInv
  BY InitIInv, StepIInv, PTL DEF Spec

\* However frames are cut, delayed and broken off, what recv_frame returns to the
\* sampler is the whole answer to the request of this very attempt.
THEOREM OwnAnswers == Spec => []AnswersAreOwn
<1>1. IInv => AnswersAreOwn
  BY CompleteIsOwn DEF AnswersAreOwn
<1> QED
  BY <1>1, Invariance, PTL

\* The number of rows in a sample is one the store had since it was asked for, if no
\* flush was under way meanwhile: no retry, late answer or outage makes it older, and
\* none makes it up.
THEOREM TrueSamples == Spec => []SamplesAreTrue
<1>1. IInv => SamplesAreTrue
  BY DEF IInv, TotalIsKnown, SamplesAreTrue
<1> QED
  BY <1>1, Invariance, PTL
===============================================================================
