---------------------------- MODULE ClientsProofs ----------------------------
(***************************************************************************)
(* Proofs about the clients of streams: StrCli for every size of input,    *)
(* buffers and windows, and the smaller programs of MCClients for every    *)
(* number of lines, requests and clients.                                  *)
(***************************************************************************)
EXTENDS MCClients, SequenceTheorems, TLAPS

-----------------------------------------------------------------------------
(* StrCli.                                                                 *)
(*                                                                         *)
(* That client and server are never stuck rests on the number of bytes     *)
(* under way, taken - cliRead.  Before the client takes more input it has  *)
(* read either a full buffer, and then the number does not grow, or all    *)
(* that had arrived, and then what is under way is behind the receive      *)
(* buffer, where there is room for UpBuf + SBUF + SndBuf bytes.  Stuck     *)
(* processes have more bytes than that between them once the receive       *)
(* buffer is large enough.                                                 *)

\* Bytes that fit between the client's write() and its receive buffer.
Beyond == UpBuf + SBUF + SndBuf

\* The client's buffer: empty but for the write().
ClientHolds ==
  /\ Running /\ pc # "writeSock" => up = taken
  /\ pc = "writeSock" => up < taken
  /\ pc = "readSock" => arrived > cliRead \/ ended # "no"

\* The server's buffer and the connection's.
BuffersFit ==
  /\ server = "read" => srvWritten = srvRead
  /\ server = "write" => srvWritten < srvRead /\ srvRead - srvWritten <= SBUF
  /\ server # "closed" => up - srvRead <= UpBuf /\ ended = "no"
  /\ srvWritten - arrived <= SndBuf

\* The bytes under way.
UnderWay ==
  server # "closed" /\ Running =>
    /\ taken - cliRead <= Beyond + BUF
    /\ pc = "readIn" => taken - cliRead <= Beyond

IInv == TypeOK /\ ClientHolds /\ BuffersFit /\ UnderWay

\* In which order the streams end, if the server is left alive.
EndsInOrder ==
  /\ fin <=> stdineof = 1
  /\ fin => eof /\ taken = typed /\ up = taken /\ pc # "writeSock"
  /\ ~died =>
       /\ server = "closed" => fin /\ srvRead = up /\ srvWritten = srvRead
       /\ ended # "no" => ended = "fin" /\ server = "closed" /\ arrived = srvWritten
       /\ pc = "returned" => fin /\ ended = "fin" /\ cliRead = arrived
       /\ pc \notin {"exit1", "killed"}
  /\ StdinWritable => shown = cliRead

-----------------------------------------------------------------------------
LEMMA InitHolds ==
  ASSUME Init
  PROVE  IInv /\ EndsInOrder
<1>1. /\ pc = "select" /\ rset = {} /\ stdineof = 0 /\ server = "read"
      /\ ~fin /\ ~died /\ ended = "no"
      /\ typed = 0 /\ taken = 0 /\ up = 0 /\ srvRead = 0 /\ srvWritten = 0
      /\ arrived = 0 /\ cliRead = 0 /\ shown = 0
  BY DEF Init
<1>2. eof \in BOOLEAN /\ fin \in BOOLEAN /\ died \in BOOLEAN
  BY DEF Init
<1>3. TypeOK
  <2>1. /\ typed \in 0 .. Input /\ taken \in 0 .. typed /\ up \in 0 .. taken
        /\ srvRead \in 0 .. up /\ srvWritten \in 0 .. srvRead
        /\ arrived \in 0 .. srvWritten
        /\ cliRead \in 0 .. arrived /\ shown \in 0 .. cliRead
    BY <1>1, CliAssumption
  <2>2. /\ rset \in SUBSET {"sock", "in"} /\ stdineof \in {0, 1}
    BY <1>1
  <2>. QED  BY <1>1, <1>2, <2>1, <2>2 DEF TypeOK
<1>4. ClientHolds /\ BuffersFit /\ UnderWay
  BY <1>1, CliAssumption DEF ClientHolds, BuffersFit, UnderWay, Beyond, Running
<1>5. EndsInOrder
  BY <1>1 DEF EndsInOrder
<1>. QED  BY <1>3, <1>4, <1>5 DEF IInv

\* A step of the client leaves the server's variables alone.
LEMMA ClientKeeps ==
  ASSUME IInv, ClientStep
  PROVE  IInv'
<1>. USE CliAssumption DEF inputVars, serverVars, netVars
<1>. USE DEF IInv, TypeOK, ClientHolds, BuffersFit, UnderWay, Beyond, Running
<1>1. CASE Select
  <2>1. /\ pc = "select" /\ pc' \in {"readSock", "readIn"}
        /\ rset' \in SUBSET {"sock", "in"}
        /\ UNCHANGED <<typed, eof, server, srvRead, srvWritten, died, arrived,
                       ended, stdineof, taken, up, fin, cliRead, shown>>
    BY <1>1 DEF Select, Watched
  <2>2. pc' = "readSock" <=> arrived > cliRead \/ ended # "no"
    BY <1>1 DEF Select, Watched, Ready, SockReady
  <2>. QED  BY <2>1, <2>2
<1>2. CASE ReadSock
  BY <1>2 DEF ReadSock, SockDone, Smaller
<1>3. CASE ReadSockEnd
  BY <1>3 DEF ReadSockEnd
<1>4. CASE ReadSockFails
  BY <1>4 DEF ReadSockFails, SockDone
<1>5. CASE ReadIn
  BY <1>5 DEF ReadIn, Smaller
<1>6. CASE ReadInEnd
  BY <1>6 DEF ReadInEnd
<1>7. CASE WriteSock
  BY <1>7 DEF WriteSock, UpRoom, Smaller
<1>8. CASE WriteSockFails
  BY <1>8 DEF WriteSockFails
<1>. QED
  BY <1>1, <1>2, <1>3, <1>4, <1>5, <1>6, <1>7, <1>8 DEF ClientStep

\* Steps of the server, the network and the user leave the client's alone.
LEMMA OthersKeep ==
  ASSUME IInv, ServerStep \/ NetStep \/ Types \/ EndsInput \/ Die
  PROVE  IInv'
<1>. USE CliAssumption DEF clientVars, inputVars, serverVars, netVars
<1>. USE DEF IInv, TypeOK, ClientHolds, BuffersFit, UnderWay, Beyond, Running
<1>1. CASE SrvRead
  BY <1>1 DEF SrvRead, Smaller
<1>2. CASE SrvEnd
  BY <1>2 DEF SrvEnd
<1>3. CASE SrvWrite
  BY <1>3 DEF SrvWrite, DownRoom, Smaller
<1>4. CASE Arrive
  BY <1>4 DEF Arrive
<1>5. CASE FinArrives \/ ResetArrives
  BY <1>5 DEF FinArrives, ResetArrives
<1>6. CASE Types
  BY <1>6 DEF Types
<1>7. CASE EndsInput
  BY <1>7 DEF EndsInput
<1>8. CASE Die
  BY <1>8 DEF Die
<1>. QED
  BY <1>1, <1>2, <1>3, <1>4, <1>5, <1>6, <1>7, <1>8 DEF ServerStep, NetStep

LEMMA StutterKeeps ==
  ASSUME IInv, UNCHANGED vars
  PROVE  IInv'
BY DEF vars, clientVars, inputVars, serverVars, netVars,
       IInv, TypeOK, ClientHolds, BuffersFit, UnderWay, Beyond, Running

-----------------------------------------------------------------------------
LEMMA EndsClient ==
  ASSUME IInv, EndsInOrder, ClientStep
  PROVE  EndsInOrder'
<1>. USE CliAssumption DEF inputVars, serverVars, netVars
<1>. USE DEF IInv, TypeOK, ClientHolds, BuffersFit, Running, EndsInOrder
<1>1. CASE Select
  <2>1. /\ pc = "select" /\ pc' \in {"readSock", "readIn"}
        /\ UNCHANGED <<typed, eof, server, srvRead, srvWritten, died, arrived,
                       ended, stdineof, taken, up, fin, cliRead, shown>>
    BY <1>1 DEF Select
  <2>. QED  BY <2>1
<1>2. CASE ReadSock
  BY <1>2 DEF ReadSock, SockDone, Smaller
<1>3. CASE ReadSockEnd
  BY <1>3 DEF ReadSockEnd
<1>4. CASE ReadSockFails
  BY <1>4 DEF ReadSockFails, SockDone
<1>5. CASE ReadIn
  BY <1>5 DEF ReadIn, Smaller
<1>6. CASE ReadInEnd
  BY <1>6 DEF ReadInEnd
<1>7. CASE WriteSock
  BY <1>7 DEF WriteSock, UpRoom, Smaller
<1>8. CASE WriteSockFails
  BY <1>8 DEF WriteSockFails
<1>. QED
  BY <1>1, <1>2, <1>3, <1>4, <1>5, <1>6, <1>7, <1>8 DEF ClientStep

LEMMA EndsOthers ==
  ASSUME IInv, EndsInOrder, ServerStep \/ NetStep \/ Types \/ EndsInput \/ Die
  PROVE  EndsInOrder'
<1>. USE CliAssumption DEF clientVars, inputVars, serverVars, netVars
<1>. USE DEF IInv, TypeOK, BuffersFit, Running, EndsInOrder
<1>1. CASE SrvRead
  BY <1>1 DEF SrvRead, Smaller
<1>2. CASE SrvEnd
  BY <1>2 DEF SrvEnd
<1>3. CASE SrvWrite
  BY <1>3 DEF SrvWrite, DownRoom, Smaller
<1>4. CASE Arrive
  BY <1>4 DEF Arrive
<1>5. CASE FinArrives \/ ResetArrives
  BY <1>5 DEF FinArrives, ResetArrives
<1>6. CASE Types
  BY <1>6 DEF Types
<1>7. CASE EndsInput
  BY <1>7 DEF EndsInput
<1>8. CASE Die
  BY <1>8 DEF Die
<1>. QED
  BY <1>1, <1>2, <1>3, <1>4, <1>5, <1>6, <1>7, <1>8 DEF ServerStep, NetStep

LEMMA EndsStutter ==
  ASSUME EndsInOrder, UNCHANGED vars
  PROVE  EndsInOrder'
BY DEF vars, clientVars, inputVars, serverVars, netVars, EndsInOrder

THEOREM Invariance == Spec => []IInv
<1>1. IInv /\ [Next]_vars => IInv'
  BY ClientKeeps, OthersKeep, StutterKeeps DEF Next
<1>. QED  BY <1>1, InitHolds, PTL DEF Spec

\* The type invariant, which says that no byte passes a point before it has
\* passed the one before.
THEOREM TypeCorrect == Spec => []TypeOK
<1>1. IInv => TypeOK
  BY DEF IInv
<1>. QED  BY <1>1, Invariance, PTL

\* With a receive buffer of BUF + SBUF - 1 bytes (2047 in the code, far below
\* what a kernel allots) the two blocking write() calls never wait for each
\* other, whatever the sizes of the other buffers.
THEOREM StuckSafety ==
  RcvBuf >= BUF + SBUF - 1 => (Spec => []NeverStuck)
<1>. SUFFICES ASSUME RcvBuf >= BUF + SBUF - 1 PROVE Spec => []NeverStuck
  OBVIOUS
<1>1. IInv => NeverStuck
  <2>. SUFFICES ASSUME IInv, pc = "writeSock", UpRoom = 0,
                       server = "write", DownRoom = 0, arrived - cliRead = RcvBuf
                PROVE  FALSE
    BY DEF NeverStuck
  <2>. QED
    BY CliAssumption
       DEF IInv, TypeOK, ClientHolds, BuffersFit, UnderWay, Beyond, Running,
           UpRoom, DownRoom
<1>. QED  BY <1>1, Invariance, PTL

\* Nothing is lost at the end of the input: a client whose output can be
\* written to returns only with every echo put out, unless the server died.
THEOREM ShownSafety == StdinWritable => (Spec => []AllShown)
<1>. SUFFICES ASSUME StdinWritable PROVE Spec => []AllShown
  OBVIOUS
<1>1. IInv /\ EndsInOrder /\ [Next]_vars => EndsInOrder'
  BY EndsClient, EndsOthers, EndsStutter DEF Next
<1>2. IInv /\ EndsInOrder => AllShown
  <2>. SUFFICES ASSUME IInv, EndsInOrder, ~died PROVE AllShown
    BY DEF AllShown
  <2>1. pc \notin {"exit1", "killed"}
    BY DEF EndsInOrder
  <2>2. ASSUME pc = "returned" PROVE eof /\ shown = typed
    BY <2>2 DEF EndsInOrder
  <2>. QED  BY <2>1, <2>2 DEF AllShown
<1>. QED  BY <1>1, <1>2, Invariance, InitHolds, PTL DEF Spec

-----------------------------------------------------------------------------
(* The smaller programs have an inductive invariant each.                  *)

\* The child leaves its loop only after the server did, and the server only
\* after the half-close.
ForkCliInv ==
  /\ TwoProcess!TypesOK /\ TwoProcess!KillsLate /\ TwoProcess!StrangerSpared
  /\ writer \in {"fork", "fgets", "shutdown", "pause", "SIGTERM", "SIGPIPE"}
  /\ writer = "fork" => reader = "none"
  /\ half => writer \in {"pause", "SIGTERM"}
  /\ peer = "ended" => half

\* Who holds a connection: the parent from accept() to close(), the child from
\* fork() to its end.  So the connection is dead only after a child that
\* counted, or after a failure.
Attended(c) ==
  /\ "parent" \in holders[c] <=> parentDo \in {"fork", "close"} /\ caller = c
  /\ "child" \in holders[c] <=> childAt[c] \in {"exec", "wc"}
  /\ link[c] # "accepted" => holders[c] = {} /\ childAt[c] = "none" /\ c \notin refusedTo
  /\ link[c] = "none" <=> callerAt[c] \in {"connect", "astray"}
  /\ link[c] = "accepted" /\ childAt[c] = "none" /\ c \notin refusedTo =>
       parentDo = "fork" /\ caller = c
  /\ childAt[c] \in {"zombie", "reaped"} /\ c \notin refusedTo =>
       counted[c] = written[c] /\ callerAt[c] \in {"shut", "normal"}

CountInv ==
  /\ Count!TypesOK /\ Count!NormalMeansCounted
  /\ \A c \in Callers : Attended(c)
  /\ parentDo = "fork" => childAt[caller] = "none" /\ caller \notin refusedTo
  /\ parentDo \in {"fork", "close"} => link[caller] = "accepted"

\* What select() reported stays so, and the end of the stream comes after the
\* half-close and the last echo, unless the server was killed.
StdioInv ==
  /\ Stdio!TypesOK /\ Stdio!EndsComplete
  /\ version = 2 => eofFlag = 0 /\ ~shutDown /\ cliAt # "returned"
  /\ version = 3 => sent = fetched /\ cliAt # "exit0"
  /\ shutDown => closed /\ sent = fed
  /\ echoer = "ended" => shutDown /\ returned = sent
  /\ stream # "open" => echoer # "up"
  /\ stream \in {"reset", "broken"} => echoer = "killed"
  /\ version = 3 /\ StdinWritable => put = back
  /\ cliAt = "input" => "input" \in ready
  /\ cliAt \in {"socket", "input"} /\ "input" \in ready => fed > fetched \/ closed
  /\ cliAt = "returned" => echoer = "killed" \/ (shutDown /\ back = sent)

\* What a message may hold: halves of requests, and of the structs that hold
\* them; a half that was not read yet is empty.
Request == (1 .. Requests) \X {1, 2}
Struct == {struct \in Seq({<< >>} \cup Request) : Len(struct) = 2}
Piece == ((1 .. Requests) \cup Struct) \X {1, 2}

SumTypes ==
  /\ pair \in {"sum", "echo"}
  /\ askAt \in {"fgets", "read", "readAtEof", "returned", "closed", "SIGPIPE", "SIGINT"}
  /\ asks \in 0 .. Requests
  /\ requests \in Seq(Request) /\ replies \in Seq(Piece)
  /\ args \in Struct
  /\ result \in Seq({<< >>} \cup Piece) /\ Len(result) = 2
  /\ sums \in Seq(Seq({<< >>} \cup Piece))
  /\ serveAt \in {"serves", "ended", "spins", "killed"}
  /\ cut \in BOOLEAN

Reply == IF pair = "sum" THEN Sum!Halves(Sum!Halves(asks)) ELSE Sum!Halves(asks)

\* Until a read() returns a part, one message at a time is under way, and it
\* is that of the request the client waits for.
OneUnderWay ==
  /\ askAt = "read" =>
       /\ asks > 0 /\ Len(sums) = asks - 1
       /\ \/ requests = Sum!Halves(asks) /\ replies = << >>
          \/ requests = << >> /\ replies = Reply
  /\ askAt \in {"fgets", "readAtEof", "returned"} =>
       requests = << >> /\ replies = << >> /\ Len(sums) = asks

SumInv == SumTypes /\ Sum!AnswersRight /\ (~cut => OneUnderWay)

\* How many halves the client of src/05 has shown.
Shown == 2 * asks - Len(requests) - Len(replies)

\* Requests, replies and what was shown are one stream, cut in three, unless
\* the client has shown an error of read(): nothing comes after that.
LastShown ==
  IF sums = << >> THEN Shown = 0
  ELSE \/ serveAt = "killed" /\ replies = << >>
       \/ /\ sums[Len(sums)] # << >>
          /\ Sum!Place(sums[Len(sums)][Len(sums[Len(sums)])]) = Shown

OneStream ==
  /\ requests \in Seq(Request) /\ replies \in Seq(Request) /\ sums \in Seq(Seq(Request))
  /\ \A i \in 1 .. Len(requests) : Sum!Place(requests[i]) = 2 * asks - Len(requests) + i
  /\ \A i \in 1 .. Len(replies) : Sum!Place(replies[i]) = Shown + i
  /\ LastShown

LinesInv == pair = "echo" => OneStream /\ Sum!LinesInOrder

Fields == {Time!Text[j] : j \in 1 .. 5}

\* A piece shows at most one field, and the first piece shows the first.
DaytimeInv ==
  /\ Time!TypesOK /\ Time!OneFieldAPiece
  /\ display \in [Watchers -> Seq(Fields)]
  /\ \A w \in Watchers :
       /\ pieces[w] <= got[w]
       /\ IF got[w] = 0 THEN display[w] = << >> ELSE display[w] # << >>

-----------------------------------------------------------------------------
(* The two-process client.                                                 *)

LEMMA InitForkCli == TwoProcess!Init => ForkCliInv
<1>. SUFFICES ASSUME TwoProcess!Init PROVE ForkCliInv
  OBVIOUS
<1>1. half \in BOOLEAN /\ reset \in BOOLEAN /\ stranger \in BOOLEAN /\ ~half /\ ~stranger
  BY Zenon DEF TwoProcess!Init
<1>. QED
  BY <1>1, ClientsAssumption
     DEF TwoProcess!Init, ForkCliInv, TwoProcess!TypesOK, TwoProcess!KillsLate,
         TwoProcess!StrangerSpared

LEMMA NextForkCli == ForkCliInv /\ [TwoProcess!Next]_forkCliVars => ForkCliInv'
<1>. SUFFICES ASSUME ForkCliInv, [TwoProcess!Next]_forkCliVars PROVE ForkCliInv'
  OBVIOUS
<1>. USE ClientsAssumption DEF ForkCliInv, TwoProcess!TypesOK, TwoProcess!KillsLate,
         TwoProcess!StrangerSpared, TwoProcess!socketVars
<1>1. CASE TwoProcess!Forks
  BY <1>1 DEF TwoProcess!Forks
<1>2. CASE TwoProcess!Writes
  <2>1. reset' \in BOOLEAN
    <3>1. reset' = reset \/ reset' \in {FALSE, peer # "up"}
      BY <1>2, Zenon DEF TwoProcess!Writes
    <3>2. CASE reset' = reset
      BY <3>2, Zenon
    <3>3. CASE reset' \in {FALSE, peer # "up"}
      BY <3>3, Zenon
    <3>. QED  BY <3>1, <3>2, <3>3, Zenon
  <2>2. /\ writer = "fgets" /\ lines < Said
        /\ \/ writer' = "SIGPIPE" /\ lines' = lines
           \/ writer' = writer /\ lines' = lines + 1
        /\ UNCHANGED <<reader, half, echoed, peer, stranger>>
    BY <1>2, Zenon DEF TwoProcess!Writes
  <2>. QED  BY <2>1, <2>2
<1>3. CASE TwoProcess!InputEnds
  BY <1>3 DEF TwoProcess!InputEnds
<1>4. CASE TwoProcess!ShutsDown
  <2>1. half' \in BOOLEAN /\ half'
    BY <1>4, Zenon DEF TwoProcess!ShutsDown
  <2>. QED  BY <1>4, <2>1 DEF TwoProcess!ShutsDown
<1>5. CASE TwoProcess!Echoes
  BY <1>5 DEF TwoProcess!Echoes
<1>6. CASE TwoProcess!ReadEnds
  BY <1>6 DEF TwoProcess!ReadEnds
<1>7. CASE TwoProcess!Kills
  <2>1. stranger' \in BOOLEAN
    BY <1>7, Zenon DEF TwoProcess!Kills
  <2>. QED  BY <1>7, <2>1 DEF TwoProcess!Kills
<1>8. CASE TwoProcess!PeerEnds \/ TwoProcess!PeerKilled
  BY <1>8 DEF TwoProcess!PeerEnds, TwoProcess!PeerKilled
<1>9. CASE UNCHANGED forkCliVars
  BY <1>9 DEF forkCliVars
<1>. QED
  BY <1>1, <1>2, <1>3, <1>4, <1>5, <1>6, <1>7, <1>8, <1>9 DEF TwoProcess!Next, TwoProcess!Step

-----------------------------------------------------------------------------
(* The older line clients.                                                 *)

LEMMA InitStdio == Stdio!Init => StdioInv
<1>. SUFFICES ASSUME Stdio!Init PROVE StdioInv
  OBVIOUS
<1>1. closed \in BOOLEAN /\ shutDown \in BOOLEAN /\ ~closed /\ ~shutDown
  BY Zenon DEF Stdio!Init
<1>. QED
  BY <1>1, ClientsAssumption DEF Stdio!Init, StdioInv, Stdio!TypesOK, Stdio!EndsComplete

\* Lines are written, or lost with the server that was killed.
LEMMA WriteSteps ==
  ASSUME StdioInv, cliAt = "input", NEW n \in sent + 1 .. fed, Stdio!Write(n),
         fetched' \in n .. fed, version = 3 => fetched' = n,
         UNCHANGED <<Stdio!feedVars, Stdio!peerVars, Stdio!outputVars, ready, eofFlag, shutDown>>
  PROVE  StdioInv'
<1>. USE ClientsAssumption DEF StdioInv, Stdio!TypesOK, Stdio!EndsComplete, Stdio!feedVars,
         Stdio!peerVars, Stdio!outputVars
<1>1. /\ sent' = n
      /\ cliAt' = "select" \/ (cliAt' = "SIGPIPE" /\ stream \in {"reset", "broken"})
      /\ stream' = stream \/ (stream = "reset" /\ stream' = "broken")
  BY DEF Stdio!Write
<1>2. ~shutDown
  OBVIOUS
<1>3. sent' \in Nat /\ sent < sent' /\ sent' <= fetched' /\ fetched' <= fed
  BY <1>1
<1>. QED  BY <1>1, <1>2, <1>3

LEMMA NextStdio == StdioInv /\ [Stdio!Next]_stdioVars => StdioInv'
<1>. SUFFICES ASSUME StdioInv, [Stdio!Next]_stdioVars PROVE StdioInv'
  OBVIOUS
<1>. USE ClientsAssumption DEF StdioInv, Stdio!TypesOK, Stdio!EndsComplete, Stdio!feedVars,
         Stdio!peerVars, Stdio!inputVars, Stdio!outputVars
<1>1. CASE Stdio!Selects
  <2>1. PICK R : /\ R \subseteq {"socket", "input"} /\ R # {} /\ ready' = R
                 /\ "input" \in R => fed > fetched \/ closed
                 /\ cliAt' = IF "socket" \in R THEN "socket" ELSE "input"
    BY <1>1 DEF Stdio!Selects, Stdio!Ready
  <2>. QED  BY <1>1, <2>1 DEF Stdio!Selects
<1>2. CASE Stdio!PutsOut
  BY <1>2 DEF Stdio!PutsOut, Stdio!ReadsEchoes
<1>3. CASE Stdio!WritesOut
  BY <1>3 DEF Stdio!WritesOut, Stdio!ReadsEchoes
<1>4. CASE Stdio!ServerGone \/ Stdio!Terminates
  <2>1. /\ cliAt = "socket" /\ back = returned /\ stream \in {"fin", "broken"}
        /\ cliAt' \in {"exit1", "returned"} /\ (cliAt' = "returned" => version = 3)
        /\ UNCHANGED <<version, fed, closed, returned, echoer, eofFlag, fetched, sent, shutDown,
                       back, put, ready, stream>>
    BY <1>4, Zenon DEF Stdio!ServerGone, Stdio!Terminates, Stdio!ReadReturns0
  <2>2. /\ echoer = "killed" \/ (echoer = "ended" /\ shutDown /\ returned = sent)
    BY <2>1
  <2>. QED  BY <2>1, <2>2
<1>5. CASE Stdio!ReadFails
  BY <1>5 DEF Stdio!ReadFails
<1>6. CASE Stdio!Fgets
  <2>1. CASE (IF fetched > sent THEN fetched ELSE fed) > sent
    BY <1>6, <2>1, WriteSteps DEF Stdio!Fgets
  <2>2. CASE ~((IF fetched > sent THEN fetched ELSE fed) > sent)
    BY <1>6, <2>2 DEF Stdio!Fgets
  <2>. QED  BY <2>1, <2>2
<1>7. CASE Stdio!ReadsInput
  <2>1. CASE fed > fetched
    BY <1>7, <2>1, WriteSteps DEF Stdio!ReadsInput
  <2>2. CASE ~(fed > fetched)
    <3>1. shutDown' \in BOOLEAN /\ shutDown'
      BY <1>7, <2>2, Zenon DEF Stdio!ReadsInput
    <3>. QED  BY <1>7, <2>2, <3>1 DEF Stdio!ReadsInput
  <2>. QED  BY <2>1, <2>2
<1>8. CASE Stdio!Feeds
  BY <1>8 DEF Stdio!Feeds
<1>9. CASE Stdio!EndsInput
  <2>1. closed' \in BOOLEAN /\ closed'
    BY <1>9, Zenon DEF Stdio!EndsInput
  <2>. QED  BY <1>9, <2>1 DEF Stdio!EndsInput
<1>10. CASE Stdio!Echoes
  BY <1>10 DEF Stdio!Echoes
<1>11. CASE Stdio!EchoerEnds
  BY <1>11 DEF Stdio!EchoerEnds
<1>12. CASE Stdio!FinComes \/ Stdio!ResetComes
  <2>1. /\ \/ stream' = "fin" /\ echoer # "up"
           \/ stream' = "reset" /\ echoer = "killed"
        /\ UNCHANGED <<version, fed, closed, returned, echoer, eofFlag, fetched, sent, shutDown,
                       back, put, ready, cliAt>>
    BY <1>12, Zenon DEF Stdio!FinComes, Stdio!ResetComes
  <2>. QED  BY <2>1
<1>13. CASE UNCHANGED stdioVars
  BY <1>13 DEF stdioVars
<1>. QED
  BY <1>1, <1>2, <1>3, <1>4, <1>5, <1>6, <1>7, <1>8, <1>9, <1>10, <1>11, <1>12, <1>13
     DEF Stdio!Next, Stdio!ClientStep

-----------------------------------------------------------------------------
(* The local-socket server.                                                *)

LEMMA InitCount == Count!Init => CountInv
<1>. SUFFICES ASSUME Count!Init PROVE CountInv
  OBVIOUS
<1>1. sigchld \in BOOLEAN
  BY Zenon DEF Count!Init
<1>. QED
  BY <1>1, ClientsAssumption
     DEF Count!Init, CountInv, Attended, Count!TypesOK, Count!NormalMeansCounted

LEMMA NextCount == CountInv /\ [Count!Next]_countVars => CountInv'
<1>. SUFFICES ASSUME CountInv, [Count!Next]_countVars PROVE CountInv'
  OBVIOUS
<1>. USE ClientsAssumption DEF CountInv, Attended, Count!TypesOK, Count!NormalMeansCounted,
         Count!callerVars, Count!childVars, Count!parentVars
<1>1. ASSUME NEW c \in Callers, Count!Connects(c) PROVE CountInv'
  BY <1>1 DEF Count!Connects, Count!Listening
<1>2. ASSUME NEW c \in Callers, Count!SendsLine(c) PROVE CountInv'
  BY <1>2 DEF Count!SendsLine, Count!Dead
<1>3. ASSUME NEW c \in Callers, Count!InputEnds(c) PROVE CountInv'
  BY <1>3 DEF Count!InputEnds
<1>4. ASSUME NEW c \in Callers, Count!SeesEnd(c) PROVE CountInv'
  BY <1>4 DEF Count!SeesEnd, Count!Dead
<1>5. CASE Count!Listens
  BY <1>5 DEF Count!Listens
<1>6. ASSUME NEW c \in Callers, Count!Accepts(c) PROVE CountInv'
  BY <1>6 DEF Count!Accepts
<1>7. CASE Count!Forks
  BY <1>7 DEF Count!Forks
<1>8. CASE Count!Closes
  BY <1>8 DEF Count!Closes
<1>9. ASSUME NEW c \in Callers, Count!Execs(c) PROVE CountInv'
  <2>1. sigchld' \in BOOLEAN
    BY <1>9, Zenon DEF Count!Execs, Count!Ends
  <2>. QED  BY <1>9, <2>1 DEF Count!Execs, Count!Ends
<1>10. ASSUME NEW c \in Callers, Count!Counts(c) PROVE CountInv'
  <2>1. sigchld' \in BOOLEAN
    BY <1>10, Zenon DEF Count!Counts, Count!Ends
  <2>. QED  BY <1>10, <2>1 DEF Count!Counts, Count!Ends
<1>11. CASE Count!sigchld_handler
  <2>1. sigchld' \in BOOLEAN
    BY <1>11, Zenon DEF Count!sigchld_handler
  <2>. QED  BY <1>11, <2>1 DEF Count!sigchld_handler
<1>12. CASE UNCHANGED countVars
  BY <1>12 DEF countVars
<1>. QED
  BY <1>1, <1>2, <1>3, <1>4, <1>5, <1>6, <1>7, <1>8, <1>9, <1>10, <1>11, <1>12
     DEF Count!Next, Count!Step

-----------------------------------------------------------------------------
(* The daytime client.                                                     *)

LEMMA TextFields ==
  /\ Len(Time!Text) = 5
  /\ \A j \in 1 .. 5 : Time!Text[j] \in Fields
  /\ \A f \in Fields : \E j \in 1 .. 5 : f = Time!Text[j]
  /\ Time!Text[1] # ":" /\ Time!Text[2] = ":" /\ Time!Text[3] # ":"
  /\ Time!Text[4] = ":" /\ Time!Text[5] # ":"
BY DEF Time!Text, Fields

\* The first piece of the text keeps its first field and nothing else; a later
\* one at most one field, because each is followed by a colon or the end.
LEMMA OneField ==
  ASSUME NEW g \in 0 .. 4, NEW n \in g + 1 .. 5
  PROVE  LET seen == Time!UpToColon(SubSeq(Time!Text, g + 1, n))
         IN  /\ seen \in Seq(Fields) /\ Len(seen) <= 1
             /\ g = 0 => Len(seen) = 1 /\ seen[1] = Time!Text[1]
<1>. DEFINE piece == SubSeq(Time!Text, g + 1, n)
            uncut == {k \in 0 .. Len(piece) : \A i \in 1 .. k : piece[i] # ":"}
            longest == CHOOSE k \in uncut : \A m \in uncut : m <= k
<1>1. /\ piece \in Seq(Fields) /\ Len(piece) = n - g
      /\ \A i \in 1 .. n - g : piece[i] = Time!Text[g + i]
  <2>1. \A i \in g + 1 .. n : Time!Text[i] \in Fields
    BY TextFields
  <2>. QED  BY <2>1, SubSeqProperties
<1>. HIDE DEF piece
<1>2. piece[1] = Time!Text[g + 1]
  BY <1>1
<1>3. ASSUME NEW k \in uncut PROVE k \in {0, 1} /\ (k = 1 => Time!Text[g + 1] # ":")
  <2>1. SUFFICES ASSUME k >= 2 PROVE FALSE
    BY <1>1, <1>2
  <2>2. piece[1] # ":" /\ piece[2] # ":"
    BY <2>1
  <2>3. g \in 0 .. 3 /\ piece[2] = Time!Text[g + 2]
    BY <1>1, <2>1
  <2>. QED  BY <1>2, <2>2, <2>3, TextFields
<1>4. 0 \in uncut /\ (Time!Text[g + 1] # ":" => 1 \in uncut)
  BY <1>1, <1>2
<1>5. longest = IF Time!Text[g + 1] = ":" THEN 0 ELSE 1
  <2>. HIDE DEF uncut
  <2>1. \E k \in uncut : \A m \in uncut : m <= k
    BY <1>3, <1>4
  <2>2. longest \in uncut /\ \A m \in uncut : m <= longest
    BY <2>1
  <2>. HIDE DEF longest
  <2>. QED  BY <1>3, <1>4, <2>2
<1>6. Time!UpToColon(piece) = SubSeq(piece, 1, longest)
  BY DEF Time!UpToColon
<1>. HIDE DEF longest
<1>7. /\ SubSeq(piece, 1, longest) \in Seq(Fields)
      /\ Len(SubSeq(piece, 1, longest)) = longest
      /\ longest = 1 => SubSeq(piece, 1, longest)[1] = piece[1]
  <2>1. \A i \in 1 .. longest : piece[i] \in Fields
    BY <1>1, <1>5, TextFields
  <2>. QED  BY <1>5, <2>1, SubSeqProperties
<1>8. /\ Time!UpToColon(piece) \in Seq(Fields) /\ Len(Time!UpToColon(piece)) <= 1
      /\ g = 0 => Len(Time!UpToColon(piece)) = 1 /\ Time!UpToColon(piece)[1] = Time!Text[1]
  BY <1>2, <1>5, <1>6, <1>7, TextFields
<1>. QED  BY <1>8 DEF piece

LEMMA DisplayTyped ==
  ASSUME display \in [Watchers -> Seq(Fields)]
  PROVE  \A w \in Watchers : \A i \in 1 .. Len(display[w]) :
           \E j \in 1 .. Len(Time!Text) : display[w][i] = Time!Text[j]
BY TextFields, ElementOfSeq

LEMMA InitDaytime == Time!Init => DaytimeInv
<1>. SUFFICES ASSUME Time!Init PROVE DaytimeInv
  OBVIOUS
<1>1. display = [w \in Watchers |-> << >>] /\ << >> \in Seq(Fields) /\ Len(<< >>) = 0
  BY EmptySeq DEF Time!Init
<1>2. display \in [Watchers -> Seq(Fields)] /\ \A w \in Watchers : display[w] = << >>
  BY <1>1
<1>3. Time!TypesOK
  BY <1>2, DisplayTyped, ClientsAssumption, TextFields DEF Time!Init, Time!TypesOK
<1>. QED  BY <1>1, <1>2, <1>3 DEF Time!Init, DaytimeInv, Time!OneFieldAPiece

\* The steps of the server and of a client that does not read.
LEMMA QuietSteps ==
  ASSUME DaytimeInv, UNCHANGED <<got, display, pieces>>,
         hostAt' \in {"accept", "write", "close"}, visitor' \in Watchers,
         conn' \in [Watchers -> {"none", "waiting", "open", "written", "closed"}],
         over' \in [Watchers -> {"no", "end", "error"}]
  PROVE  DaytimeInv'
BY DEF DaytimeInv, Time!TypesOK, Time!OneFieldAPiece

LEMMA NextDaytime == DaytimeInv /\ [Time!Next]_daytimeVars => DaytimeInv'
<1>. SUFFICES ASSUME DaytimeInv, [Time!Next]_daytimeVars PROVE DaytimeInv'
  OBVIOUS
<1>1. CASE Time!Writes \/ Time!Closes
  BY <1>1, QuietSteps DEF Time!Writes, Time!Closes, DaytimeInv, Time!TypesOK
<1>2. ASSUME NEW w \in Watchers, Time!Accepts(w) \/ Time!ReadsEnd(w) \/ Time!Connects(w)
      PROVE  DaytimeInv'
  BY <1>2, QuietSteps
     DEF Time!Accepts, Time!ReadsEnd, Time!Connects, DaytimeInv, Time!TypesOK
<1>3. ASSUME NEW w \in Watchers, Time!Reads(w) PROVE DaytimeInv'
  <2>1. PICK n \in got[w] + 1 .. 5 :
          /\ display' = [display EXCEPT ![w] = @ \o Time!UpToColon(SubSeq(Time!Text, got[w] + 1, n))]
          /\ got' = [got EXCEPT ![w] = n]
    BY <1>3, TextFields DEF Time!Reads
  <2>2. got[w] \in 0 .. 4 /\ got \in [Watchers -> 0 .. 5] /\ pieces \in [Watchers -> 0 .. 5]
    BY TextFields, <2>1 DEF DaytimeInv, Time!TypesOK
  <2>3. PICK seen : /\ seen = Time!UpToColon(SubSeq(Time!Text, got[w] + 1, n))
                    /\ seen \in Seq(Fields) /\ Len(seen) <= 1
                    /\ got[w] = 0 => Len(seen) = 1 /\ seen[1] = Time!Text[1]
    <3>1. n \in got[w] + 1 .. 5
      BY <2>1
    <3>2. LET seen == Time!UpToColon(SubSeq(Time!Text, got[w] + 1, n))
          IN  /\ seen \in Seq(Fields) /\ Len(seen) <= 1
              /\ got[w] = 0 => Len(seen) = 1 /\ seen[1] = Time!Text[1]
      BY ONLY <2>2, <3>1, OneField
    <3>. QED  BY <3>2
  <2>4. display[w] \in Seq(Fields) /\ seen \in Seq(Fields)
    BY <2>3 DEF DaytimeInv
  <2>5. Len(display[w]) \in Nat /\ Len(seen) \in Nat
    BY ONLY <2>4, LenProperties
  <2>6. /\ display[w] \o seen \in Seq(Fields)
        /\ Len(display[w] \o seen) = Len(display[w]) + Len(seen)
        /\ \A i \in 1 .. Len(display[w]) + Len(seen) :
             (display[w] \o seen)[i] = IF i <= Len(display[w]) THEN display[w][i]
                                       ELSE seen[i - Len(display[w])]
    BY ONLY <2>4, ConcatProperties
  <2>7. Len(display[w] \o seen) <= pieces[w] + 1 /\ pieces[w] + 1 <= n
    <3>1. Len(display[w]) <= pieces[w] /\ pieces[w] <= got[w] /\ pieces[w] \in Nat
      BY <2>2 DEF DaytimeInv, Time!OneFieldAPiece
    <3>2. Len(display[w] \o seen) <= Len(display[w]) + 1
      <4>1. Len(seen) <= 1
        BY <2>3
      <4>. QED  BY ONLY <2>5, <2>6, <4>1
    <3>3. pieces[w] + 1 <= n
      BY <2>1, <2>2, <3>1
    <3>. QED  BY <2>4, <2>5, <2>6, <3>1, <3>2, <3>3
  <2>8. display[w] \o seen # << >> /\ (display[w] \o seen)[1] = Time!Text[1]
    <3>1. CASE got[w] = 0
      <4>1. Len(display[w]) = 0
        BY <3>1, EmptySeq DEF DaytimeInv
      <4>2. Len(seen) = 1 /\ seen[1] = Time!Text[1]
        BY <2>3, <3>1
      <4>3. (display[w] \o seen)[1] = seen[1] /\ Len(display[w] \o seen) = 1
        BY ONLY <2>6, <4>1, <4>2
      <4>. QED  BY <4>2, <4>3, EmptySeq
    <3>2. CASE got[w] # 0
      <4>1. Len(display[w]) > 0 /\ display[w][1] = Time!Text[1]
        BY <2>2, <2>4, <2>5, <3>2, EmptySeq DEF DaytimeInv, Time!OneFieldAPiece
      <4>. QED  BY <2>5, <2>6, <4>1, EmptySeq
    <3>. QED  BY <3>1, <3>2
  <2>9. /\ display' = [display EXCEPT ![w] = display[w] \o seen]
        /\ pieces' = [pieces EXCEPT ![w] = pieces[w] + 1]
        /\ UNCHANGED <<hostAt, visitor, conn, over>>
    BY <1>3, <2>1, <2>3 DEF Time!Reads
  <2>10. /\ display' \in [Watchers -> Seq(Fields)]
         /\ got' \in [Watchers -> 0 .. 5] /\ pieces' \in [Watchers -> 0 .. 5]
    <3>1. display' \in [Watchers -> Seq(Fields)]
      BY <2>6, <2>9 DEF DaytimeInv
    <3>2. pieces[w] + 1 \in 0 .. 5 /\ n \in 0 .. 5
      BY <2>1, <2>2, <2>7
    <3>. QED  BY <2>1, <2>2, <2>9, <3>1, <3>2
  <2>11. Time!TypesOK'
    <3>1. \A v \in Watchers : \A i \in 1 .. Len(display'[v]) :
            \E j \in 1 .. Len(Time!Text) : display'[v][i] = Time!Text[j]
      BY <2>10, TextFields, ElementOfSeq
    <3>. QED  BY <2>9, <2>10, <3>1, TextFields DEF Time!TypesOK, DaytimeInv
  <2>12. ASSUME NEW v \in Watchers
         PROVE  /\ Len(display'[v]) <= pieces'[v] /\ pieces'[v] <= got'[v]
                /\ got'[v] > 0 => display'[v][1] = Time!Text[1]
                /\ IF got'[v] = 0 THEN display'[v] = << >> ELSE display'[v] # << >>
    <3>1. CASE v = w
      <4>1. display'[v] = display[w] \o seen /\ pieces'[v] = pieces[w] + 1 /\ got'[v] = n
        BY <2>1, <2>2, <2>9, <3>1 DEF DaytimeInv
      <4>2. n \in 1 .. 5
        BY <2>1, <2>2
      <4>. QED  BY <2>7, <2>8, <4>1, <4>2
    <3>2. CASE v # w
      <4>1. display'[v] = display[v] /\ pieces'[v] = pieces[v] /\ got'[v] = got[v]
        BY <2>1, <2>2, <2>9, <3>2 DEF DaytimeInv
      <4>. QED  BY <4>1 DEF DaytimeInv, Time!OneFieldAPiece
    <3>. QED  BY <3>1, <3>2
  <2>. QED  BY <2>10, <2>11, <2>12 DEF DaytimeInv, Time!OneFieldAPiece
<1>4. CASE UNCHANGED daytimeVars
  BY <1>4, QuietSteps DEF daytimeVars, DaytimeInv, Time!TypesOK
<1>. QED  BY <1>1, <1>2, <1>3, <1>4 DEF Time!Next, Time!Step

-----------------------------------------------------------------------------
(* The stop-and-wait clients.                                              *)

LEMMA HalvesOf ==
  ASSUME NEW M, NEW x \in M
  PROVE  /\ Sum!Halves(x) \in Seq(M \X {1, 2}) /\ Len(Sum!Halves(x)) = 2
         /\ Sum!Halves(x) # << >>
BY DEF Sum!Halves

\* A read() of n halves takes them from the stream, and all if there are n.
LEMMA ReadTakes ==
  ASSUME NEW M, NEW s \in Seq(M), s # << >>, NEW n \in Sum!Counts(s)
  PROVE  /\ n \in 1 .. Len(s)
         /\ Sum!Drop(s, n) \in Seq(M) /\ SubSeq(s, 1, n) \in Seq(M)
         /\ n = Len(s) => Sum!Drop(s, n) = << >> /\ SubSeq(s, 1, n) = s
<1>1. Len(s) \in Nat \ {0} /\ \A i \in 1 .. Len(s) : s[i] \in M
  BY EmptySeq, ElementOfSeq
<1>2. n \in 1 .. Len(s)
  BY <1>1 DEF Sum!Counts
<1>3. Sum!Drop(s, n) \in Seq(M) /\ SubSeq(s, 1, n) \in Seq(M)
      /\ Len(SubSeq(s, 1, n)) = n /\ \A i \in 1 .. n : SubSeq(s, 1, n)[i] = s[i]
  <2>1. \A i \in n + 1 .. Len(s) : s[i] \in M
    BY <1>1, <1>2
  <2>2. \A i \in 1 .. n : s[i] \in M
    BY <1>1, <1>2
  <2>3. Sum!Drop(s, n) \in Seq(M)
    BY <1>1, <1>2, <2>1, SubSeqProperties DEF Sum!Drop
  <2>. QED  BY <1>1, <1>2, <2>2, <2>3, SubSeqProperties
<1>4. ASSUME n = Len(s) PROVE Sum!Drop(s, n) = << >> /\ SubSeq(s, 1, n) = s
  BY <1>1, <1>3, <1>4, SubSeqEmpty, SeqEqual DEF Sum!Drop
<1>. QED  BY <1>2, <1>3, <1>4

\* A struct read over is a struct; two halves replace it.
LEMMA OverStruct ==
  ASSUME NEW M, NEW struct \in Seq(M), Len(struct) = 2,
         NEW s \in Seq(M), NEW n \in 1 .. Len(s)
  PROVE  /\ Sum!Over(struct, s, n) \in Seq(M) /\ Len(Sum!Over(struct, s, n)) = 2
         /\ n = 2 /\ Len(s) = 2 => Sum!Over(struct, s, n) = s
<1>1. /\ \A i \in 1 .. Len(s) : s[i] \in M
      /\ \A i \in 1 .. 2 : struct[i] \in M
      /\ Len(s) \in Nat
  BY ElementOfSeq, LenProperties
<1>2. \A i \in 1 .. 2 : (IF i <= n THEN s[i] ELSE struct[i]) \in M
  BY <1>1
<1>3. /\ Sum!Over(struct, s, n) \in Seq(M) /\ Len(Sum!Over(struct, s, n)) = 2
      /\ \A i \in 1 .. 2 : Sum!Over(struct, s, n)[i] = IF i <= n THEN s[i] ELSE struct[i]
  BY <1>2 DEF Sum!Over
<1>4. ASSUME n = 2, Len(s) = 2 PROVE Sum!Over(struct, s, n) = s
  BY <1>3, <1>4, SeqEqual
<1>. QED  BY <1>3, <1>4

LEMMA SumTyped == SumTypes => Sum!TypesOK
<1>. SUFFICES ASSUME SumTypes PROVE Sum!TypesOK
  OBVIOUS
<1>1. \A i \in 1 .. Len(requests) : requests[i] \in Request
  BY ElementOfSeq DEF SumTypes
<1>2. \A i \in 1 .. Len(replies) : replies[i][2] \in {1, 2}
  <2>1. \A i \in 1 .. Len(replies) : replies[i] \in Piece
    BY ElementOfSeq DEF SumTypes
  <2>. QED  BY <2>1 DEF Piece
<1>3. Len(args) = 2
  BY DEF SumTypes, Struct
<1>. QED  BY <1>1, <1>2, <1>3 DEF SumTypes, Sum!TypesOK, Request

LEMMA InitSum == Sum!Init => SumInv
<1>. SUFFICES ASSUME Sum!Init PROVE SumInv
  OBVIOUS
<1>1. cut \in BOOLEAN
  BY Zenon DEF Sum!Init
<1>2. /\ requests \in Seq(Request) /\ replies \in Seq(Piece)
      /\ sums \in Seq(Seq({<< >>} \cup Piece)) /\ Len(sums) = 0
  BY EmptySeq DEF Sum!Init
<1>3. args \in Struct /\ result \in Seq({<< >>} \cup Piece) /\ Len(result) = 2
  BY DEF Sum!Init, Sum!Unset, Struct
<1>4. SumTypes
  BY <1>1, <1>2, <1>3, ClientsAssumption DEF Sum!Init, SumTypes
<1>. QED  BY <1>2, <1>4 DEF Sum!Init, SumInv, OneUnderWay, Sum!AnswersRight

LEMMA AsksKeeps ==
  ASSUME SumInv, Sum!Asks
  PROVE  SumInv'
<1>1. CASE UNCHANGED <<asks, requests>> /\ askAt' = "SIGPIPE"
  BY <1>1 DEF Sum!Asks, SumInv, SumTypes, OneUnderWay, Reply, Sum!AnswersRight
<1>2. CASE askAt' = "read" /\ asks' = asks + 1 /\ requests' = requests \o Sum!Halves(asks + 1)
  <2>1. asks + 1 \in 1 .. Requests /\ asks \in Nat
    BY ClientsAssumption DEF Sum!Asks, SumInv, SumTypes
  <2>2. requests \in Seq(Request) /\ Sum!Halves(asks + 1) \in Seq(Request)
    BY <2>1, HalvesOf DEF SumInv, SumTypes, Request
  <2>3. requests' \in Seq(Request) /\ (requests = << >> => requests' = Sum!Halves(asks'))
    BY ONLY <1>2, <2>2, ConcatProperties, ConcatEmptySeq
  <2>4. SumTypes'
    BY <1>2, <2>1, <2>3 DEF Sum!Asks, SumInv, SumTypes
  <2>5. ~cut' => OneUnderWay'
    BY <1>2, <2>1, <2>3 DEF Sum!Asks, SumInv, OneUnderWay
  <2>. QED  BY <2>4, <2>5 DEF Sum!Asks, SumInv, Sum!AnswersRight
<1>. QED  BY <1>1, <1>2 DEF Sum!Asks

\* An answer is right if it comes whole.
LEMMA ReadsKeeps ==
  ASSUME SumInv, Sum!Reads
  PROVE  SumInv'
<1>. DEFINE A == {<< >>} \cup Piece
<1>1. PICK n \in Sum!Counts(replies) :
        /\ replies' = Sum!Drop(replies, n)
        /\ result' = IF pair = "sum" THEN Sum!Over(result, replies, n) ELSE result
        /\ sums' = Append(sums, IF pair = "sum" THEN result' ELSE SubSeq(replies, 1, n))
        /\ cut' = (cut \/ n < 2)
  BY DEF Sum!Reads
<1>2. PICK took : took = IF pair = "sum" THEN result' ELSE SubSeq(replies, 1, n)
  OBVIOUS
<1>3. /\ replies \in Seq(Piece) /\ replies # << >> /\ result \in Seq(A) /\ Len(result) = 2
      /\ sums \in Seq(Seq(A))
  BY DEF Sum!Reads, SumInv, SumTypes
<1>4. /\ n \in 1 .. Len(replies)
      /\ replies' \in Seq(Piece) /\ SubSeq(replies, 1, n) \in Seq(Piece)
      /\ n = Len(replies) => replies' = << >> /\ SubSeq(replies, 1, n) = replies
  BY ONLY <1>1, <1>3, ReadTakes
<1>5. replies \in Seq(A) /\ SubSeq(replies, 1, n) \in Seq(A)
  BY <1>3, <1>4
<1>6. /\ result' \in Seq(A) /\ Len(result') = 2
      /\ pair = "sum" /\ n = 2 /\ Len(replies) = 2 => result' = replies
  BY <1>1, <1>3, <1>4, <1>5, OverStruct
<1>7. took \in Seq(A) /\ sums' = Append(sums, took)
  BY <1>1, <1>2, <1>5, <1>6
<1>8. /\ sums' \in Seq(Seq(A)) /\ Len(sums) \in Nat /\ Len(sums') = Len(sums) + 1
      /\ \A k \in 1 .. Len(sums) : sums'[k] = sums[k]
      /\ sums'[Len(sums) + 1] = took
  BY ONLY <1>3, <1>7, AppendProperties, LenProperties
<1>9. cut' \in BOOLEAN /\ (~cut' => ~cut /\ n >= 2)
  <2>1. cut \in BOOLEAN
    BY DEF SumInv, SumTypes
  <2>2. cut' \in BOOLEAN /\ (~cut' => ~cut /\ ~(n < 2))
    BY <1>1, <2>1, Zenon
  <2>. QED  BY <1>4, <2>2
<1>10. SumTypes'
  BY <1>4, <1>6, <1>8, <1>9 DEF Sum!Reads, Sum!AfterRead, SumInv, SumTypes
<1>11. ASSUME ~cut'
       PROVE  /\ askAt = "read" /\ askAt' = "fgets" /\ Len(sums) = asks - 1
              /\ requests = << >> /\ replies' = << >> /\ took = Reply
  <2>1. askAt = "read" /\ requests = << >> /\ replies = Reply /\ Len(sums) = asks - 1 /\ asks > 0
    BY <1>3, <1>9, <1>11 DEF Sum!Reads, SumInv, OneUnderWay
  <2>2. Len(Reply) = 2
    BY DEF Reply, Sum!Halves
  <2>3. n = 2
    BY <1>4, <1>9, <1>11, <2>1, <2>2
  <2>. QED  BY <1>2, <1>4, <1>6, <2>1, <2>2, <2>3 DEF Sum!Reads, Sum!AfterRead
<1>12. ~cut' => OneUnderWay'
  BY <1>8, <1>11 DEF Sum!Reads, SumInv, SumTypes, OneUnderWay
<1>13. Sum!AnswersRight'
  <2>1. SUFFICES ASSUME ~cut', NEW k \in 1 .. Len(sums')
                 PROVE  sums'[k] = IF pair' = "sum" THEN Sum!Halves(Sum!Halves(k)) ELSE Sum!Halves(k)
    BY DEF Sum!AnswersRight
  <2>2. pair' = pair
    BY DEF Sum!Reads
  <2>3. CASE k \in 1 .. Len(sums)
    BY <1>8, <1>9, <2>1, <2>2, <2>3 DEF SumInv, Sum!AnswersRight
  <2>4. CASE k = Len(sums) + 1
    BY <1>8, <1>11, <2>1, <2>2, <2>4 DEF Reply, SumInv, SumTypes
  <2>. QED  BY <1>8, <2>1, <2>3, <2>4
<1>. QED  BY <1>10, <1>12, <1>13 DEF SumInv

\* A whole request is answered by its own sum.
LEMMA ServesKeeps ==
  ASSUME SumInv, Sum!Serves
  PROVE  SumInv'
<1>1. PICK n \in Sum!Counts(requests) :
        /\ requests' = Sum!Drop(requests, n)
        /\ args' = IF pair = "sum" THEN Sum!Over(args, requests, n) ELSE args
        /\ replies' = replies \o (IF pair = "sum" THEN Sum!Halves(args') ELSE SubSeq(requests, 1, n))
        /\ cut' = (cut \/ n < 2)
  BY DEF Sum!Serves
<1>2. PICK reply : reply = IF pair = "sum" THEN Sum!Halves(args') ELSE SubSeq(requests, 1, n)
  OBVIOUS
<1>3. /\ requests \in Seq(Request) /\ requests # << >> /\ replies \in Seq(Piece)
      /\ args \in Seq({<< >>} \cup Request) /\ Len(args) = 2
  BY DEF Sum!Serves, SumInv, SumTypes, Struct
<1>4. /\ n \in 1 .. Len(requests)
      /\ requests' \in Seq(Request) /\ SubSeq(requests, 1, n) \in Seq(Request)
      /\ n = Len(requests) => requests' = << >> /\ SubSeq(requests, 1, n) = requests
  BY ONLY <1>1, <1>3, ReadTakes
<1>5. requests \in Seq({<< >>} \cup Request) /\ SubSeq(requests, 1, n) \in Seq(Piece)
  BY <1>3, <1>4 DEF Request, Piece
<1>6. /\ args' \in Struct
      /\ pair = "sum" /\ n = 2 /\ Len(requests) = 2 => args' = requests
  BY <1>1, <1>3, <1>4, <1>5, OverStruct DEF Struct
<1>7. Sum!Halves(args') \in Seq(Piece)
  <2>1. args' \in (1 .. Requests) \cup Struct
    BY <1>6
  <2>. QED  BY ONLY <2>1, HalvesOf DEF Piece
<1>8. reply \in Seq(Piece) /\ replies' = replies \o reply
  BY <1>1, <1>2, <1>5, <1>7
<1>9. replies' \in Seq(Piece) /\ (replies = << >> => replies' = reply)
  BY ONLY <1>3, <1>8, ConcatProperties, ConcatEmptySeq
<1>10. cut' \in BOOLEAN /\ (~cut' => ~cut /\ n >= 2)
  <2>1. cut \in BOOLEAN
    BY DEF SumInv, SumTypes
  <2>2. cut' \in BOOLEAN /\ (~cut' => ~cut /\ ~(n < 2))
    BY <1>1, <2>1, Zenon
  <2>. QED  BY <1>4, <2>2
<1>11. SumTypes'
  BY <1>4, <1>6, <1>9, <1>10 DEF Sum!Serves, SumInv, SumTypes
<1>12. ASSUME ~cut' PROVE OneUnderWay'
  <2>1. CASE askAt = "read"
    <3>1. requests = Sum!Halves(asks) /\ replies = << >> /\ asks > 0 /\ Len(sums) = asks - 1
      BY <1>3, <1>10, <1>12, <2>1 DEF SumInv, OneUnderWay
    <3>2. Len(requests) = 2
      BY <3>1, HalvesOf
    <3>3. n = 2
      BY <1>4, <1>10, <1>12, <3>2
    <3>4. requests' = << >> /\ replies' = Reply
      BY <1>2, <1>4, <1>6, <1>9, <3>1, <3>2, <3>3 DEF Reply
    <3>. QED  BY <2>1, <3>1, <3>4 DEF Sum!Serves, OneUnderWay, Reply
  <2>2. CASE askAt # "read"
    BY <1>3, <1>10, <1>12, <2>2 DEF Sum!Serves, SumInv, OneUnderWay
  <2>. QED  BY <2>1, <2>2
<1>13. Sum!AnswersRight'
  BY <1>10 DEF Sum!Serves, SumInv, Sum!AnswersRight
<1>. QED  BY <1>11, <1>12, <1>13 DEF SumInv

LEMMA ReadsEndKeeps ==
  ASSUME SumInv, Sum!ReadsEnd
  PROVE  SumInv'
<1>1. CASE askAt' = "closed" /\ UNCHANGED <<sums, cut>>
  BY <1>1 DEF Sum!ReadsEnd, SumInv, SumTypes, OneUnderWay, Sum!AnswersRight
<1>2. CASE /\ sums' = Append(sums, IF pair = "sum" THEN result ELSE << >>)
           /\ cut' = TRUE /\ askAt' = Sum!AfterRead
  <2>1. cut' \in BOOLEAN /\ cut'
    BY <1>2, Zenon
  <2>2. PICK took : took = IF pair = "sum" THEN result ELSE << >>
    OBVIOUS
  <2>3. sums' \in Seq(Seq({<< >>} \cup Piece))
    <3>1. took \in Seq({<< >>} \cup Piece) /\ sums \in Seq(Seq({<< >>} \cup Piece))
      BY <2>2, EmptySeq DEF SumInv, SumTypes
    <3>2. sums' = Append(sums, took)
      BY <1>2, <2>2
    <3>. QED  BY ONLY <3>1, <3>2, AppendProperties
  <2>4. SumTypes'
    BY <1>2, <2>1, <2>3 DEF Sum!ReadsEnd, Sum!AfterRead, SumInv, SumTypes
  <2>. QED  BY <2>1, <2>4 DEF SumInv, Sum!AnswersRight
<1>. QED  BY <1>1, <1>2 DEF Sum!ReadsEnd

LEMMA NextSum == SumInv /\ [Sum!Next]_sumVars => SumInv'
<1>. SUFFICES ASSUME SumInv, [Sum!Next]_sumVars PROVE SumInv'
  OBVIOUS
<1>1. CASE Sum!InputEnds \/ Sum!Interrupts
  BY <1>1
     DEF Sum!InputEnds, Sum!Interrupts, SumInv, SumTypes, OneUnderWay, Sum!AnswersRight
<1>2. CASE Sum!ServeEnds \/ Sum!IsKilled \/ UNCHANGED sumVars
  BY <1>2
     DEF Sum!ServeEnds, Sum!IsKilled, sumVars, SumInv, SumTypes, OneUnderWay, Reply,
         Sum!AnswersRight
<1>. QED
  BY <1>1, <1>2, AsksKeeps, ReadsKeeps, ReadsEndKeeps, ServesKeeps DEF Sum!Next, Sum!Step

\* The stream of lines: what each step does to its three parts.
LEMMA InitLines == Sum!Init => LinesInv
<1>. SUFFICES ASSUME Sum!Init PROVE OneStream /\ Sum!LinesInOrder
  BY DEF LinesInv
<1>1. asks = 0 /\ requests = << >> /\ replies = << >> /\ sums = << >>
  BY DEF Sum!Init
<1>2. Len(requests) = 0 /\ Len(replies) = 0 /\ Len(sums) = 0
  BY <1>1, EmptySeq
<1>3. requests \in Seq(Request) /\ replies \in Seq(Request) /\ sums \in Seq(Seq(Request))
  BY <1>1, EmptySeq
<1>4. LastShown
  <2>1. asks = 0
    BY <1>1
  <2>2. Shown = 0
    BY <1>2, <2>1 DEF Shown
  <2>. QED  BY <1>1, <2>2 DEF LastShown
<1>. QED  BY <1>2, <1>3, <1>4 DEF OneStream, Sum!LinesInOrder

LEMMA CutInTwo ==
  ASSUME NEW M, NEW s \in Seq(M), NEW n \in 1 .. Len(s)
  PROVE  /\ Sum!Drop(s, n) \in Seq(M) /\ Len(Sum!Drop(s, n)) = Len(s) - n
         /\ \A i \in 1 .. Len(s) - n : Sum!Drop(s, n)[i] = s[n + i]
         /\ SubSeq(s, 1, n) \in Seq(M) /\ Len(SubSeq(s, 1, n)) = n
         /\ \A i \in 1 .. n : SubSeq(s, 1, n)[i] = s[i]
<1>1. Len(s) \in Nat /\ \A i \in 1 .. Len(s) : s[i] \in M
  BY ElementOfSeq, LenProperties
<1>2. /\ SubSeq(s, 1, n) \in Seq(M) /\ Len(SubSeq(s, 1, n)) = n
      /\ \A i \in 1 .. n : SubSeq(s, 1, n)[i] = s[i]
  BY <1>1, SubSeqProperties
<1>3. /\ SubSeq(s, n + 1, Len(s)) \in Seq(M) /\ Len(SubSeq(s, n + 1, Len(s))) = Len(s) - n
      /\ \A i \in 1 .. Len(s) - n : SubSeq(s, n + 1, Len(s))[i] = s[n + i]
  <2>1. \A i \in n + 1 .. Len(s) : s[i] \in M
    BY <1>1
  <2>2. /\ SubSeq(s, n + 1, Len(s)) \in Seq(M)
        /\ Len(SubSeq(s, n + 1, Len(s))) = IF n + 1 <= Len(s) THEN Len(s) - (n + 1) + 1 ELSE 0
        /\ \A i \in 1 .. Len(s) - (n + 1) + 1 : SubSeq(s, n + 1, Len(s))[i] = s[n + 1 + i - 1]
    BY <1>1, <2>1, SubSeqProperties
  <2>. QED  BY <1>1, <2>2
<1>. QED  BY <1>2, <1>3 DEF Sum!Drop

LEMMA AsksLines ==
  ASSUME SumInv, LinesInv, pair = "echo", Sum!Asks
  PROVE  OneStream' /\ Sum!LinesInOrder'
<1>1. UNCHANGED <<pair, replies, sums, serveAt>>
  BY DEF Sum!Asks
<1>2. Sum!LinesInOrder'
  BY <1>1 DEF LinesInv, Sum!LinesInOrder, Sum!Before
<1>3. CASE UNCHANGED <<asks, requests>>
  BY <1>1, <1>2, <1>3 DEF LinesInv, OneStream, LastShown, Shown
<1>4. CASE asks' = asks + 1 /\ requests' = requests \o Sum!Halves(asks + 1)
  <2>1. asks \in Nat /\ asks + 1 \in 1 .. Requests
    BY ClientsAssumption DEF Sum!Asks, SumInv, SumTypes
  <2>2. /\ Sum!Halves(asks + 1) \in Seq(Request) /\ Len(Sum!Halves(asks + 1)) = 2
        /\ Sum!Place(Sum!Halves(asks + 1)[1]) = 2 * asks + 1
        /\ Sum!Place(Sum!Halves(asks + 1)[2]) = 2 * asks + 2
    BY <2>1, HalvesOf DEF Request, Sum!Halves, Sum!Place
  <2>3. /\ requests' \in Seq(Request) /\ Len(requests) \in Nat
        /\ Len(requests') = Len(requests) + 2
        /\ \A i \in 1 .. Len(requests) : requests'[i] = requests[i]
        /\ requests'[Len(requests) + 1] = Sum!Halves(asks + 1)[1]
        /\ requests'[Len(requests) + 2] = Sum!Halves(asks + 1)[2]
    <3>1. PICK two : two = Sum!Halves(asks + 1)
      OBVIOUS
    <3>2. requests \in Seq(Request) /\ two \in Seq(Request) /\ Len(two) = 2
      BY <2>2, <3>1 DEF LinesInv, OneStream
    <3>3. requests' = requests \o two /\ Len(requests) \in Nat
      BY <1>4, <3>1, <3>2, LenProperties
    <3>4. /\ requests' \in Seq(Request) /\ Len(requests') = Len(requests) + 2
          /\ \A i \in 1 .. Len(requests) + 2 :
               requests'[i] = IF i <= Len(requests) THEN requests[i] ELSE two[i - Len(requests)]
      <4>1. /\ requests' \in Seq(Request) /\ Len(requests') = Len(requests) + Len(two)
            /\ \A i \in 1 .. Len(requests) + Len(two) :
                 requests'[i] = IF i <= Len(requests) THEN requests[i] ELSE two[i - Len(requests)]
        BY ONLY <3>2, <3>3, ConcatProperties
      <4>. QED  BY <3>2, <4>1
    <3>5. /\ \A i \in 1 .. Len(requests) : requests'[i] = requests[i]
          /\ requests'[Len(requests) + 1] = two[1] /\ requests'[Len(requests) + 2] = two[2]
      BY <3>3, <3>4
    <3>. QED  BY <3>1, <3>3, <3>4, <3>5
  <2>4. Len(replies) \in Nat /\ Shown' = Shown
    <3>1. Len(replies) \in Nat /\ replies' = replies
      BY <1>1, LenProperties DEF LinesInv, OneStream
    <3>2. asks' = asks + 1 /\ Len(requests') = Len(requests) + 2 /\ Len(requests) \in Nat
      BY <1>4, <2>3
    <3>3. 2 * asks' - Len(requests') - Len(replies) = 2 * asks - Len(requests) - Len(replies)
      BY ONLY <2>1, <3>1, <3>2
    <3>. QED  BY <3>1, <3>3 DEF Shown
  <2>5. \A i \in 1 .. Len(requests') : Sum!Place(requests'[i]) = 2 * asks' - Len(requests') + i
    <3>1. \A i \in 1 .. Len(requests) : Sum!Place(requests[i]) = 2 * asks - Len(requests) + i
      BY DEF LinesInv, OneStream
    <3>2. 2 * asks' - Len(requests') = 2 * asks - Len(requests)
      <4>1. asks' = asks + 1 /\ Len(requests') = Len(requests) + 2 /\ Len(requests) \in Nat
        BY <1>4, <2>3
      <4>. QED  BY ONLY <2>1, <4>1
    <3>. SUFFICES ASSUME NEW i \in 1 .. Len(requests')
                  PROVE  Sum!Place(requests'[i]) = 2 * asks - Len(requests) + i
      BY <3>2
    <3>3. i \in 1 .. Len(requests) \/ i = Len(requests) + 1 \/ i = Len(requests) + 2
      BY <2>3
    <3>4. CASE i \in 1 .. Len(requests)
      BY <2>3, <3>1, <3>4
    <3>5. CASE i = Len(requests) + 1
      BY <2>1, <2>2, <2>3, <3>5
    <3>6. CASE i = Len(requests) + 2
      BY <2>1, <2>2, <2>3, <3>6
    <3>. QED  BY <3>3, <3>4, <3>5, <3>6
  <2>. QED  BY <1>1, <1>2, <2>3, <2>4, <2>5 DEF LinesInv, OneStream, LastShown
<1>. QED  BY <1>2, <1>3, <1>4 DEF Sum!Asks

LEMMA ServesLines ==
  ASSUME SumInv, LinesInv, pair = "echo", Sum!Serves
  PROVE  OneStream' /\ Sum!LinesInOrder'
<1>1. UNCHANGED <<pair, asks, sums, serveAt>> /\ requests # << >> /\ serveAt = "serves"
  BY DEF Sum!Serves
<1>2. PICK n \in Sum!Counts(requests) :
        /\ requests' = Sum!Drop(requests, n)
        /\ replies' = replies \o SubSeq(requests, 1, n)
  BY DEF Sum!Serves
<1>3. /\ requests \in Seq(Request) /\ replies \in Seq(Request)
      /\ Len(requests) \in Nat /\ Len(replies) \in Nat /\ asks \in Nat
  BY LenProperties, ClientsAssumption DEF LinesInv, OneStream, SumInv, SumTypes
<1>4. n \in 1 .. Len(requests)
  BY ONLY <1>1, <1>2, <1>3, ReadTakes
<1>5. /\ requests' \in Seq(Request) /\ Len(requests') = Len(requests) - n
      /\ \A i \in 1 .. Len(requests) - n : requests'[i] = requests[n + i]
      /\ SubSeq(requests, 1, n) \in Seq(Request) /\ Len(SubSeq(requests, 1, n)) = n
      /\ \A i \in 1 .. n : SubSeq(requests, 1, n)[i] = requests[i]
  BY ONLY <1>2, <1>3, <1>4, CutInTwo
<1>6. /\ replies' \in Seq(Request) /\ Len(replies') = Len(replies) + n
      /\ \A i \in 1 .. Len(replies) : replies'[i] = replies[i]
      /\ \A i \in Len(replies) + 1 .. Len(replies) + n : replies'[i] = requests[i - Len(replies)]
  <2>1. /\ replies' \in Seq(Request) /\ Len(replies') = Len(replies) + n
        /\ \A i \in 1 .. Len(replies) + n :
             replies'[i] = IF i <= Len(replies) THEN replies[i]
                           ELSE SubSeq(requests, 1, n)[i - Len(replies)]
    <3>1. PICK served : served = SubSeq(requests, 1, n)
      OBVIOUS
    <3>2. served \in Seq(Request) /\ Len(served) = n /\ replies' = replies \o served
      BY <1>2, <1>5, <3>1
    <3>3. /\ replies' \in Seq(Request) /\ Len(replies') = Len(replies) + n
          /\ \A i \in 1 .. Len(replies) + n :
               replies'[i] = IF i <= Len(replies) THEN replies[i] ELSE served[i - Len(replies)]
      BY ONLY <1>3, <3>2, ConcatProperties
    <3>. QED  BY <3>1, <3>3
  <2>2. n \in Nat
    BY <1>3, <1>4
  <2>3. \A i \in 1 .. Len(replies) : i \in 1 .. Len(replies) + n /\ i <= Len(replies)
    BY <1>3, <2>2
  <2>4. \A i \in Len(replies) + 1 .. Len(replies) + n :
          i \in 1 .. Len(replies) + n /\ ~(i <= Len(replies)) /\ i - Len(replies) \in 1 .. n
    BY <1>3, <2>2
  <2>. QED  BY <1>5, <2>1, <2>3, <2>4
<1>7. Shown' = Shown /\ Shown \in Int
  BY <1>1, <1>3, <1>4, <1>5, <1>6 DEF Shown
<1>8. \A i \in 1 .. Len(requests') : Sum!Place(requests'[i]) = 2 * asks' - Len(requests') + i
  <2>. SUFFICES ASSUME NEW i \in 1 .. Len(requests')
                PROVE  Sum!Place(requests'[i]) = 2 * asks' - Len(requests') + i
    OBVIOUS
  <2>1. n + i \in 1 .. Len(requests) /\ requests'[i] = requests[n + i]
    BY <1>3, <1>4, <1>5
  <2>2. Sum!Place(requests[n + i]) = 2 * asks - Len(requests) + (n + i)
    BY <2>1 DEF LinesInv, OneStream
  <2>. QED  BY <1>1, <1>3, <1>4, <1>5, <2>1, <2>2
<1>9. \A i \in 1 .. Len(replies') : Sum!Place(replies'[i]) = Shown' + i
  <2>. SUFFICES ASSUME NEW i \in 1 .. Len(replies')
                PROVE  Sum!Place(replies'[i]) = Shown + i
    BY <1>7
  <2>1. CASE i \in 1 .. Len(replies)
    BY <1>6, <2>1 DEF LinesInv, OneStream
  <2>2. CASE i \in Len(replies) + 1 .. Len(replies) + n
    <3>1. /\ i - Len(replies) \in 1 .. Len(requests)
          /\ replies'[i] = requests[i - Len(replies)]
      <4>1. i - Len(replies) \in 1 .. n /\ n <= Len(requests) /\ n \in Nat
        BY <1>3, <1>4, <2>2
      <4>. QED  BY <1>3, <1>6, <2>2, <4>1
    <3>2. Sum!Place(requests[i - Len(replies)]) = 2 * asks - Len(requests) + (i - Len(replies))
      BY <3>1 DEF LinesInv, OneStream
    <3>. QED  BY <1>3, <3>1, <3>2 DEF Shown
  <2>. QED  BY <1>3, <1>4, <1>6, <2>1, <2>2
<1>10. Sum!LinesInOrder'
  BY <1>1 DEF LinesInv, Sum!LinesInOrder, Sum!Before
<1>11. LastShown'
  BY <1>1, <1>7 DEF LinesInv, OneStream, LastShown
<1>12. sums' \in Seq(Seq(Request))
  BY <1>1 DEF LinesInv, OneStream
<1>. QED  BY <1>5, <1>6, <1>8, <1>9, <1>10, <1>11, <1>12 DEF OneStream

\* What is shown next begins where it stopped.
LEMMA ReadsLines ==
  ASSUME SumInv, LinesInv, pair = "echo", Sum!Reads
  PROVE  OneStream' /\ Sum!LinesInOrder'
<1>1. UNCHANGED <<pair, asks, requests, serveAt>> /\ replies # << >>
  BY DEF Sum!Reads
<1>2. PICK n \in Sum!Counts(replies) :
        replies' = Sum!Drop(replies, n) /\ sums' = Append(sums, SubSeq(replies, 1, n))
  BY DEF Sum!Reads
<1>3. PICK shown_ : shown_ = SubSeq(replies, 1, n)
  OBVIOUS
<1>4. /\ requests \in Seq(Request) /\ replies \in Seq(Request) /\ sums \in Seq(Seq(Request))
      /\ Len(requests) \in Nat /\ Len(replies) \in Nat /\ Len(sums) \in Nat /\ asks \in Nat
  BY LenProperties, ClientsAssumption DEF LinesInv, OneStream, SumInv, SumTypes
<1>5. n \in 1 .. Len(replies)
  BY ONLY <1>1, <1>2, <1>4, ReadTakes
<1>6. /\ replies' \in Seq(Request) /\ Len(replies') = Len(replies) - n
      /\ \A i \in 1 .. Len(replies) - n : replies'[i] = replies[n + i]
      /\ shown_ \in Seq(Request) /\ Len(shown_) = n
      /\ \A i \in 1 .. n : shown_[i] = replies[i]
  BY ONLY <1>2, <1>3, <1>4, <1>5, CutInTwo
<1>7. /\ sums' \in Seq(Seq(Request)) /\ Len(sums') = Len(sums) + 1
      /\ \A k \in 1 .. Len(sums) : sums'[k] = sums[k]
      /\ sums'[Len(sums) + 1] = shown_
  <2>1. sums' = Append(sums, shown_)
    BY <1>2, <1>3
  <2>. QED  BY ONLY <1>4, <1>6, <2>1, AppendProperties
<1>8. Shown' = Shown + n /\ Shown \in Int
  BY <1>1, <1>4, <1>5, <1>6 DEF Shown
<1>9. \A i \in 1 .. n : Sum!Place(shown_[i]) = Shown + i
  BY <1>5, <1>6 DEF LinesInv, OneStream
<1>10. \A i \in 1 .. Len(replies') : Sum!Place(replies'[i]) = Shown' + i
  <2>. SUFFICES ASSUME NEW i \in 1 .. Len(replies')
                PROVE  Sum!Place(replies'[i]) = Shown + n + i
    BY <1>8
  <2>1. n + i \in 1 .. Len(replies) /\ replies'[i] = replies[n + i]
    BY <1>4, <1>5, <1>6
  <2>2. Sum!Place(replies[n + i]) = Shown + (n + i)
    BY <2>1 DEF LinesInv, OneStream
  <2>. QED  BY <1>4, <1>5, <1>8, <2>1, <2>2
<1>11. LastShown'
  <2>1. sums' # << >> /\ sums'[Len(sums')] = shown_ /\ shown_ # << >>
    BY <1>4, <1>5, <1>6, <1>7, EmptySeq
  <2>2. Sum!Place(shown_[Len(shown_)]) = Shown'
    BY <1>5, <1>6, <1>8, <1>9
  <2>. QED  BY <2>1, <2>2 DEF LastShown
<1>12. \A i \in 1 .. Len(requests') : Sum!Place(requests'[i]) = 2 * asks' - Len(requests') + i
  BY <1>1 DEF LinesInv, OneStream
<1>13. Sum!LinesInOrder'
  <2>1. SUFFICES ASSUME NEW k \in 1 .. Len(sums'), NEW j \in 1 .. Len(sums'[k])
                 PROVE  Sum!Place(sums'[k][j]) = Sum!Before(k)' + j
    BY DEF Sum!LinesInOrder
  <2>2. CASE k \in 1 .. Len(sums)
    <3>1. sums'[k] = sums[k] /\ (k # 1 => k - 1 \in 1 .. Len(sums) /\ sums'[k - 1] = sums[k - 1])
      <4>1. k # 1 => k - 1 \in 1 .. Len(sums)
        BY <1>4, <2>2
      <4>. QED  BY <1>7, <2>2, <4>1
    <3>2. Sum!Before(k)' = Sum!Before(k)
      BY <3>1 DEF Sum!Before
    <3>3. Sum!Place(sums[k][j]) = Sum!Before(k) + j
      BY <2>1, <2>2, <3>1 DEF LinesInv, Sum!LinesInOrder
    <3>. QED  BY <3>1, <3>2, <3>3
  <2>3. CASE k = Len(sums) + 1
    <3>1. Sum!Place(sums'[k][j]) = Shown + j
      BY <1>6, <1>7, <1>9, <2>1, <2>3
    <3>2. Sum!Before(k)' = Shown
      <4>1. CASE sums = << >>
        <5>1. k = 1 /\ Shown = 0
          BY <2>3, <4>1 DEF LinesInv, OneStream, LastShown
        <5>. QED  BY <5>1 DEF Sum!Before
      <4>2. CASE sums # << >>
        <5>1. Len(sums) # 0 /\ k - 1 = Len(sums) /\ k # 1
          BY <1>4, <2>3, <4>2, EmptySeq
        <5>2. sums'[k - 1] = sums[Len(sums)]
          <6>1. Len(sums) \in 1 .. Len(sums)
            BY <1>4, <5>1
          <6>. QED  BY <1>7, <5>1, <6>1
        <5>3. Sum!Place(sums[Len(sums)][Len(sums[Len(sums)])]) = Shown
          BY <1>1, <4>2 DEF LinesInv, OneStream, LastShown
        <5>. QED  BY <5>1, <5>2, <5>3 DEF Sum!Before
      <4>. QED  BY <4>1, <4>2
    <3>. QED  BY <3>1, <3>2
  <2>. QED  BY <1>4, <1>7, <2>1, <2>2, <2>3
<1>. QED  BY <1>1, <1>4, <1>6, <1>7, <1>10, <1>11, <1>12, <1>13 DEF OneStream

\* After an error of read() nothing is shown any more.
LEMMA ReadsEndLines ==
  ASSUME SumInv, LinesInv, pair = "echo", Sum!ReadsEnd
  PROVE  OneStream' /\ Sum!LinesInOrder'
<1>1. UNCHANGED <<pair, asks, requests, replies, serveAt>> /\ replies = << >>
  BY DEF Sum!ReadsEnd
<1>2. CASE UNCHANGED sums
  BY <1>1, <1>2
     DEF LinesInv, OneStream, LastShown, Shown, Sum!LinesInOrder, Sum!Before
<1>3. CASE sums' = Append(sums, << >>) /\ serveAt = "killed"
  <2>1. sums \in Seq(Seq(Request)) /\ Len(sums) \in Nat
    BY LenProperties DEF LinesInv, OneStream
  <2>2. /\ sums' \in Seq(Seq(Request)) /\ Len(sums') = Len(sums) + 1
        /\ \A k \in 1 .. Len(sums) : sums'[k] = sums[k]
        /\ sums'[Len(sums) + 1] = << >>
    <3>1. << >> \in Seq(Request)
      BY EmptySeq
    <3>. QED  BY ONLY <1>3, <2>1, <3>1, AppendProperties
  <2>3. LastShown'
    <3>1. sums' # << >>
      BY <2>1, <2>2, EmptySeq
    <3>. QED  BY <1>1, <1>3, <3>1 DEF LastShown
  <2>4. Sum!LinesInOrder'
    <3>1. SUFFICES ASSUME NEW k \in 1 .. Len(sums'), NEW j \in 1 .. Len(sums'[k])
                   PROVE  Sum!Place(sums'[k][j]) = Sum!Before(k)' + j
      BY DEF Sum!LinesInOrder
    <3>2. k \in 1 .. Len(sums)
      BY <2>1, <2>2, EmptySeq
    <3>3. sums'[k] = sums[k] /\ (k # 1 => k - 1 \in 1 .. Len(sums) /\ sums'[k - 1] = sums[k - 1])
      <4>1. k # 1 => k - 1 \in 1 .. Len(sums)
        BY <2>1, <3>2
      <4>. QED  BY <2>2, <3>2, <4>1
    <3>4. Sum!Before(k)' = Sum!Before(k)
      BY <3>3 DEF Sum!Before
    <3>5. Sum!Place(sums[k][j]) = Sum!Before(k) + j
      BY <3>2, <3>3 DEF LinesInv, Sum!LinesInOrder
    <3>. QED  BY <3>3, <3>4, <3>5
  <2>. QED  BY <1>1, <2>2, <2>3, <2>4 DEF LinesInv, OneStream, Shown
<1>. QED  BY <1>2, <1>3 DEF Sum!ReadsEnd

LEMMA NextLines == SumInv /\ LinesInv /\ [Sum!Next]_sumVars => LinesInv'
<1>. SUFFICES ASSUME SumInv, LinesInv, [Sum!Next]_sumVars, pair = "echo"
              PROVE  OneStream' /\ Sum!LinesInOrder'
  <2>1. [Sum!Next]_sumVars => pair' = pair
    BY DEF Sum!Next, Sum!Step, Sum!Asks, Sum!InputEnds, Sum!Reads, Sum!ReadsEnd, Sum!Serves,
           Sum!ServeEnds, Sum!Interrupts, Sum!IsKilled, sumVars
  <2>. QED  BY <2>1 DEF LinesInv
<1>1. CASE Sum!InputEnds \/ Sum!Interrupts \/ Sum!ServeEnds \/ Sum!IsKilled \/ UNCHANGED sumVars
  <2>1. /\ UNCHANGED <<pair, asks, requests, replies, sums>>
        /\ serveAt' = serveAt \/ serveAt # "killed"
    BY <1>1 DEF Sum!InputEnds, Sum!Interrupts, Sum!ServeEnds, Sum!IsKilled, sumVars
  <2>2. LastShown'
    BY <2>1 DEF LinesInv, OneStream, LastShown, Shown
  <2>. QED  BY <2>1, <2>2 DEF LinesInv, OneStream, Shown, Sum!LinesInOrder, Sum!Before
<1>. QED
  BY <1>1, AsksLines, ReadsLines, ReadsEndLines, ServesLines DEF Sum!Next, Sum!Step

-----------------------------------------------------------------------------
(* The programs together.                                                  *)

\* A step of one program is a stutter of all the others.
LEMMA StepOfOne ==
  [AllNext]_allVars =>
    /\ [Next]_vars /\ [Sum!Next]_sumVars /\ [Stdio!Next]_stdioVars
    /\ [TwoProcess!Next]_forkCliVars /\ [Count!Next]_countVars /\ [Time!Next]_daytimeVars
<1>. SUFFICES ASSUME [AllNext]_allVars
              PROVE  /\ [Next]_vars /\ [Sum!Next]_sumVars /\ [Stdio!Next]_stdioVars
                     /\ [TwoProcess!Next]_forkCliVars /\ [Count!Next]_countVars
                     /\ [Time!Next]_daytimeVars
  OBVIOUS
<1>1. CASE UNCHANGED allVars
  BY <1>1 DEF allVars
<1>2. CASE AllNext
  BY <1>2 DEF AllNext, Runs
<1>. QED  BY <1>1, <1>2

\* However many requests are made: as long as every read() of both sides
\* returns a whole message, each answer is that of its request; however TCP
\* cuts them and whenever the server is killed, the client of src/05 shows its
\* lines in order and without a gap; and the daytime client shows at most one
\* field of each piece of the text.
THEOREM AnswersSafety == AllSpec => []AnswersTaken
<1>. DEFINE AnswersInv == SumInv /\ LinesInv /\ DaytimeInv
<1>1. AllInit => AnswersInv
  BY InitSum, InitLines, InitDaytime DEF AllInit
<1>2. AnswersInv /\ [AllNext]_allVars => AnswersInv'
  BY NextSum, NextLines, NextDaytime, StepOfOne
<1>3. AnswersInv => AnswersTaken
  <2>1. LinesInv => Sum!LinesInOrder
    BY DEF LinesInv, Sum!LinesInOrder
  <2>. QED  BY <2>1, SumTyped DEF SumInv, DaytimeInv, AnswersTaken
<1>. QED  BY <1>1, <1>2, <1>3, PTL DEF AllSpec

\* However much is typed and whoever calls: no client of these ends well with
\* an echo or a count missing, but for the cases the properties name.
THEOREM EndsSafety == AllSpec => []EndMeansDone
<1>. DEFINE EndInv == StdioInv /\ ForkCliInv /\ CountInv
<1>1. AllInit => EndInv
  BY InitStdio, InitForkCli, InitCount DEF AllInit
<1>2. EndInv /\ [AllNext]_allVars => EndInv'
  BY NextStdio, NextForkCli, NextCount, StepOfOne
<1>3. EndInv => EndMeansDone
  BY DEF StdioInv, ForkCliInv, CountInv, EndMeansDone
<1>. QED  BY <1>1, <1>2, <1>3, PTL DEF AllSpec
=============================================================================
