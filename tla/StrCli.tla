------------------------------- MODULE StrCli -------------------------------
(***************************************************************************)
(* The line client of src/07/client.c, str_cli(): it copies its input to   *)
(* the socket and the socket to its output with one select() over both,    *)
(* and half-closes at the end of its input.  At the other end str_echo()   *)
(* of src/07/server.c; both processes block in write() when the buffers of *)
(* the connection are full.                                                *)
(*                                                                         *)
(* TCP keeps the order of bytes, so a stream is described by how many of   *)
(* its bytes have passed each point.  From the keyboard to the output:     *)
(*   typed >= taken >= up >= srvRead >= srvWritten >= arrived >= cliRead.  *)
(***************************************************************************)
EXTENDS Integers

CONSTANTS
  Input,          \* bound: bytes of input
  BUF,            \* sizeof(buf) in str_cli()
  SBUF,           \* sizeof(buf) in str_echo()
  UpBuf,          \* bytes of the kernels' buffers from client to server
  SndBuf,         \* the server's send buffer: bytes not yet arrived
  RcvBuf,         \* the client's receive buffer: bytes arrived and not read
  StdinWritable,  \* TRUE: descriptor 0 can be written to, as a terminal can
  Crashes         \* TRUE: the server process may be killed at any time

ASSUME CliAssumption ==
  /\ Input \in Nat
  /\ BUF \in Nat \ {0} /\ SBUF \in Nat \ {0}
  /\ UpBuf \in Nat \ {0} /\ SndBuf \in Nat \ {0} /\ RcvBuf \in Nat \ {0}
  /\ StdinWritable \in BOOLEAN /\ Crashes \in BOOLEAN

VARIABLES
  pc,          \* the client's system call, or how it ended
  rset,        \* what select() reported and the loop body has still to test
  stdineof,    \* the client's flag of the same name
  typed, eof,  \* bytes put into the input, and whether it has ended
  taken,       \* bytes read from the input
  up,          \* bytes written to the socket
  fin,         \* whether the client's FIN was sent
  server,      \* what the server's child does
  srvRead, srvWritten,  \* bytes it has read and written back
  arrived,     \* bytes that reached the client's receive buffer
  ended,       \* the server's end as the client's kernel knows it
  cliRead,     \* bytes the client has read from the socket
  shown,       \* bytes it has put out
  died         \* whether the server was killed

clientVars == <<pc, rset, stdineof, taken, up, fin, cliRead, shown>>
inputVars == <<typed, eof>>
serverVars == <<server, srvRead, srvWritten, died>>
netVars == <<arrived, ended>>
vars == <<clientVars, inputVars, serverVars, netVars>>

TypeOK ==
  /\ pc \in {"select", "readSock", "readIn", "writeSock", "returned", "exit1", "killed"}
  /\ rset \in SUBSET {"sock", "in"}
  /\ stdineof \in {0, 1}
  /\ typed \in 0 .. Input /\ eof \in BOOLEAN
  /\ taken \in 0 .. typed /\ up \in 0 .. taken /\ fin \in BOOLEAN
  /\ server \in {"read", "write", "closed"} /\ died \in BOOLEAN
  /\ srvRead \in 0 .. up /\ srvWritten \in 0 .. srvRead
  /\ arrived \in 0 .. srvWritten
  /\ ended \in {"no", "fin", "reset", "broken"}
  /\ cliRead \in 0 .. arrived /\ shown \in 0 .. cliRead

Init ==
  /\ pc = "select" /\ rset = {} /\ stdineof = 0
  /\ typed = 0 /\ eof = FALSE
  /\ taken = 0 /\ up = 0 /\ fin = FALSE
  /\ server = "read" /\ srvRead = 0 /\ srvWritten = 0 /\ died = FALSE
  /\ arrived = 0 /\ ended = "no"
  /\ cliRead = 0 /\ shown = 0

Smaller(a, b) == IF a < b THEN a ELSE b

Running == pc \in {"select", "readSock", "readIn", "writeSock"}

-----------------------------------------------------------------------------
(* The client.                                                             *)

SockReady == arrived > cliRead \/ ended # "no"

\* Mutant: the socket is watched only after the input ended.
WatchedInTurn == IF stdineof = 0 THEN {"in"} ELSE {"sock"}

\* The bits left in rset, and those set at the top of the loop.
Watched == rset \cup {"sock"} \cup {x \in {"in"} : stdineof = 0}

Ready(x) == IF x = "sock" THEN SockReady ELSE typed > taken \/ eof

\* Mutant: the input is tested first and the socket in its else branch.
SelectInFirst ==
  /\ pc = "select"
  /\ \E x \in Watched : Ready(x)
  /\ rset' = IF "in" \in Watched /\ Ready("in") THEN {"in"} ELSE {"sock"}
  /\ pc' = IF "sock" \in rset' THEN "readSock" ELSE "readIn"
  /\ UNCHANGED <<inputVars, serverVars, netVars, stdineof, taken, up, fin, cliRead, shown>>

Select ==
  /\ pc = "select"
  /\ rset' = {x \in Watched : Ready(x)}
  /\ rset' # {}
  /\ pc' = IF "sock" \in rset' THEN "readSock" ELSE "readIn"
  /\ UNCHANGED <<inputVars, serverVars, netVars, stdineof, taken, up, fin, cliRead, shown>>

SockDone == pc' = IF "in" \in rset THEN "readIn" ELSE "select"

\* Mutant: what read() returned is taken for sizeof(buf).
ReadSockFull ==
  /\ pc = "readSock" /\ arrived > cliRead
  /\ cliRead' = cliRead + BUF
  /\ shown' = shown + BUF
  /\ SockDone
  /\ UNCHANGED <<inputVars, serverVars, netVars, rset, stdineof, taken, up, fin>>

\* What is read goes to fileno(fp), the descriptor of the input: on a
\* descriptor open for reading only the write() fails unseen.
ReadSock ==
  /\ pc = "readSock" /\ arrived > cliRead
  /\ LET n == Smaller(BUF, arrived - cliRead) IN
       /\ cliRead' = cliRead + n
       /\ shown' = IF StdinWritable THEN shown + n ELSE shown
  /\ SockDone
  /\ UNCHANGED <<inputVars, serverVars, netVars, rset, stdineof, taken, up, fin>>

\* Mutant: the end of the server's stream is not noticed while input is open.
EndUnnoticed ==
  /\ pc = "readSock" /\ arrived = cliRead /\ ended \in {"fin", "broken"}
  /\ IF stdineof = 1 THEN pc' = "returned" ELSE SockDone
  /\ UNCHANGED <<inputVars, serverVars, netVars, rset, stdineof, taken, up, fin, cliRead, shown>>

\* read() returns 0: after the end of the input as it should, before it
\* "server terminated prematurely".
ReadSockEnd ==
  /\ pc = "readSock" /\ arrived = cliRead /\ ended \in {"fin", "broken"}
  /\ pc' = IF stdineof = 1 THEN "returned" ELSE "exit1"
  /\ UNCHANGED <<inputVars, serverVars, netVars, rset, stdineof, taken, up, fin, cliRead, shown>>

\* read() returns -1 once after a reset, and 0 from then on; -1 is passed on
\* to write(), which refuses it.
ReadSockFails ==
  /\ pc = "readSock" /\ arrived = cliRead /\ ended = "reset"
  /\ ended' = "broken"
  /\ SockDone
  /\ UNCHANGED <<inputVars, serverVars, arrived, rset, stdineof, taken, up, fin, cliRead, shown>>

ReadIn ==
  /\ pc = "readIn" /\ typed > taken
  /\ taken' = taken + Smaller(BUF, typed - taken)
  /\ pc' = "writeSock"
  /\ UNCHANGED <<inputVars, serverVars, netVars, rset, stdineof, up, fin, cliRead, shown>>

\* Mutants: the client ends with its input, as str_cli02() does; it forgets
\* shutdown().
ExitsAtEof ==
  /\ pc = "readIn" /\ typed = taken /\ eof
  /\ stdineof' = 1 /\ fin' = TRUE
  /\ pc' = "returned"
  /\ UNCHANGED <<inputVars, serverVars, netVars, rset, taken, up, cliRead, shown>>

ShutdownMissing ==
  /\ pc = "readIn" /\ typed = taken /\ eof
  /\ stdineof' = 1
  /\ rset' = rset \ {"in"}
  /\ pc' = "select"
  /\ UNCHANGED <<inputVars, serverVars, netVars, taken, up, fin, cliRead, shown>>

\* End of input: shutdown(SHUT_WR), and the echoes are still to come.
ReadInEnd ==
  /\ pc = "readIn" /\ typed = taken /\ eof
  /\ stdineof' = 1 /\ fin' = TRUE
  /\ rset' = rset \ {"in"}
  /\ pc' = "select"
  /\ UNCHANGED <<inputVars, serverVars, netVars, taken, up, cliRead, shown>>

\* A server that is gone takes no data, but its kernel discards what comes.
UpRoom == IF server = "closed" THEN taken - up ELSE UpBuf - (up - srvRead)

\* write() blocks until the whole buffer is handed over; it moves what fits.
WriteSock ==
  /\ pc = "writeSock" /\ ended \in {"no", "fin"} /\ UpRoom > 0
  /\ up' = up + Smaller(UpRoom, taken - up)
  /\ pc' = IF up' = taken THEN "select" ELSE "writeSock"
  /\ UNCHANGED <<inputVars, serverVars, netVars, rset, stdineof, taken, fin, cliRead, shown>>

\* write() after a reset: SIGPIPE, or once an error that nobody looks at.
WriteSockFails ==
  /\ pc = "writeSock" /\ ended \in {"reset", "broken"}
  /\ pc' \in IF ended = "reset" THEN {"killed", "select"} ELSE {"killed"}
  /\ up' = taken
  /\ ended' = "broken"
  /\ UNCHANGED <<inputVars, serverVars, arrived, rset, stdineof, taken, fin, cliRead, shown>>

ClientStep ==
  Select \/ ReadSock \/ ReadSockEnd \/ ReadSockFails
    \/ ReadIn \/ ReadInEnd \/ WriteSock \/ WriteSockFails

-----------------------------------------------------------------------------
(* The server's child.                                                     *)

SrvRead ==
  /\ server = "read" /\ up > srvRead
  /\ srvRead' = srvRead + Smaller(SBUF, up - srvRead)
  /\ server' = "write"
  /\ UNCHANGED <<clientVars, inputVars, netVars, srvWritten, died>>

\* End of file: the child exits, which closes the connection.
SrvEnd ==
  /\ server = "read" /\ up = srvRead /\ fin
  /\ server' = "closed"
  /\ UNCHANGED <<clientVars, inputVars, netVars, srvRead, srvWritten, died>>

DownRoom == SndBuf - (srvWritten - arrived)

SrvWrite ==
  /\ server = "write" /\ DownRoom > 0
  /\ srvWritten' = srvWritten + Smaller(DownRoom, srvRead - srvWritten)
  /\ server' = IF srvWritten' = srvRead THEN "read" ELSE "write"
  /\ UNCHANGED <<clientVars, inputVars, netVars, srvRead, died>>

ServerStep == SrvRead \/ SrvEnd \/ SrvWrite

-----------------------------------------------------------------------------
(* The network, the user and the failure of the server.                    *)

Arrive ==
  /\ ended = "no" /\ arrived < srvWritten /\ arrived - cliRead < RcvBuf
  /\ arrived' = arrived + 1
  /\ UNCHANGED <<clientVars, inputVars, serverVars, ended>>

FinArrives ==
  /\ ended = "no" /\ server = "closed" /\ arrived = srvWritten
  /\ ended' = "fin"
  /\ UNCHANGED <<clientVars, inputVars, serverVars, arrived>>

\* A server that closed with data unread, or gets data after it closed,
\* answers with a reset; what had not arrived by then never does.
ResetArrives ==
  /\ ended \in {"no", "fin"} /\ server = "closed" /\ up > srvRead
  /\ ended' = "reset"
  /\ UNCHANGED <<clientVars, inputVars, serverVars, arrived>>

NetStep == Arrive \/ FinArrives \/ ResetArrives

Types ==
  /\ ~eof /\ typed < Input
  /\ typed' = typed + 1
  /\ UNCHANGED <<clientVars, serverVars, netVars, eof>>

EndsInput ==
  /\ ~eof
  /\ eof' = TRUE
  /\ UNCHANGED <<clientVars, serverVars, netVars, typed>>

Die ==
  /\ Crashes /\ server # "closed"
  /\ server' = "closed" /\ died' = TRUE
  /\ UNCHANGED <<clientVars, inputVars, netVars, srvRead, srvWritten>>

Next ==
  ClientStep \/ ServerStep \/ NetStep \/ Types \/ EndsInput \/ Die

\* Both processes are scheduled whenever their call can return, and what was
\* sent arrives.  The user need not type or end the input.
Fairness == WF_vars(ClientStep) /\ WF_vars(ServerStep) /\ WF_vars(NetStep)

Spec == Init /\ [][Next]_vars /\ Fairness

-----------------------------------------------------------------------------
(* Properties.                                                             *)

\* Client and server never wait for each other with all buffers full: each in
\* a write() that only the other's read() could let go on.
NeverStuck ==
  ~ /\ pc = "writeSock" /\ UpRoom = 0
    /\ server = "write" /\ DownRoom = 0
    /\ arrived - cliRead = RcvBuf

\* Unless the server was killed the client returns only after the end of its
\* input and with every echo put out, and it never ends in another way.
AllShown ==
  ~died =>
    /\ pc = "returned" => eof /\ shown = typed
    /\ pc \notin {"exit1", "killed"}

\* What is typed is echoed, with the input still open.
Delivered ==
  \A k \in 1 .. Input : typed >= k ~> shown >= k \/ died

\* The end of the input ends the client, after the last echo.
EofEnds == eof ~> ~Running

\* The end of the server ends the client, whatever the user does.
Notified == died ~> ~Running
=============================================================================
