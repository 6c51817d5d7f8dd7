------------------------------- MODULE MCClients -------------------------------
(***************************************************************************)
(* The clients of streams for TLC, each with the server it talks to: one   *)
(* run checks StrCli and, side by side with it, the smaller programs.  A   *)
(* behaviour runs one of them, and the variables of the others stay at     *)
(* their initial values.                                                   *)
(***************************************************************************)
EXTENDS StrCli

CONSTANTS Requests, Entries, Said, Callers, CallerLines, Watchers

ASSUME ClientsAssumption ==
  /\ Requests \in Nat /\ Entries \in Nat /\ Said \in Nat /\ CallerLines \in Nat
  /\ Callers # {} /\ Watchers # {}

VARIABLES program,
  pair, askAt, asks, requests, replies, args, result, sums, serveAt, cut,
  version, cliAt, ready, eofFlag, fed, closed, fetched, sent, returned, back, put, shutDown, echoer, stream,
  writer, reader, lines, half, echoed, peer, reset, stranger,
  callerAt, written, parentDo, caller, link, holders, childAt, counted, refusedTo, sigchld,
  hostAt, visitor, conn, got, display, pieces, over

Sum == INSTANCE SumEcho
Stdio == INSTANCE StdioCli
TwoProcess == INSTANCE ForkStrCli
Count == INSTANCE UnixCount
Time == INSTANCE Daytime

sumVars == <<pair, askAt, asks, requests, replies, args, result, sums, serveAt, cut>>
stdioVars == <<version, cliAt, ready, eofFlag, fed, closed, fetched, sent, returned, back, put, shutDown, echoer, stream>>
forkCliVars == <<writer, reader, lines, half, echoed, peer, reset, stranger>>
countVars == <<callerAt, written, parentDo, caller, link, holders, childAt, counted, refusedTo, sigchld>>
daytimeVars == <<hostAt, visitor, conn, got, display, pieces, over>>
allVars == <<program, vars, sumVars, stdioVars, forkCliVars, countVars, daytimeVars>>

Programs == {"str_cli", "sum", "stdio", "fork", "count", "daytime"}

AllInit ==
  /\ program \in Programs
  /\ Init /\ TwoProcess!Init /\ Count!Init /\ Time!Init
  /\ Sum!Init /\ (program # "sum" => pair = "sum")
  /\ Stdio!Init /\ (program # "stdio" => version = 2)

Runs(x) ==
  /\ program = x /\ UNCHANGED program
  /\ (x # "str_cli" => UNCHANGED vars)
  /\ (x # "sum" => UNCHANGED sumVars)
  /\ (x # "stdio" => UNCHANGED stdioVars)
  /\ (x # "fork" => UNCHANGED forkCliVars)
  /\ (x # "count" => UNCHANGED countVars)
  /\ (x # "daytime" => UNCHANGED daytimeVars)

AllNext ==
  \/ Runs("str_cli") /\ Next
  \/ Runs("sum") /\ Sum!Next
  \/ Runs("stdio") /\ Stdio!Next
  \/ Runs("fork") /\ TwoProcess!Next
  \/ Runs("count") /\ Count!Next
  \/ Runs("daytime") /\ Time!Next

\* The fairness of each specification; in the initial state StrCli has no
\* step that must be taken, and its own fairness asks nothing of the others.
AllSpec ==
  /\ AllInit /\ [][AllNext]_allVars
  /\ Fairness
  /\ WF_sumVars(program = "sum" /\ Sum!Step)
  /\ WF_stdioVars(program = "stdio" /\ Stdio!ClientStep)
  /\ WF_forkCliVars(program = "fork" /\ TwoProcess!Step)
  /\ WF_countVars(program = "count" /\ Count!Step)
  /\ WF_daytimeVars(program = "daytime" /\ Time!Step)

-----------------------------------------------------------------------------
(* The properties of the smaller programs, put together by what they are   *)
(* about; each part is stated and explained in its own module.             *)

\* What a client takes for its answer: the sum that belongs to the request,
\* until a read() returns a part; the lines in order and without a gap, also
\* in parts; and as much of the time as the pieces it came in leave
\* (07/client.c:36, 05/client.c:34, 01/01-client.c:48).
AnswersTaken ==
  /\ Sum!TypesOK /\ Sum!AnswersRight /\ Sum!LinesInOrder
  /\ Time!TypesOK /\ Time!OneFieldAPiece

\* What the end of a client means: every line was written, and for str_cli_03()
\* every echo read; the parent of two processes is ended only after the last
\* echo, and no stranger in its place unless SIGPIPE came first; a caller that
\* ends normally was counted (07/client.c:89 and 122, 16/fork_strcli.c:28,
\* 15/tcp_unix_server.c:63).
EndMeansDone ==
  /\ Stdio!TypesOK /\ Stdio!EndsComplete
  /\ TwoProcess!TypesOK /\ TwoProcess!KillsLate /\ TwoProcess!StrangerSpared
  /\ Count!TypesOK /\ Count!NormalMeansCounted

\* What was asked is answered: each request of a stop-and-wait client, the
\* lines fgets() hides from select(), and every client of the daytime server
\* (07/client.c:36 and 89, 01/01-server.c:37).
AnswersCome == Sum!AskAnswered /\ Stdio!AllSent /\ Time!AllServed

\* Every process ends and is waited for: parent and child of the two-process
\* client, the callers of the local-socket server, and its children when
\* several end at once (16/fork_strcli.c:39, 15/tcp_unix_server.c:13 and 70).
ProcessesEnd == TwoProcess!BothEnd /\ Count!CallerEnds /\ Count!AllReaped
=============================================================================
