------------------------------- MODULE StdioCli -------------------------------
(***************************************************************************)
(* The two versions of src/07/client.c between str_cli_01() and str_cli(): *)
(* str_cli02(), which mixes select() with the buffer of fgets() and exits  *)
(* at the end of its input, and str_cli_03(), which reads stdineof before  *)
(* it is set.  Lines go to a server like str_echo() and come back.         *)
(***************************************************************************)
EXTENDS Naturals

CONSTANTS
  Entries,        \* bound: lines of input
  StdinWritable   \* TRUE: the input's descriptor can be written to

VARIABLES
  version,     \* 2 or 3
  cliAt,       \* select(), what the loop tests next, or how the client ended
  ready,       \* what select() reported
  eofFlag,     \* stdineof of str_cli_03(): 0, 1 or any other value
  fed, closed, \* lines put into the input, and whether it has ended
  fetched,     \* lines read from the descriptor
  sent,        \* lines passed to write(); str_cli02() holds the rest in its buffer
  returned,    \* echoes that have arrived
  back,        \* echoes read from the socket
  put,         \* echoes put out
  shutDown,    \* whether the client's end is shut down
  echoer,      \* the server: up, ended or killed
  stream       \* the server's end as the client's kernel knows it

stdioVars == <<version, cliAt, ready, eofFlag, fed, closed, fetched, sent, returned, back, put,
               shutDown, echoer, stream>>
feedVars == <<version, fed, closed>>
peerVars == <<returned, echoer>>
inputVars == <<eofFlag, fetched, sent, shutDown>>
outputVars == <<back, put>>

TypesOK ==
  /\ version \in {2, 3}
  /\ cliAt \in {"select", "socket", "input", "exit0", "exit1", "returned", "SIGPIPE"}
  /\ ready \subseteq {"socket", "input"}
  /\ eofFlag \in {0, 1, 2}
  /\ fed \in 0 .. Entries /\ closed \in BOOLEAN
  /\ fetched \in 0 .. fed /\ sent \in 0 .. fetched
  /\ returned \in 0 .. sent /\ back \in 0 .. returned /\ put \in 0 .. back
  /\ shutDown \in BOOLEAN
  /\ echoer \in {"up", "ended", "killed"}
  /\ stream \in {"open", "fin", "reset", "broken"}

Init ==
  /\ version \in {2, 3}
  /\ cliAt = "select" /\ ready = {}
  /\ eofFlag \in IF version = 2 THEN {0} ELSE {0, 1, 2}
  /\ fed = 0 /\ closed = FALSE
  /\ fetched = 0 /\ sent = 0 /\ returned = 0 /\ back = 0 /\ put = 0
  /\ shutDown = FALSE /\ echoer = "up" /\ stream = "open"

-----------------------------------------------------------------------------
(* What the two loops share.                                               *)

\* What select() knows of: the descriptor, not what fgets() has buffered.
Ready(x) ==
  \/ x = "socket" /\ (returned > back \/ stream # "open")
  \/ x = "input" /\ (fed > fetched \/ closed)

Selects ==
  /\ cliAt = "select"
  /\ ready' = {x \in {"socket"} \cup {y \in {"input"} : eofFlag = 0} : Ready(x)}
  /\ ready' # {}
  /\ cliAt' = IF "socket" \in ready' THEN "socket" ELSE "input"
  /\ UNCHANGED <<feedVars, peerVars, inputVars, outputVars, stream>>

\* All echoes that have arrived come with one read().
ReadsEchoes(v) ==
  /\ version = v /\ cliAt = "socket" /\ returned > back
  /\ back' = returned
  /\ cliAt' = IF "input" \in ready THEN "input" ELSE "select"
  /\ UNCHANGED <<feedVars, peerVars, inputVars, ready, stream>>

\* read() returns -1 once after a reset, which is not 0: str_cli02() puts out
\* what recvline held before, str_cli_03() passes -1 on to write(), which
\* refuses it.  No echo is among it, and the loop goes on.
ReadFails ==
  /\ cliAt = "socket" /\ returned = back /\ stream = "reset"
  /\ stream' = "broken"
  /\ cliAt' = IF "input" \in ready THEN "input" ELSE "select"
  /\ UNCHANGED <<feedVars, peerVars, inputVars, outputVars, ready>>

ReadReturns0(v) ==
  /\ version = v /\ cliAt = "socket" /\ returned = back /\ stream \in {"fin", "broken"}
  /\ UNCHANGED <<feedVars, peerVars, inputVars, outputVars, ready, stream>>

\* write() of the lines up to the n-th.  After a reset it is an error, once,
\* that nobody looks at, or SIGPIPE, and the lines are gone.
Write(n) ==
  /\ sent' = n
  /\ \/ stream \in {"open", "fin"} /\ cliAt' = "select" /\ UNCHANGED stream
     \/ stream = "reset" /\ cliAt' \in {"select", "SIGPIPE"} /\ stream' = "broken"
     \/ stream = "broken" /\ cliAt' = "SIGPIPE" /\ UNCHANGED stream

-----------------------------------------------------------------------------
(* str_cli02().                                                            *)

\* fputs(recvline, stdout).
PutsOut == ReadsEchoes(2) /\ put' = returned

ServerGone == ReadReturns0(2) /\ cliAt' = "exit1"

\* Mutants: what fgets() returned is not tested, and the line before is
\* written again; an empty descriptor ends str_cli02(), whatever is buffered.
FgetsUntested ==
  /\ version = 2 /\ cliAt = "input"
  /\ Write(sent + 1)
  /\ fetched' = IF fetched > sent THEN fetched ELSE fed
  /\ UNCHANGED <<feedVars, peerVars, outputVars, ready, eofFlag, shutDown>>

ExitsEarly ==
  /\ version = 2 /\ cliAt = "input"
  /\ IF fed > fetched
       THEN Write(sent + 1) /\ fetched' = fed
       ELSE cliAt' = "exit0" /\ UNCHANGED <<fetched, sent, stream>>
  /\ UNCHANGED <<feedVars, peerVars, outputVars, ready, eofFlag, shutDown>>

\* fgets() takes what the descriptor has only when its buffer is empty, and
\* returns one line of it, which is written.
Fgets ==
  /\ version = 2 /\ cliAt = "input"
  /\ LET held == IF fetched > sent THEN fetched ELSE fed
     IN  IF held > sent
           THEN Write(sent + 1) /\ fetched' = held
           ELSE cliAt' = "exit0" /\ UNCHANGED <<fetched, sent, stream>>
  /\ UNCHANGED <<feedVars, peerVars, outputVars, ready, eofFlag, shutDown>>

-----------------------------------------------------------------------------
(* str_cli_03().                                                           *)

\* The echoes go to fileno(fp), the descriptor of the input: on one that is
\* open for reading only the write() fails unseen.
WritesOut == ReadsEchoes(3) /\ put' = IF StdinWritable THEN returned ELSE put

\* The end of the stream is taken for the normal end if stdineof is 1, set or
\* not.
Terminates == ReadReturns0(3) /\ cliAt' = IF eofFlag = 1 THEN "returned" ELSE "exit1"

\* Mutant: the end of the input ends str_cli_03() as well.
ReturnsAtEnd ==
  /\ version = 3 /\ cliAt = "input"
  /\ IF fed > fetched
       THEN Write(fed) /\ fetched' = fed /\ UNCHANGED <<eofFlag, shutDown>>
       ELSE /\ cliAt' = "returned" /\ eofFlag' = 1 /\ shutDown' = TRUE
            /\ UNCHANGED <<fetched, sent, stream>>
  /\ UNCHANGED <<feedVars, peerVars, outputVars, ready>>

\* read() of the descriptor; at the end of the input shutdown(SHUT_WR).
ReadsInput ==
  /\ version = 3 /\ cliAt = "input"
  /\ IF fed > fetched
       THEN Write(fed) /\ fetched' = fed /\ UNCHANGED <<eofFlag, shutDown>>
       ELSE /\ cliAt' = "select" /\ eofFlag' = 1 /\ shutDown' = TRUE
            /\ UNCHANGED <<fetched, sent, stream>>
  /\ UNCHANGED <<feedVars, peerVars, outputVars, ready>>

-----------------------------------------------------------------------------
(* The user, the server and the network.                                   *)

Feeds ==
  /\ ~closed /\ fed < Entries
  /\ fed' \in fed + 1 .. Entries
  /\ UNCHANGED <<version, cliAt, ready, closed, peerVars, inputVars, outputVars, stream>>

EndsInput ==
  /\ ~closed
  /\ closed' = TRUE
  /\ UNCHANGED <<version, cliAt, ready, fed, peerVars, inputVars, outputVars, stream>>

Echoes ==
  /\ echoer = "up" /\ returned < sent
  /\ returned' = returned + 1
  /\ UNCHANGED <<feedVars, cliAt, ready, inputVars, outputVars, echoer, stream>>

EchoerEnds ==
  /\ echoer = "up"
  /\ echoer' \in {"killed"} \cup {x \in {"ended"} : shutDown /\ returned = sent}
  /\ UNCHANGED <<feedVars, cliAt, ready, inputVars, outputVars, returned, stream>>

FinComes ==
  /\ stream = "open" /\ echoer # "up"
  /\ stream' = "fin"
  /\ UNCHANGED <<feedVars, cliAt, ready, inputVars, outputVars, peerVars>>

\* A server that was killed with lines unread, or gets some afterwards, answers
\* with a reset.
ResetComes ==
  /\ stream \in {"open", "fin"} /\ echoer = "killed" /\ sent > returned
  /\ stream' = "reset"
  /\ UNCHANGED <<feedVars, cliAt, ready, inputVars, outputVars, peerVars>>

ClientStep ==
  \/ Selects \/ ReadFails
  \/ PutsOut \/ ServerGone \/ Fgets
  \/ WritesOut \/ Terminates \/ ReadsInput

Next == ClientStep \/ Feeds \/ EndsInput \/ Echoes \/ EchoerEnds \/ FinComes \/ ResetComes

Spec == Init /\ [][Next]_stdioVars /\ WF_stdioVars(ClientStep)

-----------------------------------------------------------------------------
(* Properties.                                                             *)

\* str_cli02() exits with 0 only when every line of its input was written,
\* those too that fgets() had taken out of select()'s sight (07/client.c:89).
\* str_cli_03() returns, unless the server was killed, only with the echo of
\* every line read, and put out where it can be (07/client.c:122 and 133).
EndsComplete ==
  /\ cliAt = "exit0" => closed /\ sent = fed
  /\ cliAt = "returned" =>
       \/ echoer = "killed"
       \/ closed /\ back = fed /\ (StdinWritable => put = fed)

\* A line select() cannot see because fgets() holds it is written at the latest
\* after the end of the input, unless the server was killed (07/client.c:87-91).
AllSent ==
  version = 2 /\ closed ~> sent = fed \/ echoer = "killed"
=============================================================================
