------------------------------ MODULE ForkStrCli ------------------------------
(***************************************************************************)
(* src/16/fork_strcli.c: a child copies the socket to the output and then  *)
(* ends its parent, which copies the input to the socket.  At the other    *)
(* end a line server as in src/07, which may be killed.                    *)
(***************************************************************************)
EXTENDS Naturals

CONSTANT Said   \* bound: lines of input

VARIABLES
  writer,     \* the parent: its next call, or how it ended
  reader,     \* the child
  lines,      \* the lines the parent has written
  half,       \* whether it has shut its end down
  echoed,     \* the lines the child has read and put out
  peer,       \* the server: up, ended, or killed
  reset,      \* whether a reset has reached the client
  stranger    \* whether the child's signal went to another process

forkCliVars == <<writer, reader, lines, half, echoed, peer, reset, stranger>>
socketVars == <<lines, half, echoed, peer, reset>>

TypesOK ==
  /\ writer \in {"fork", "fgets", "shutdown", "pause", "returned", "SIGTERM", "SIGPIPE"}
  /\ reader \in {"none", "read", "kill", "exited"}
  /\ lines \in 0 .. Said /\ echoed \in 0 .. lines
  /\ half \in BOOLEAN /\ reset \in BOOLEAN /\ stranger \in BOOLEAN
  /\ peer \in {"up", "ended", "killed"}

Init ==
  /\ writer = "fork" /\ reader = "none"
  /\ lines = 0 /\ half = FALSE /\ echoed = 0
  /\ peer = "up" /\ reset = FALSE /\ stranger = FALSE

\* A fork() that fails takes the path of the parent, and nobody reads.
Forks ==
  /\ writer = "fork"
  /\ writer' = "fgets"
  /\ reader' \in {"read", "none"}
  /\ UNCHANGED <<socketVars, stranger>>

\* After the first write() to a server that is gone comes a reset; the next
\* one is answered with SIGPIPE.
Writes ==
  /\ writer = "fgets" /\ lines < Said
  /\ IF reset
       THEN writer' = "SIGPIPE" /\ UNCHANGED <<lines, reset>>
       ELSE lines' = lines + 1 /\ reset' \in {FALSE, peer # "up"} /\ UNCHANGED writer
  /\ UNCHANGED <<reader, half, echoed, peer, stranger>>

InputEnds ==
  /\ writer = "fgets"
  /\ writer' = "shutdown"
  /\ UNCHANGED <<reader, socketVars, stranger>>

\* Mutants: the parent returns without pause(), and the program ends; it
\* forgets shutdown().
Returns ==
  /\ writer = "shutdown"
  /\ half' = TRUE
  /\ writer' = "returned"
  /\ UNCHANGED <<reader, lines, echoed, peer, reset, stranger>>

ShutdownMissing ==
  /\ writer = "shutdown"
  /\ writer' = "pause"
  /\ UNCHANGED <<reader, socketVars, stranger>>

\* pause() returns after a signal only, and SIGTERM is not caught.
ShutsDown ==
  /\ writer = "shutdown"
  /\ half' = TRUE
  /\ writer' = "pause"
  /\ UNCHANGED <<reader, lines, echoed, peer, reset, stranger>>

\* What is read is put out up to a zero, and recvline holds none at its end:
\* what is put out after the lines is left out here.  Echoes that have arrived
\* when the server is killed are taken as read before.
Echoes ==
  /\ reader = "read" /\ echoed < lines /\ peer # "killed"
  /\ echoed' = echoed + 1
  /\ UNCHANGED <<writer, reader, lines, half, peer, reset, stranger>>

\* Mutant: the end of the input ends the child as well.
ReadStops ==
  /\ reader = "read" /\ (half \/ peer # "up")
  /\ reader' = "kill"
  /\ UNCHANGED <<writer, socketVars, stranger>>

\* The end of the stream, and after a kill also an error.
ReadEnds ==
  /\ reader = "read"
  /\ \/ peer = "ended" /\ echoed = lines
     \/ peer = "killed"
  /\ reader' = "kill"
  /\ UNCHANGED <<writer, socketVars, stranger>>

\* kill(getppid(), SIGTERM): without its parent the child has another one.
Kills ==
  /\ reader = "kill"
  /\ reader' = "exited"
  /\ IF writer \in {"returned", "SIGPIPE"}
       THEN stranger' = TRUE /\ UNCHANGED writer
       ELSE writer' = "SIGTERM" /\ UNCHANGED stranger
  /\ UNCHANGED socketVars

PeerEnds ==
  /\ peer = "up" /\ half
  /\ peer' = "ended"
  /\ UNCHANGED <<writer, reader, lines, half, echoed, reset, stranger>>

PeerKilled ==
  /\ peer = "up"
  /\ peer' = "killed"
  /\ UNCHANGED <<writer, reader, lines, half, echoed, reset, stranger>>

Step == Forks \/ ShutsDown \/ Echoes \/ ReadEnds \/ Kills \/ PeerEnds

Next == Step \/ Writes \/ InputEnds \/ PeerKilled

\* Both processes run, and a server that is not killed answers and ends.
Spec == Init /\ [][Next]_forkCliVars /\ WF_forkCliVars(Step)

-----------------------------------------------------------------------------
(* Properties.                                                             *)

\* The child ends its parent only when every line was echoed and the input is
\* at its end, or the server was killed.
KillsLate ==
  reader \in {"kill", "exited"} /\ peer # "killed" => half /\ echoed = lines

\* The signal meant for the parent goes to another process only if SIGPIPE
\* has ended the parent before.
StrangerSpared == stranger => writer = "SIGPIPE"

\* With a child the end of the input, or of the server, ends both processes.
BothEnd ==
  writer = "pause" \/ peer = "killed"
    ~> (reader = "exited" /\ writer \in {"SIGTERM", "SIGPIPE"}) \/ (writer # "fork" /\ reader = "none")
=============================================================================
