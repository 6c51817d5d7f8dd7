------------------------------ MODULE UnixCount ------------------------------
(***************************************************************************)
(* src/15: tcp_unix_server.c accepts on a local socket and runs wc -l on   *)
(* each connection in a child of its own; tcp_unix_client.c sends its      *)
(* input with the str_cli() of src/07 and half-closes.  The count goes to  *)
(* the server's output: the client gets nothing but the end.               *)
(***************************************************************************)
EXTENDS Naturals

CONSTANTS
  Callers,
  CallerLines   \* bound: lines a caller sends

VARIABLES
  callerAt,   \* each caller: its next call, or how it ended
  written,    \* the lines each has sent
  parentDo,   \* the parent's next call
  caller,     \* the connection it works on
  link,       \* each connection: none, in the backlog, or accepted
  holders,    \* the processes of the server that have it open
  childAt,    \* the child of each connection
  counted,    \* history: the lines wc counted
  refusedTo,  \* history: the connections fork() or execlp() failed for
  sigchld     \* whether a SIGCHLD is pending

countVars == <<callerAt, written, parentDo, caller, link, holders, childAt, counted, refusedTo, sigchld>>
callerVars == <<callerAt, written>>
childVars == <<childAt, counted, refusedTo, sigchld>>
parentVars == <<parentDo, caller>>

TypesOK ==
  /\ callerAt \in [Callers -> {"connect", "input", "shut", "normal", "early", "killed", "astray"}]
  /\ written \in [Callers -> 0 .. CallerLines]
  /\ parentDo \in {"setup", "accept", "fork", "close", "exit1"}
  /\ caller \in Callers
  /\ link \in [Callers -> {"none", "backlog", "accepted"}]
  /\ holders \in [Callers -> SUBSET {"parent", "child"}]
  /\ childAt \in [Callers -> {"none", "exec", "wc", "zombie", "reaped"}]
  /\ counted \in [Callers -> 0 .. CallerLines]
  /\ refusedTo \subseteq Callers
  /\ sigchld \in BOOLEAN

Init ==
  /\ callerAt = [c \in Callers |-> "connect"] /\ written = [c \in Callers |-> 0]
  /\ parentDo = "setup" /\ caller = CHOOSE c \in Callers : TRUE
  /\ link = [c \in Callers |-> "none"] /\ holders = [c \in Callers |-> {}]
  /\ childAt = [c \in Callers |-> "none"] /\ counted = [c \in Callers |-> 0]
  /\ refusedTo = {} /\ sigchld = FALSE

Listening == parentDo \notin {"setup", "exit1"}

Dead(c) == link[c] = "accepted" /\ holders[c] = {}

-----------------------------------------------------------------------------
(* The callers.                                                            *)

\* The result of connect() is not looked at; without a connection the client
\* spins, because read() fails and select() reports the socket at once.
Connects(c) ==
  /\ callerAt[c] = "connect"
  /\ callerAt' = [callerAt EXCEPT ![c] = IF Listening THEN "input" ELSE "astray"]
  /\ link' = [link EXCEPT ![c] = IF Listening THEN "backlog" ELSE "none"]
  /\ UNCHANGED <<written, parentVars, holders, childVars>>

\* A line is read and written; the first one after the server's end is fatal.
SendsLine(c) ==
  /\ callerAt[c] = "input" /\ written[c] < CallerLines
  /\ IF Dead(c)
       THEN callerAt' = [callerAt EXCEPT ![c] = "killed"] /\ UNCHANGED written
       ELSE written' = [written EXCEPT ![c] = @ + 1] /\ UNCHANGED callerAt
  /\ UNCHANGED <<parentVars, link, holders, childVars>>

InputEnds(c) ==
  /\ callerAt[c] = "input"
  /\ callerAt' = [callerAt EXCEPT ![c] = "shut"]
  /\ UNCHANGED <<written, parentVars, link, holders, childVars>>

SeesEnd(c) ==
  /\ callerAt[c] \in {"input", "shut"} /\ Dead(c)
  /\ callerAt' = [callerAt EXCEPT ![c] = IF @ = "shut" THEN "normal" ELSE "early"]
  /\ UNCHANGED <<written, parentVars, link, holders, childVars>>

-----------------------------------------------------------------------------
(* The server.                                                             *)

\* socket(), bind() or listen() may fail, which ends the server.
Listens ==
  /\ parentDo = "setup"
  /\ parentDo' \in {"accept", "exit1"}
  /\ UNCHANGED <<callerVars, caller, link, holders, childVars>>

\* An accept() that fails is tried again at once.
Accepts(c) ==
  /\ parentDo = "accept" /\ link[c] = "backlog"
  /\ link' = [link EXCEPT ![c] = "accepted"]
  /\ holders' = [holders EXCEPT ![c] = {"parent"}]
  /\ caller' = c /\ parentDo' = "fork"
  /\ UNCHANGED <<callerVars, childVars>>

\* A fork() that fails takes the path of the parent.
Forks ==
  /\ parentDo = "fork"
  /\ parentDo' = "close"
  /\ \/ /\ childAt' = [childAt EXCEPT ![caller] = "exec"]
        /\ holders' = [holders EXCEPT ![caller] = @ \cup {"child"}]
        /\ UNCHANGED refusedTo
     \/ /\ refusedTo' = refusedTo \cup {caller}
        /\ UNCHANGED <<childAt, holders>>
  /\ UNCHANGED <<callerVars, caller, link, counted, sigchld>>

\* Mutants: connfd stays open in the parent; it is shut down for all.
CloseMissing ==
  /\ parentDo = "close"
  /\ parentDo' = "accept"
  /\ UNCHANGED <<callerVars, caller, link, holders, childVars>>

ShutsDown ==
  /\ parentDo = "close"
  /\ holders' = [holders EXCEPT ![caller] = {}]
  /\ parentDo' = "accept"
  /\ UNCHANGED <<callerVars, caller, link, childVars>>

Closes ==
  /\ parentDo = "close"
  /\ holders' = [holders EXCEPT ![caller] = @ \ {"parent"}]
  /\ parentDo' = "accept"
  /\ UNCHANGED <<callerVars, caller, link, childVars>>

\* The process ends: its descriptors are closed, and the parent is told.
Ends(c) ==
  /\ childAt' = [childAt EXCEPT ![c] = "zombie"]
  /\ holders' = [holders EXCEPT ![c] = @ \ {"child"}]
  /\ sigchld' = TRUE

Execs(c) ==
  /\ childAt[c] = "exec"
  /\ \/ childAt' = [childAt EXCEPT ![c] = "wc"] /\ UNCHANGED <<holders, sigchld, refusedTo>>
     \/ Ends(c) /\ refusedTo' = refusedTo \cup {c}
  /\ UNCHANGED <<callerVars, parentVars, link, counted>>

\* wc counts to the end of the stream, which is the caller's shutdown() or end.
Counts(c) ==
  /\ childAt[c] = "wc" /\ callerAt[c] # "input"
  /\ counted' = [counted EXCEPT ![c] = written[c]]
  /\ Ends(c)
  /\ UNCHANGED <<callerVars, parentVars, link, refusedTo>>

\* Mutant: one waitpid() for each signal.
ReapsOne ==
  /\ sigchld
  /\ \E c \in Callers :
       childAt[c] = "zombie" /\ childAt' = [childAt EXCEPT ![c] = "reaped"]
  /\ sigchld' = FALSE
  /\ UNCHANGED <<callerVars, parentVars, link, holders, counted, refusedTo>>

\* Signals that come together are one; the handler takes all there are.
sigchld_handler ==
  /\ sigchld
  /\ childAt' = [c \in Callers |-> IF childAt[c] = "zombie" THEN "reaped" ELSE childAt[c]]
  /\ sigchld' = FALSE
  /\ UNCHANGED <<callerVars, parentVars, link, holders, counted, refusedTo>>

Step ==
  \/ \E c \in Callers : SeesEnd(c) \/ Accepts(c) \/ Execs(c) \/ Counts(c)
  \/ Listens \/ Forks \/ Closes \/ sigchld_handler

Next == Step \/ \E c \in Callers : Connects(c) \/ SendsLine(c) \/ InputEnds(c)

\* The server's processes run, and each does a bounded amount of work.
Spec == Init /\ [][Next]_countVars /\ WF_countVars(Step)

-----------------------------------------------------------------------------
(* Properties.                                                             *)

\* A caller that ends normally was counted to its last line, unless fork() or
\* execlp() failed, of which it is told nothing; only then does the server's
\* end surprise a caller.
NormalMeansCounted ==
  \A c \in Callers \ refusedTo :
    /\ callerAt[c] = "normal" => childAt[c] \in {"zombie", "reaped"} /\ counted[c] = written[c]
    /\ callerAt[c] \notin {"early", "killed"}

\* A caller that ends its input ends, whatever failed in the server.
CallerEnds == \A c \in Callers : callerAt[c] = "shut" ~> callerAt[c] = "normal"

\* No child stays a zombie, also when several end at once.
AllReaped == \A c \in Callers : childAt[c] = "zombie" ~> childAt[c] = "reaped"
=============================================================================
