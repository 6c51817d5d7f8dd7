-------------------------------- MODULE Daemon --------------------------------
(***************************************************************************)
(* src/13/daemon_init.c: daemonize() forks twice, with a new session in    *)
(* between, and puts /dev/null on descriptors 0 to 2.  The terminal it was *)
(* started from may hang up at any time.                                   *)
(***************************************************************************)
EXTENDS Naturals

VARIABLES
  process,   \* each process: none, its next call, or how it ended
  session,   \* the session of each: that of the terminal, or a new one
  fds,       \* what the descriptors 0 to 2 of the daemon are open on
  opened,    \* how many of the three open() calls were made
  broken     \* history: a fork() or an open() failed, or the terminal hung up

daemonVars == <<process, session, fds, opened, broken>>

\* The process that is started, its child and its grandchild.
Processes == {"launcher", "leader", "daemon"}
Child == [launcher |-> "leader", leader |-> "daemon"]

TypesOK ==
  /\ process \in [Processes -> {"none", "fork", "setsid", "exit", "close", "open", "log",
                                "done", "failed", "hungUp"}]
  /\ session \in [Processes -> {"terminal", "new"}]
  /\ fds \in [0 .. 2 -> {"terminal", "closed", "null"}]
  /\ opened \in 0 .. 3
  /\ broken \in BOOLEAN

Init ==
  /\ process = [p \in Processes |-> IF p = "launcher" THEN "fork" ELSE "none"]
  /\ session = [p \in Processes |-> "terminal"]
  /\ fds = [d \in 0 .. 2 |-> "terminal"]
  /\ opened = 0
  /\ broken = FALSE

\* Mutant: the results of fork() are taken the wrong way round.
ChildEnds(p) ==
  /\ process[p] = "fork"
  /\ process' = [process EXCEPT ![p] = "setsid", ![Child[p]] = "exit"]
  /\ session' = [session EXCEPT ![Child[p]] = session[p]]
  /\ UNCHANGED <<fds, opened, broken>>

\* The child goes on where fork() returns 0.
Forks(p) ==
  /\ process[p] = "fork"
  /\ process' = [process EXCEPT ![p] = "exit",
                                ![Child[p]] = IF p = "launcher" THEN "setsid" ELSE "close"]
  /\ session' = [session EXCEPT ![Child[p]] = session[p]]
  /\ UNCHANGED <<fds, opened, broken>>

ForkFails(p) ==
  /\ process[p] = "fork"
  /\ process' = [process EXCEPT ![p] = "failed"]
  /\ broken' = TRUE
  /\ UNCHANGED <<session, fds, opened>>

Exits(p) ==
  /\ process[p] = "exit"
  /\ process' = [process EXCEPT ![p] = "done"]
  /\ UNCHANGED <<session, fds, opened, broken>>

\* Mutant: no new session.
StaysInSession ==
  /\ process["leader"] = "setsid"
  /\ process' = [process EXCEPT !["leader"] = "fork"]
  /\ UNCHANGED <<session, fds, opened, broken>>

\* A forked child leads no process group, so setsid() succeeds.
SetsSession ==
  /\ process["leader"] = "setsid"
  /\ session' = [session EXCEPT !["leader"] = "new"]
  /\ process' = [process EXCEPT !["leader"] = "fork"]
  /\ UNCHANGED <<fds, opened, broken>>

\* Mutant: the descriptors are not closed first.
ClosesNothing ==
  /\ process["daemon"] = "close"
  /\ process' = [process EXCEPT !["daemon"] = "open"]
  /\ UNCHANGED <<session, fds, opened, broken>>

Closes ==
  /\ process["daemon"] = "close"
  /\ fds' = [d \in 0 .. 2 |-> "closed"]
  /\ process' = [process EXCEPT !["daemon"] = "open"]
  /\ UNCHANGED <<session, opened, broken>>

\* open() takes the lowest free descriptor; that it may fail is not looked at.
Opens ==
  /\ process["daemon"] = "open"
  /\ LET free == {d \in 0 .. 2 : fds[d] = "closed"}
     IN  \/ /\ fds' = [d \in 0 .. 2 |-> IF d \in free /\ \A e \in free : d <= e
                                          THEN "null" ELSE fds[d]]
            /\ UNCHANGED broken
         \/ UNCHANGED fds /\ broken' = TRUE
  /\ opened' = opened + 1
  /\ process' = [process EXCEPT !["daemon"] = IF opened = 2 THEN "log" ELSE "open"]
  /\ UNCHANGED session

\* SIGHUP ends every process in the session of the terminal.
HangsUp ==
  /\ process' = [p \in Processes |->
                   IF session[p] = "terminal" /\ process[p] \notin {"none", "done", "failed"}
                     THEN "hungUp" ELSE process[p]]
  /\ broken' = TRUE
  /\ UNCHANGED <<session, fds, opened>>

Step ==
  \/ \E p \in DOMAIN Child : Forks(p) \/ Exits(p)
  \/ SetsSession \/ Closes \/ Opens

Next == Step \/ (\E p \in DOMAIN Child : ForkFails(p)) \/ HangsUp

Spec == Init /\ [][Next]_daemonVars /\ WF_daemonVars(Step)

-----------------------------------------------------------------------------
(* Properties.                                                             *)

\* Whatever happens on the way, a daemon that logs has no way back to the
\* terminal: it is in the new session, does not lead it, and has no
\* descriptor of the terminal's; unless something failed it has /dev/null on
\* all three.
Detached ==
  process["daemon"] = "log" =>
    /\ session["daemon"] = "new"
    /\ \A d \in 0 .. 2 : fds[d] # "terminal" /\ (~broken => fds[d] = "null")

\* The launcher reports success before the daemon exists: only if nothing
\* fails, and the terminal stays until setsid(), does success mean a daemon.
Started == process["launcher"] = "done" ~> process["daemon"] = "log" \/ broken

\* A daemon that has its session survives the terminal.
Survives == process["leader"] = "fork" ~> process["daemon"] = "log" \/ process["leader"] = "failed"
=============================================================================
