----------------------------- MODULE ForkServer -----------------------------
(***************************************************************************)
(* The concurrent echo server of src/07/server.c, functions main01(),      *)
(* str_echo() and sig_chld(): the parent accepts, one child per connection *)
(* echoes, and a SIGCHLD handler reaps the children that ended.            *)
(*                                                                         *)
(* A child is named by the connection it serves.  The handler runs between *)
(* any two steps of the parent, or interrupts accept(), and the parent     *)
(* stands still while it runs.                                             *)
(***************************************************************************)
EXTENDS TcpNet

CONSTANTS
  BUF,           \* sizeof(buf) in str_echo()
  NoConn,        \* the parent's connfd is closed
  Builds,        \* what signal() may be: "bsd" (glibc's default) or "sysv"
  AcceptErrors,  \* TRUE: accept() may fail for want of system resources
  ForkErrors,    \* TRUE: fork() may fail
  Readers        \* the clients that go on reading what they are sent

ASSUME ForkAssumption ==
  /\ BUF \in Nat \ {0}
  /\ NoConn \notin Conns
  /\ Builds \subseteq {"bsd", "sysv"}
  /\ AcceptErrors \in BOOLEAN /\ ForkErrors \in BOOLEAN
  /\ Readers \subseteq Conns

VARIABLES
  pc,       \* where the parent is in its loop
  handler,  \* whether it is in sig_chld()
  connfd,   \* the connection the parent has a descriptor of
  errno,    \* the parent's errno
  sigchld,  \* whether a SIGCHLD is pending; signals do not queue
  installed, \* whether sig_chld() is the disposition of SIGCHLD
  build,    \* the signal() the program was built with
  child,    \* what each connection's child does
  buf       \* its buffer: bytes read and not yet written back

parentVars == <<pc, handler, connfd, errno>>
childVars == <<child, buf>>
signalVars == <<sigchld, installed, build>>
serverVars == <<parentVars, signalVars, childVars>>
vars == <<netVars, serverVars>>

TypeOK ==
  /\ NetTypeOK
  /\ pc \in {"accept", "check", "fork", "close", "ended"}
  /\ handler \in BOOLEAN
  /\ connfd \in Conns \cup {NoConn}
  /\ errno \in {"EINTR", "ECHILD", "other"}
  /\ sigchld \in BOOLEAN /\ installed \in BOOLEAN
  /\ build \in Builds
  /\ child \in [Conns -> {"none", "start", "read", "write", "zombie", "gone"}]
  /\ buf \in [Conns -> Seq(Byte)]

Init ==
  /\ NetInit
  /\ pc = "accept"
  /\ handler = FALSE
  /\ connfd = NoConn
  /\ errno = "other"
  /\ sigchld = FALSE
  /\ installed = TRUE
  /\ build \in Builds
  /\ child = [c \in Conns |-> "none"]
  /\ buf = [c \in Conns |-> << >>]

-----------------------------------------------------------------------------
(* The parent.                                                             *)

Parent(at) == pc = at /\ ~handler

\* Processes with a descriptor of connection c, of the listening socket, and
\* children that have not been reaped.
Alive(c) == child[c] \in {"start", "read", "write"}
Zombies == {c \in Conns : child[c] = "zombie"}

AcceptReturns ==
  /\ Parent("accept") /\ backlog # << >>
  /\ connfd' = Head(backlog)
  /\ TakeFromBacklog(Head(backlog))
  /\ pc' = "fork"
  /\ UNCHANGED <<handler, errno, signalVars, childVars>>

AcceptFails ==
  /\ Parent("accept") /\ AcceptErrors
  /\ errno' = "other"
  /\ pc' = "check"
  /\ UNCHANGED <<netVars, handler, connfd, signalVars, childVars>>

\* Any other errno than EINTR ends the loop and the process.  Its zombies go
\* to init; the queue lives on in children yet to close the listening socket.
ParentEnds ==
  /\ pc' = "ended"
  /\ IF \E c \in Conns : child[c] = "start" THEN UNCHANGED netVars ELSE ListeningEnds
  /\ child' = [c \in Conns |-> IF c \in Zombies THEN "gone" ELSE child[c]]
  /\ UNCHANGED <<handler, connfd, errno, signalVars, buf>>

\* Mutant: no test for EINTR, any -1 ends the loop.
EndsOnError ==
  /\ Parent("check")
  /\ ParentEnds

CheckErrno ==
  /\ Parent("check")
  /\ IF errno = "EINTR"
       THEN pc' = "accept" /\ UNCHANGED <<netVars, handler, connfd, errno, signalVars, childVars>>
       ELSE ParentEnds

Fork ==
  /\ Parent("fork")
  /\ child' = [child EXCEPT ![connfd] = "start"]
  /\ pc' = "close"
  /\ UNCHANGED <<netVars, handler, connfd, errno, signalVars, buf>>

\* The -1 of fork() is not 0 either: the parent goes on to close(connfd).
ForkFails ==
  /\ Parent("fork") /\ ForkErrors
  /\ pc' = "close"
  /\ UNCHANGED <<netVars, handler, connfd, errno, signalVars, childVars>>

\* Mutant: the parent does not close its descriptor of the connection.
CloseMissing ==
  /\ Parent("close")
  /\ connfd' = NoConn
  /\ pc' = "accept"
  /\ UNCHANGED <<netVars, handler, errno, signalVars, childVars>>

\* close(connfd) ends the connection if the child has gone already.
CloseConn ==
  /\ Parent("close")
  /\ IF Alive(connfd) THEN UNCHANGED netVars ELSE ServerCloses(connfd)
  /\ connfd' = NoConn
  /\ pc' = "accept"
  /\ UNCHANGED <<handler, errno, signalVars, childVars>>

ParentStep ==
  AcceptReturns \/ AcceptFails \/ CheckErrno \/ Fork \/ ForkFails \/ CloseConn

-----------------------------------------------------------------------------
(* sig_chld().                                                             *)

\* Mutant: sig_chld() calls signal() again, so that it stays installed.
Reinstalls ==
  /\ sigchld /\ ~handler /\ pc # "ended"
  /\ sigchld' = FALSE
  /\ handler' = TRUE
  /\ UNCHANGED <<netVars, pc, connfd, errno, installed, build, childVars>>

\* System V's signal() is for one delivery: the next SIGCHLD finds the default
\* disposition, for sig_chld() does not call signal() again.
HandlerEnters ==
  /\ sigchld /\ ~handler /\ pc # "ended"
  /\ sigchld' = FALSE
  /\ handler' = TRUE
  /\ installed' = (build = "bsd")
  /\ UNCHANGED <<netVars, pc, connfd, errno, build, childVars>>

\* Mutant: one call of wait() in the place of the loop (line 66).
WaitsOnce ==
  /\ handler
  /\ \E c \in Zombies : child' = [child EXCEPT ![c] = "gone"]
  /\ handler' = FALSE
  /\ UNCHANGED <<netVars, pc, connfd, errno, signalVars, buf>>

\* waitpid() reaps some child that ended.
Reap ==
  /\ handler
  /\ \E c \in Zombies : child' = [child EXCEPT ![c] = "gone"]
  /\ UNCHANGED <<netVars, parentVars, signalVars, buf>>

\* BSD's signal() restarts a blocked accept(); System V's lets it come back
\* with EINTR, which the C library stores in errno after the handler has run.
Interrupted ==
  /\ pc = "accept" /\ build = "sysv"
  /\ pc' = "check"
  /\ errno' = "EINTR"

\* waitpid() finds nothing: 0 while children run, -1 with ECHILD when there
\* are none, and the parent goes on.
HandlerReturns ==
  /\ handler /\ Zombies = {}
  /\ handler' = FALSE
  /\ \/ Interrupted
     \/ /\ errno' = IF \E c \in Conns : Alive(c) THEN errno ELSE "ECHILD"
        /\ UNCHANGED pc
  /\ UNCHANGED <<netVars, connfd, signalVars, childVars>>

HandlerStep == HandlerEnters \/ Reap \/ HandlerReturns

-----------------------------------------------------------------------------
(* The child of connection c.                                              *)

\* close(listenfd).
ChildStarts(c) ==
  /\ child[c] = "start"
  /\ child' = [child EXCEPT ![c] = "read"]
  /\ IF pc = "ended" /\ \A d \in Conns \ {c} : child[d] # "start"
       THEN ListeningEnds ELSE UNCHANGED netVars
  /\ UNCHANGED <<parentVars, signalVars, buf>>

\* exit(0), or death by SIGPIPE.  The connection ends unless the parent holds
\* it too; a SIGCHLD that finds no handler is dropped.
Exits(c) ==
  /\ child' = [child EXCEPT ![c] = IF pc = "ended" THEN "gone" ELSE "zombie"]
  /\ sigchld' = (pc # "ended" /\ installed)
  /\ UNCHANGED <<installed, build>>
  /\ IF connfd = c THEN UNCHANGED netVars ELSE ServerCloses(c)
  /\ buf' = [buf EXCEPT ![c] = << >>]

\* Mutant: what read() returned is taken for sizeof(buf).
ReadFull(c) ==
  /\ child[c] = "read" /\ Unread(c) > 0
  /\ buf' = [buf EXCEPT ![c] = [k \in 1 .. BUF |-> <<c, got[c] + k>>]]
  /\ Consume(c, BUF)
  /\ child' = [child EXCEPT ![c] = "write"]
  /\ UNCHANGED <<parentVars, signalVars>>

\* Mutant: the connections are served one at a time, as by a parent that calls
\* str_echo() itself.
ReadInTurn(c) ==
  /\ child[c] = "read" /\ Unread(c) > 0
  /\ \A d \in Conns : child[d] # "write"
  /\ buf' = [buf EXCEPT ![c] = Chunk(c, BUF)]
  /\ Consume(c, Len(buf'[c]))
  /\ child' = [child EXCEPT ![c] = "write"]
  /\ UNCHANGED <<parentVars, signalVars>>

\* The terminating zero goes to buf[n], one byte past a full buffer; nothing
\* modelled depends on that byte.
ReadData(c) ==
  /\ child[c] = "read" /\ Unread(c) > 0
  /\ buf' = [buf EXCEPT ![c] = Chunk(c, BUF)]
  /\ Consume(c, Len(buf'[c]))
  /\ child' = [child EXCEPT ![c] = "write"]
  /\ UNCHANGED <<parentVars, signalVars>>

\* read() returns 0, or -1 with an errno other than EINTR (no signal is sent
\* to a child): str_echo() returns and the child ends.
ReadEnd(c) ==
  /\ child[c] = "read" /\ Unread(c) = 0 /\ Readable(c)
  /\ Exits(c)
  /\ UNCHANGED parentVars

\* Mutant: what a short write() left over is forgotten.
ShortWrite(c) ==
  /\ child[c] = "write" /\ ~rst[c]
  /\ LET n == Smaller(Room(c), Len(buf[c])) IN
       /\ n > 0
       /\ Deliver(c, SubSeq(buf[c], 1, n))
  /\ buf' = [buf EXCEPT ![c] = << >>]
  /\ child' = [child EXCEPT ![c] = "read"]
  /\ UNCHANGED <<parentVars, signalVars>>

\* write() blocks until everything is handed over; it moves what fits.
WriteSome(c) ==
  /\ child[c] = "write" /\ ~rst[c]
  /\ LET n == Smaller(Room(c), Len(buf[c])) IN
       /\ n > 0
       /\ Deliver(c, SubSeq(buf[c], 1, n))
       /\ buf' = [buf EXCEPT ![c] = SubSeq(@, n + 1, Len(@))]
  /\ child' = [child EXCEPT ![c] = IF buf'[c] = << >> THEN "read" ELSE "write"]
  /\ UNCHANGED <<parentVars, signalVars>>

\* write() on a connection that was reset: SIGPIPE, or ECONNRESET unseen.
WriteFails(c) ==
  /\ child[c] = "write" /\ rst[c]
  /\ \/ Exits(c)
     \/ /\ buf' = [buf EXCEPT ![c] = << >>]
        /\ child' = [child EXCEPT ![c] = "read"]
        /\ UNCHANGED <<netVars, signalVars>>
  /\ UNCHANGED parentVars

ChildStep(c) ==
  ChildStarts(c) \/ ReadData(c) \/ ReadEnd(c) \/ WriteSome(c) \/ WriteFails(c)

-----------------------------------------------------------------------------
PeerStep ==
  /\ \E c \in Conns : ClientStep(c)
  /\ UNCHANGED serverVars

Next == ParentStep \/ HandlerStep \/ (\E c \in Conns : ChildStep(c)) \/ PeerStep

Peer(A) == A /\ UNCHANGED serverVars

\* Every process is scheduled whenever its call can return, and a pending
\* signal is delivered.  Nothing makes a call fail, and clients outside
\* Readers need not read.
Fairness ==
  /\ WF_vars(AcceptReturns \/ CheckErrno \/ Fork \/ CloseConn)
  /\ WF_vars(HandlerStep)
  /\ \A c \in Conns : WF_vars(ChildStep(c)) /\ WF_vars(Peer(ResetArrives(c)))
  /\ \A c \in Readers : WF_vars(Peer(ClientReads(c)))

Spec == Init /\ [][Next]_vars /\ Fairness

-----------------------------------------------------------------------------
(* Properties.                                                             *)

\* A connection is open as long as a process has a descriptor of it: the
\* reference counts come out right in whatever order parent and child close.
HoldersAgree ==
  \A c \in Conns : life[c] = "open" <=> connfd = c \/ Alive(c)

\* What is sent back is what was sent, in order and once; what a child read
\* and has not sent back is in its buffer, unless the connection was reset.
EchoFaithful ==
  \A c \in Conns :
    /\ echo[c] = [k \in 1 .. Len(echo[c]) |-> <<c, k>>]
    /\ rst[c] \/ buf[c] = [k \in 1 .. got[c] - Len(echo[c]) |-> <<c, Len(echo[c]) + k>>]

\* No child that ended under the handler stays a zombie for ever, although the
\* signals of children that end together merge into one (07/server.c:67, the
\* loop around waitpid()).
ZombiesReaped ==
  \A c \in Conns : child[c] = "zombie" /\ installed ~> child[c] = "gone"

\* A client that reads gets its echoes from its child whatever the others
\* do, and even after the parent ended.
ReadersServed ==
  \A c \in Readers : \A k \in 1 .. MaxBytes :
    Alive(c) /\ sent[c] >= k ~> Len(echo[c]) >= k \/ half[c] = "gone"

\* The end of a child does not end the parent's loop, also where it interrupts
\* accept() and the handler's waitpid() has found no child (07/server.c:67,
\* 97-110): the errno that line 101 tests is accept()'s, never the handler's.
ParentSurvives == pc # "ended"

\* The processes together implement the abstract echo service.
Echo == INSTANCE EchoService WITH
          Conns <- Conns, MaxBytes <- MaxBytes,
          life <- life, sent <- sent, half <- half, rst <- rst, echo <- echo

ImplementsEcho == Echo!Spec
=============================================================================
