-------------------------- MODULE ForkServerProofs --------------------------
(***************************************************************************)
(* What holds of ForkServer for every number of clients and bytes: the     *)
(* descriptors of parent and children, the bytes, and that the processes   *)
(* together are an echo service.  The handler never touches a connection,  *)
(* so the invariants say nothing of signals.                               *)
(***************************************************************************)
EXTENDS ForkServer, TcpNetProofs

\* The variables of the signal are told apart only where it is delivered.
USE DEF signalVars

\* The parent holds a connection exactly between accept() and close(), and
\* forks only for one that has had no child.
ParentAgrees ==
  /\ pc \in {"fork", "close"} <=> connfd # NoConn
  /\ pc = "fork" => child[connfd] = "none"

\* A connection not yet accepted has had no child either.
NoChildYet == \A c \in Conns : life[c] \in {"new", "queued"} => child[c] = "none"

\* The inductive invariant about processes and descriptors.
IInv ==
  /\ TypeOK
  /\ QueueAgrees
  /\ ParentAgrees
  /\ NoChildYet
  /\ HoldersAgree

\* A child calls read() with nothing left to write.
EmptyHanded == \A c \in Conns : child[c] # "write" => buf[c] = << >>

\* The inductive invariant about the bytes.
EInv == CountsAgree /\ EchoFaithful /\ EmptyHanded

\* A child that ended had served its client to the end, or lost it.
EndedServed ==
  \A c \in Conns : child[c] \in {"zombie", "gone"} =>
    half[c] # "open" /\ (rst[c] \/ Len(echo[c]) = sent[c])

\* Where fork() does not fail the parent closes what it has handed over.
HandedOver == pc = "close" => child[connfd] # "none"

-----------------------------------------------------------------------------
(* Processes and descriptors: the environment and the parent.              *)

LEMMA PeerKeeps ==
  ASSUME IInv, PeerStep
  PROVE  IInv'
<1>1. PICK c \in Conns : ClientStep(c)
  BY DEF PeerStep
<1>2. UNCHANGED <<pc, handler, connfd, errno, signalVars, child, buf>>
  BY DEF PeerStep, serverVars, parentVars, childVars
<1>3. NetTypeOK' /\ QueueAgrees'
  BY <1>1, ClientStepKeeps DEF IInv, TypeOK
<1>4. \A d \in Conns : /\ life'[d] = "open" <=> life[d] = "open"
                       /\ life'[d] \in {"new", "queued"} => life[d] \in {"new", "queued"}
  BY <1>1, ClientStepLives DEF IInv, TypeOK
<1>5. TypeOK' /\ ParentAgrees' /\ NoChildYet' /\ HoldersAgree'
  BY <1>2, <1>3, <1>4 DEF IInv, TypeOK, ParentAgrees, NoChildYet, HoldersAgree, Alive
<1>. QED  BY <1>3, <1>5 DEF IInv

\* accept() gives the parent a connection that has had no child.
LEMMA AcceptKeeps ==
  ASSUME IInv, AcceptReturns
  PROVE  IInv'
<1>. DEFINE c == Head(backlog)
<1>1. /\ pc = "accept" /\ backlog # << >> /\ connfd' = c /\ pc' = "fork"
      /\ TakeFromBacklog(c)
      /\ UNCHANGED <<handler, errno, signalVars, child, buf>>
  BY DEF AcceptReturns, Parent, childVars
<1>2. /\ NetTypeOK' /\ QueueAgrees'
      /\ c \in Conns /\ life[c] = "queued"
      /\ life' = [life EXCEPT ![c] = "open"]
  BY <1>1, TakeKeeps DEF IInv, TypeOK
<1>. HIDE DEF c
<1>3. /\ connfd = NoConn /\ child[c] = "none" /\ c # NoConn
      /\ life \in [Conns -> {"new", "queued", "open", "shut"}]
  BY <1>1, <1>2, ForkAssumption DEF IInv, ParentAgrees, NoChildYet, TypeOK, NetTypeOK
<1>4. TypeOK'
  BY <1>1, <1>2 DEF IInv, TypeOK
<1>5. ParentAgrees' /\ NoChildYet'
  BY <1>1, <1>2, <1>3 DEF IInv, ParentAgrees, NoChildYet
<1>6. HoldersAgree'
  <2>1. \A d \in Conns : life[d] = "open" <=> Alive(d)
    BY <1>3, ForkAssumption DEF IInv, HoldersAgree
  <2>2. \A d \in Conns : life'[d] = "open" <=> d = c \/ Alive(d)
    BY ONLY <1>2, <1>3, <2>1
  <2>. QED  BY <1>1, <2>2 DEF HoldersAgree, Alive
<1>. QED  BY <1>2, <1>4, <1>5, <1>6 DEF IInv

\* The end of the parent touches no open connection: it holds none.
LEMMA CheckKeeps ==
  ASSUME IInv, AcceptFails \/ CheckErrno
  PROVE  IInv'
<1>1. CASE ~ParentEnds
  <2>1. /\ pc \in {"accept", "check"} /\ pc' \in {"accept", "check"}
        /\ errno' \in {"EINTR", "ECHILD", "other"}
        /\ UNCHANGED <<handler, connfd, signalVars, child, buf>>
        /\ UNCHANGED <<backlog, life, sent, half, rst, got, echo, drained>>
    BY <1>1 DEF AcceptFails, CheckErrno, Parent, childVars, netVars, IInv, TypeOK
  <2>. QED  BY <2>1 DEF IInv, TypeOK, NetTypeOK, QueueAgrees, ParentAgrees, NoChildYet,
                        HoldersAgree, Alive
<1>2. CASE CheckErrno /\ ParentEnds
  <2>1. /\ pc = "check" /\ pc' = "ended"
        /\ child' = [c \in Conns |-> IF c \in Zombies THEN "gone" ELSE child[c]]
        /\ UNCHANGED <<handler, connfd, errno, signalVars, buf>>
        /\ UNCHANGED netVars \/ ListeningEnds
    BY <1>2 DEF CheckErrno, ParentEnds, Parent
  <2>2. NetTypeOK' /\ QueueAgrees'
    BY <2>1, RefuseKeeps DEF netVars, IInv, TypeOK, NetTypeOK, QueueAgrees
  <2>3. \A d \in Conns : /\ life'[d] = "open" <=> life[d] = "open"
                         /\ life'[d] \in {"new", "queued"} => life[d] \in {"new", "queued"}
    BY <2>1 DEF netVars, ListeningEnds
  <2>4. TypeOK'
    BY <2>1, <2>2 DEF IInv, TypeOK, Zombies
  <2>5. ParentAgrees' /\ NoChildYet' /\ HoldersAgree'
    BY <2>1, <2>3
       DEF IInv, TypeOK, ParentAgrees, NoChildYet, HoldersAgree, Alive, Zombies
  <2>. QED  BY <2>2, <2>4, <2>5 DEF IInv
<1>. QED  BY <1>1, <1>2 DEF AcceptFails, ParentEnds, CheckErrno

\* fork() adds a holder to a connection that has one.
LEMMA ForkKeeps ==
  ASSUME IInv, Fork \/ ForkFails
  PROVE  IInv'
<1>1. /\ pc = "fork" /\ pc' = "close"
      /\ child' \in {child, [child EXCEPT ![connfd] = "start"]}
      /\ UNCHANGED <<handler, connfd, errno, signalVars, buf>>
      /\ UNCHANGED <<backlog, life, sent, half, rst, got, echo, drained>>
  BY DEF Fork, ForkFails, Parent, childVars, netVars
<1>2. connfd \in Conns /\ life[connfd] = "open" /\ child[connfd] = "none"
  BY <1>1 DEF IInv, TypeOK, ParentAgrees, HoldersAgree
<1>3. TypeOK' /\ QueueAgrees'
  BY <1>1, <1>2 DEF IInv, TypeOK, NetTypeOK, QueueAgrees
<1>4. ParentAgrees' /\ NoChildYet' /\ HoldersAgree'
  BY <1>1, <1>2 DEF IInv, TypeOK, ParentAgrees, NoChildYet, HoldersAgree, Alive
<1>. QED  BY <1>3, <1>4 DEF IInv

\* close() ends the connection exactly when the child does not hold it.
LEMMA CloseConnKeeps ==
  ASSUME IInv, CloseConn
  PROVE  IInv'
<1>1. /\ pc = "close" /\ pc' = "accept" /\ connfd' = NoConn
      /\ IF Alive(connfd) THEN UNCHANGED netVars ELSE ServerCloses(connfd)
      /\ UNCHANGED <<handler, errno, signalVars, child, buf>>
  BY DEF CloseConn, Parent, childVars
<1>2. connfd \in Conns /\ life[connfd] = "open" /\ NoConn \notin Conns
  BY <1>1, ForkAssumption DEF IInv, TypeOK, ParentAgrees, HoldersAgree
<1>3. /\ NetTypeOK' /\ QueueAgrees'
      /\ life' = IF Alive(connfd) THEN life ELSE [life EXCEPT ![connfd] = "shut"]
  <2>1. CASE Alive(connfd)
    BY <1>1, <2>1 DEF netVars, IInv, TypeOK, NetTypeOK, QueueAgrees
  <2>2. CASE ~Alive(connfd)
    BY <1>1, <1>2, <2>2, CloseKeeps DEF IInv, TypeOK
  <2>. QED  BY <2>1, <2>2
<1>4. TypeOK'
  BY <1>1, <1>3 DEF IInv, TypeOK
<1>5. ParentAgrees' /\ NoChildYet' /\ HoldersAgree'
  BY <1>1, <1>2, <1>3
     DEF IInv, TypeOK, NetTypeOK, ParentAgrees, NoChildYet, HoldersAgree, Alive
<1>. QED  BY <1>3, <1>4, <1>5 DEF IInv

\* The handler reaps children that hold nothing.
LEMMA HandlerKeeps ==
  ASSUME IInv, HandlerStep
  PROVE  IInv'
<1>1. /\ \/ child' = child
         \/ \E c \in Conns : child[c] = "zombie" /\ child' = [child EXCEPT ![c] = "gone"]
      /\ pc' = pc \/ (pc = "accept" /\ pc' = "check")
      /\ handler' \in BOOLEAN /\ sigchld' \in BOOLEAN /\ installed' \in BOOLEAN
      /\ build' = build
      /\ errno' \in {"EINTR", "ECHILD", "other"}
      /\ UNCHANGED <<connfd, buf>>
      /\ UNCHANGED <<backlog, life, sent, half, rst, got, echo, drained>>
  BY DEF HandlerStep, HandlerEnters, Reap, HandlerReturns, Interrupted, Zombies,
         parentVars, childVars, netVars, IInv, TypeOK
<1>2. TypeOK' /\ QueueAgrees'
  BY <1>1 DEF IInv, TypeOK, NetTypeOK, QueueAgrees
<1>3. ParentAgrees' /\ NoChildYet' /\ HoldersAgree'
  BY <1>1 DEF IInv, TypeOK, ParentAgrees, NoChildYet, HoldersAgree, Alive
<1>. QED  BY <1>2, <1>3 DEF IInv

-----------------------------------------------------------------------------
(* Processes and descriptors: the children.                                *)

\* close(listenfd) may be the last one of the listening socket.
LEMMA StartKeeps ==
  ASSUME IInv, NEW c \in Conns, ChildStarts(c)
  PROVE  IInv'
<1>1. /\ child[c] = "start" /\ child' = [child EXCEPT ![c] = "read"]
      /\ UNCHANGED netVars \/ ListeningEnds
      /\ UNCHANGED <<pc, handler, connfd, errno, signalVars, buf>>
  BY DEF ChildStarts, parentVars
<1>2. NetTypeOK' /\ QueueAgrees'
  BY <1>1, RefuseKeeps DEF netVars, IInv, TypeOK, NetTypeOK, QueueAgrees
<1>3. \A d \in Conns : /\ life'[d] = "open" <=> life[d] = "open"
                       /\ life'[d] \in {"new", "queued"} => life[d] \in {"new", "queued"}
  BY <1>1 DEF netVars, ListeningEnds
<1>4. TypeOK'
  BY <1>1, <1>2 DEF IInv, TypeOK
<1>5. ParentAgrees' /\ NoChildYet' /\ HoldersAgree'
  BY <1>1, <1>3 DEF IInv, TypeOK, ParentAgrees, NoChildYet, HoldersAgree, Alive
<1>. QED  BY <1>2, <1>4, <1>5 DEF IInv

\* A child that moves bytes holds its connection before and after.
LEMMA MoveKeeps ==
  ASSUME IInv, NEW c \in Conns, child[c] \in {"read", "write"},
         NEW h \in {"read", "write"}, child' = [child EXCEPT ![c] = h],
         NetTypeOK', QueueAgrees', life' = life,
         buf' \in [Conns -> Seq(Byte)],
         UNCHANGED <<pc, handler, connfd, errno, signalVars>>
  PROVE  IInv'
<1>1. TypeOK'
  BY DEF IInv, TypeOK
<1>2. ParentAgrees' /\ NoChildYet' /\ HoldersAgree'
  BY DEF IInv, TypeOK, ParentAgrees, NoChildYet, HoldersAgree, Alive
<1>. QED  BY <1>1, <1>2 DEF IInv

LEMMA ReadDataKeeps ==
  ASSUME IInv, NEW c \in Conns, ReadData(c)
  PROVE  IInv'
<1>1. /\ child[c] = "read" /\ Unread(c) > 0
      /\ buf' = [buf EXCEPT ![c] = Chunk(c, BUF)]
      /\ Consume(c, Len(buf'[c]))
      /\ child' = [child EXCEPT ![c] = "write"]
      /\ UNCHANGED <<pc, handler, connfd, errno, signalVars>>
  BY DEF ReadData, parentVars
<1>2. buf'[c] = Chunk(c, BUF) /\ Chunk(c, BUF) \in Seq(Byte) /\ buf' \in [Conns -> Seq(Byte)]
  BY <1>1, ChunkType, ForkAssumption DEF IInv, TypeOK
<1>3. NetTypeOK' /\ QueueAgrees' /\ life' = life
  BY <1>1, <1>2, ConsumeKeeps, ForkAssumption DEF IInv, TypeOK, Consume
<1>. QED  BY <1>1, <1>2, <1>3, MoveKeeps

\* What one write() moves, and what it leaves.
LEMMA WriteParts ==
  ASSUME IInv, NEW c \in Conns, WriteSome(c)
  PROVE  \E n \in 1 .. Len(buf[c]) :
           /\ Deliver(c, SubSeq(buf[c], 1, n))
           /\ buf' = [buf EXCEPT ![c] = SubSeq(buf[c], n + 1, Len(buf[c]))]
           /\ SubSeq(buf[c], n + 1, Len(buf[c])) \in Seq(Byte)
           /\ SubSeq(buf[c], 1, n) \in Seq(Byte)
<1>. DEFINE n == Smaller(Room(c), Len(buf[c]))
<1>1. /\ n > 0 /\ Deliver(c, SubSeq(buf[c], 1, n))
      /\ buf' = [buf EXCEPT ![c] = SubSeq(@, n + 1, Len(@))]
  BY DEF WriteSome
<1>2. buf[c] \in Seq(Byte) /\ Len(buf[c]) \in Nat /\ Room(c) \in Int
  BY LenProperties, ByteCounts DEF IInv, TypeOK
<1>3. n \in 1 .. Len(buf[c])
  BY <1>1, <1>2 DEF Smaller
<1>. HIDE DEF n
<1>4. SubSeq(buf[c], 1, n) \in Seq(Byte) /\ SubSeq(buf[c], n + 1, Len(buf[c])) \in Seq(Byte)
  BY <1>2, <1>3, SplitType
<1>. QED  BY <1>1, <1>3, <1>4

LEMMA WriteSomeKeeps ==
  ASSUME IInv, NEW c \in Conns, WriteSome(c)
  PROVE  IInv'
<1>1. PICK n \in 1 .. Len(buf[c]) :
        /\ Deliver(c, SubSeq(buf[c], 1, n))
        /\ buf' = [buf EXCEPT ![c] = SubSeq(buf[c], n + 1, Len(buf[c]))]
        /\ SubSeq(buf[c], n + 1, Len(buf[c])) \in Seq(Byte)
        /\ SubSeq(buf[c], 1, n) \in Seq(Byte)
  BY WriteParts
<1>2. /\ child[c] = "write"
      /\ child' = [child EXCEPT ![c] = IF buf'[c] = << >> THEN "read" ELSE "write"]
      /\ UNCHANGED <<pc, handler, connfd, errno, signalVars>>
  BY DEF WriteSome, parentVars
<1>3. NetTypeOK' /\ QueueAgrees' /\ life' = life
  BY <1>1, DeliverKeeps DEF IInv, TypeOK, Deliver
<1>4. buf' \in [Conns -> Seq(Byte)]
  BY <1>1 DEF IInv, TypeOK
<1>. QED  BY <1>2, <1>3, <1>4, MoveKeeps

\* exit() closes the connection unless the parent has not closed it yet.
LEMMA ExitKeeps ==
  ASSUME IInv, NEW c \in Conns, child[c] \in {"read", "write"}, Exits(c),
         UNCHANGED parentVars
  PROVE  IInv'
<1>1. /\ child' = [child EXCEPT ![c] = IF pc = "ended" THEN "gone" ELSE "zombie"]
      /\ sigchld' \in BOOLEAN /\ UNCHANGED <<installed, build>>
      /\ IF connfd = c THEN UNCHANGED netVars ELSE ServerCloses(c)
      /\ buf' = [buf EXCEPT ![c] = << >>]
      /\ UNCHANGED <<pc, handler, connfd, errno>>
  BY DEF Exits, parentVars
<1>2. life[c] = "open"
  BY DEF IInv, HoldersAgree, Alive
<1>3. /\ NetTypeOK' /\ QueueAgrees'
      /\ life' = IF connfd = c THEN life ELSE [life EXCEPT ![c] = "shut"]
  <2>1. CASE connfd = c
    BY <1>1, <2>1 DEF netVars, IInv, TypeOK, NetTypeOK, QueueAgrees
  <2>2. CASE connfd # c
    BY <1>1, <1>2, <2>2, CloseKeeps DEF IInv, TypeOK
  <2>. QED  BY <2>1, <2>2
<1>4. TypeOK'
  <2>1. buf' \in [Conns -> Seq(Byte)]
    BY <1>1 DEF IInv, TypeOK
  <2>. QED  BY <1>1, <1>3, <2>1 DEF IInv, TypeOK
<1>5. ParentAgrees' /\ NoChildYet'
  BY <1>1, <1>2, <1>3 DEF IInv, TypeOK, NetTypeOK, ParentAgrees, NoChildYet
<1>6. HoldersAgree'
  BY <1>1, <1>2, <1>3 DEF IInv, TypeOK, NetTypeOK, HoldersAgree, Alive
<1>. QED  BY <1>3, <1>4, <1>5, <1>6 DEF IInv

LEMMA WriteFailsKeeps ==
  ASSUME IInv, NEW c \in Conns, WriteFails(c)
  PROVE  IInv'
<1>1. CASE Exits(c)
  BY <1>1, ExitKeeps DEF WriteFails
<1>2. CASE ~Exits(c)
  <2>1. /\ child[c] = "write" /\ child' = [child EXCEPT ![c] = "read"]
        /\ buf' = [buf EXCEPT ![c] = << >>]
        /\ UNCHANGED <<backlog, life, sent, half, rst, got, echo, drained>>
        /\ UNCHANGED <<pc, handler, connfd, errno, signalVars>>
    BY <1>2 DEF WriteFails, netVars, parentVars
  <2>2. NetTypeOK' /\ QueueAgrees'
    BY <2>1 DEF IInv, TypeOK, NetTypeOK, QueueAgrees
  <2>3. buf' \in [Conns -> Seq(Byte)]
    BY <2>1 DEF IInv, TypeOK
  <2>. QED  BY <2>1, <2>2, <2>3, MoveKeeps
<1>. QED  BY <1>1, <1>2

-----------------------------------------------------------------------------
LEMMA InitIInv == Init => IInv
<1>. SUFFICES ASSUME Init PROVE IInv
  OBVIOUS
<1>1. NetTypeOK /\ QueueAgrees
  BY InitNet DEF Init
<1>2. TypeOK
  <2>1. /\ buf \in [Conns -> Seq(Byte)]
        /\ child \in [Conns -> {"none", "start", "read", "write", "zombie", "gone"}]
    BY DEF Init
  <2>2. /\ pc = "accept" /\ handler \in BOOLEAN /\ connfd = NoConn /\ errno = "other"
        /\ sigchld \in BOOLEAN /\ installed \in BOOLEAN /\ build \in Builds
    BY DEF Init
  <2>. QED  BY <1>1, <2>1, <2>2 DEF TypeOK
<1>3. ParentAgrees /\ NoChildYet /\ HoldersAgree
  BY ForkAssumption DEF Init, NetInit, ParentAgrees, NoChildYet, HoldersAgree, Alive
<1>. QED  BY <1>1, <1>2, <1>3 DEF IInv

LEMMA NextIInv == IInv /\ [Next]_vars => IInv'
<1>. SUFFICES ASSUME IInv, [Next]_vars PROVE IInv'
  OBVIOUS
<1>1. CASE PeerStep
  BY <1>1, PeerKeeps
<1>2. CASE ParentStep
  BY <1>2, AcceptKeeps, CheckKeeps, ForkKeeps, CloseConnKeeps DEF ParentStep
<1>3. CASE HandlerStep
  BY <1>3, HandlerKeeps
<1>4. ASSUME NEW c \in Conns, ChildStep(c)
      PROVE  IInv'
  <2>1. CASE ReadEnd(c)
    BY <2>1, ExitKeeps DEF ReadEnd
  <2>. QED
    BY <1>4, <2>1, StartKeeps, ReadDataKeeps, WriteSomeKeeps, WriteFailsKeeps DEF ChildStep
<1>5. CASE UNCHANGED vars
  BY <1>5 DEF vars, serverVars, parentVars, childVars, netVars, IInv, TypeOK, NetTypeOK,
              QueueAgrees, ParentAgrees, NoChildYet, HoldersAgree, Alive
<1>. QED  BY <1>1, <1>2, <1>3, <1>4, <1>5 DEF Next

THEOREM Invariance == Spec => []IInv
<1>. QED  BY InitIInv, NextIInv, PTL DEF Spec

\* Every variable of the parent, the children and the network keeps its type.
THEOREM TypeCorrect == Spec => []TypeOK
<1>1. IInv => TypeOK
  BY DEF IInv
<1>. QED  BY <1>1, Invariance, PTL

\* In whatever order parent and child close a connection, whatever fails and
\* whenever the parent ends, it is open as long as one of them holds it.
THEOREM HoldersSafety == Spec => []HoldersAgree
<1>1. IInv => HoldersAgree
  BY DEF IInv
<1>. QED  BY <1>1, Invariance, PTL

\* A parent that tests errno was interrupted by a signal() for one delivery,
\* and the handler cannot run again before the test.
OnceInterrupted ==
  /\ pc = "check" => errno = "EINTR" /\ ~installed /\ ~handler
  /\ handler /\ build = "sysv" => ~installed
  /\ ~installed => ~sigchld
  /\ pc # "ended"

\* Whichever signal() the program was built with, the end of a child does not
\* end the parent: where it interrupts accept(), EINTR is still what line 101
\* finds, although the handler's last waitpid() failed with ECHILD.
THEOREM ParentSafety == ~AcceptErrors => (Spec => []ParentSurvives)
<1>. SUFFICES ASSUME ~AcceptErrors PROVE Spec => []ParentSurvives
  OBVIOUS
<1>1. Init => OnceInterrupted
  BY DEF Init, OnceInterrupted
<1>2. OnceInterrupted /\ [Next]_vars => OnceInterrupted'
  <2>. SUFFICES ASSUME OnceInterrupted, [Next]_vars PROVE OnceInterrupted'
    OBVIOUS
  <2>1. CASE ParentStep
    BY <2>1 DEF ParentStep, AcceptReturns, AcceptFails, CheckErrno, Fork, ForkFails, CloseConn,
                Parent, OnceInterrupted
  <2>2. CASE HandlerStep
    <3>1. CASE HandlerEnters
      BY <3>1 DEF HandlerEnters, OnceInterrupted
    <3>2. CASE Reap
      BY <3>2 DEF Reap, parentVars, OnceInterrupted
    <3>3. CASE HandlerReturns
      BY <3>3 DEF HandlerReturns, Interrupted, OnceInterrupted
    <3>. QED  BY <2>2, <3>1, <3>2, <3>3 DEF HandlerStep
  <2>3. ASSUME NEW c \in Conns, ChildStep(c)
        PROVE  OnceInterrupted'
    <3>1. /\ UNCHANGED <<pc, handler, errno, installed, build>>
          /\ sigchld' => sigchld \/ installed
      <4>1. UNCHANGED <<pc, handler, errno>> /\ (Exits(c) \/ UNCHANGED signalVars)
        BY <2>3 DEF ChildStep, ChildStarts, ReadData, ReadEnd, WriteSome, WriteFails, parentVars
      <4>2. CASE Exits(c)
        <5>1. sigchld' <=> pc # "ended" /\ installed
          BY <4>2 DEF Exits
        <5>2. installed' = installed /\ build' = build
          BY <4>2 DEF Exits
        <5>. QED  BY <4>1, <5>1, <5>2
      <4>. QED  BY <4>1, <4>2
    <3>. QED  BY <3>1 DEF OnceInterrupted
  <2>4. CASE PeerStep \/ UNCHANGED vars
    BY <2>4 DEF PeerStep, vars, serverVars, parentVars, OnceInterrupted
  <2>. QED  BY <2>1, <2>2, <2>3, <2>4 DEF Next
<1>3. OnceInterrupted => ParentSurvives
  BY DEF OnceInterrupted, ParentSurvives
<1>. QED  BY <1>1, <1>2, <1>3, PTL DEF Spec

-----------------------------------------------------------------------------
(* The bytes.                                                              *)

\* What EchoFaithful says of one connection.
LEMMA EchoParts ==
  EchoFaithful <=> \A c \in Conns : InOrder(c) /\ (rst[c] \/ buf[c] = Rest(c))
BY DEF EchoFaithful, InOrder, Rest

\* The parent, the handler and a child that starts touch no byte, and leave
\* the children that write writing.
LEMMA BytesStay ==
  ASSUME EInv, UNCHANGED <<sent, half, rst, got, echo, buf>>,
         \A c \in Conns : child'[c] # "write" => buf[c] = << >>
  PROVE  EInv'
BY DEF EInv, CountsAgree, EchoFaithful, EmptyHanded

LEMMA ParentKeepsBytes ==
  ASSUME IInv, EInv, ParentStep
  PROVE  EInv'
<1>1. UNCHANGED <<sent, half, rst, got, echo, buf>>
  BY DEF ParentStep, AcceptReturns, AcceptFails, CheckErrno, ParentEnds, Fork, ForkFails,
         CloseConn, TakeFromBacklog, ServerCloses, ListeningEnds, netVars, childVars
<1>2. \A c \in Conns : child'[c] # "write" => child[c] # "write"
  <2>1. CASE child' = child
    BY <2>1
  <2>2. CASE child' = [c \in Conns |-> IF c \in Zombies THEN "gone" ELSE child[c]]
    BY <2>2 DEF Zombies
  <2>3. CASE Fork
    <3>1. connfd \in Conns /\ child[connfd] = "none"
      BY <2>3 DEF Fork, Parent, IInv, TypeOK, ParentAgrees
    <3>. QED  BY <2>3, <3>1 DEF Fork, IInv, TypeOK
  <2>. QED
    BY <2>1, <2>2, <2>3 DEF ParentStep, AcceptReturns, AcceptFails, CheckErrno, ParentEnds,
                            ForkFails, CloseConn, childVars
<1>. QED  BY <1>1, <1>2, BytesStay DEF EInv, EmptyHanded

LEMMA HandlerKeepsBytes ==
  ASSUME IInv, EInv, HandlerStep
  PROVE  EInv'
<1>1. UNCHANGED <<sent, half, rst, got, echo, buf>>
  BY DEF HandlerStep, HandlerEnters, Reap, HandlerReturns, netVars, childVars
<1>2. \/ child' = child
      \/ \E c \in Conns : child[c] = "zombie" /\ child' = [child EXCEPT ![c] = "gone"]
  BY DEF HandlerStep, HandlerEnters, Reap, HandlerReturns, Zombies, childVars
<1>3. \A c \in Conns : child'[c] # "write" => child[c] # "write"
  BY <1>2 DEF IInv, TypeOK
<1>. QED  BY <1>1, <1>3, BytesStay DEF EInv, EmptyHanded

LEMMA PeerKeepsBytes ==
  ASSUME IInv, EInv, PeerStep
  PROVE  EInv'
<1>1. PICK c \in Conns : ClientStep(c)
  BY DEF PeerStep
<1>2. UNCHANGED <<child, buf>>
  BY DEF PeerStep, serverVars, childVars
<1>3. /\ UNCHANGED <<got, echo>> /\ CountsAgree'
      /\ \A d \in Conns : rst[d] => rst'[d]
  BY <1>1, ClientStepBytes DEF IInv, TypeOK, EInv
<1>. QED  BY <1>2, <1>3 DEF EInv, EchoFaithful, EmptyHanded

LEMMA ReadKeepsBytes ==
  ASSUME IInv, EInv, NEW c \in Conns, ReadData(c)
  PROVE  EInv'
<1>1. /\ child[c] = "read" /\ Unread(c) > 0
      /\ buf' = [buf EXCEPT ![c] = Chunk(c, BUF)]
      /\ Consume(c, Len(buf'[c]))
      /\ child' = [child EXCEPT ![c] = "write"]
  BY DEF ReadData
<1>2. /\ buf \in [Conns -> Seq(Byte)] /\ buf'[c] = Chunk(c, BUF)
      /\ child \in [Conns -> {"none", "start", "read", "write", "zombie", "gone"}]
  BY <1>1 DEF IInv, TypeOK
<1>3. /\ CountsAgree' /\ UNCHANGED <<life, sent, half, rst, echo>>
      /\ \A d \in Conns \ {c} : Rest(d)' = Rest(d)
      /\ got[c] = Len(echo[c]) => Chunk(c, BUF) = Rest(c)'
  BY <1>1, <1>2, ReadRest, ForkAssumption DEF IInv, TypeOK, EInv
<1>4. rst[c] \/ got[c] = Len(echo[c])
  <2>1. rst[c] \/ Rest(c) = << >>
    BY <1>1, EchoParts DEF EInv, EmptyHanded
  <2>. QED  BY <2>1, RestEmpty DEF IInv, TypeOK, EInv
<1>5. \A d \in Conns : InOrder(d)' /\ (rst'[d] \/ buf'[d] = Rest(d)')
  BY <1>1, <1>2, <1>3, <1>4, EchoParts DEF EInv, InOrder
<1>6. EchoFaithful'
  BY <1>5 DEF EchoFaithful, InOrder, Rest
<1>7. EmptyHanded'
  BY <1>1, <1>2 DEF EInv, EmptyHanded
<1>. QED  BY <1>3, <1>6, <1>7 DEF EInv

LEMMA WriteKeepsBytes ==
  ASSUME IInv, EInv, NEW c \in Conns, WriteSome(c)
  PROVE  EInv'
<1>1. PICK n \in 1 .. Len(buf[c]) :
        /\ Deliver(c, SubSeq(buf[c], 1, n))
        /\ buf' = [buf EXCEPT ![c] = SubSeq(buf[c], n + 1, Len(buf[c]))]
        /\ SubSeq(buf[c], n + 1, Len(buf[c])) \in Seq(Byte)
        /\ SubSeq(buf[c], 1, n) \in Seq(Byte)
  BY WriteParts
<1>2. /\ child[c] = "write" /\ ~rst[c]
      /\ child' = [child EXCEPT ![c] = IF buf'[c] = << >> THEN "read" ELSE "write"]
      /\ buf \in [Conns -> Seq(Byte)]
      /\ child \in [Conns -> {"none", "start", "read", "write", "zombie", "gone"}]
  BY DEF WriteSome, IInv, TypeOK
<1>3. InOrder(c) /\ buf[c] = Rest(c) /\ buf[c] \in Seq(Byte)
  BY <1>2, EchoParts DEF EInv
<1>4. /\ CountsAgree' /\ InOrder(c)'
      /\ UNCHANGED <<life, sent, half, rst, got>>
      /\ SubSeq(buf[c], n + 1, Len(buf[c])) = Rest(c)'
      /\ \A d \in Conns \ {c} : echo'[d] = echo[d] /\ Rest(d)' = Rest(d)
  BY <1>1, <1>3, DeliverRest DEF IInv, TypeOK, EInv
<1>5. \A d \in Conns : InOrder(d)' /\ (rst'[d] \/ buf'[d] = Rest(d)')
  BY <1>1, <1>2, <1>4, EchoParts DEF EInv, InOrder
<1>6. EchoFaithful'
  BY <1>5 DEF EchoFaithful, InOrder, Rest
<1>7. EmptyHanded'
  BY <1>1, <1>2 DEF EInv, EmptyHanded
<1>. QED  BY <1>4, <1>6, <1>7 DEF EInv

\* The buffer of a child that ends, or whose write() failed, is gone: it was
\* empty, or the connection was reset.
LEMMA DropKeepsBytes ==
  ASSUME IInv, EInv, NEW c \in Conns, rst[c] \/ child[c] # "write",
         buf' = [buf EXCEPT ![c] = << >>],
         \A d \in Conns \ {c} : child'[d] = child[d],
         UNCHANGED <<sent, half, rst, got, echo>>
  PROVE  EInv'
<1>1. buf \in [Conns -> Seq(Byte)]
  BY DEF IInv, TypeOK
<1>2. rst[c] \/ buf[c] = << >>
  BY DEF EInv, EmptyHanded
<1>3. EmptyHanded'
  BY <1>1 DEF EInv, EmptyHanded
<1>4. CountsAgree'
  BY DEF EInv, CountsAgree
<1>5. EchoFaithful'
  BY <1>1, <1>2 DEF EInv, EchoFaithful
<1>. QED  BY <1>3, <1>4, <1>5 DEF EInv

LEMMA EndKeepsBytes ==
  ASSUME IInv, EInv, NEW c \in Conns, ReadEnd(c) \/ WriteFails(c)
  PROVE  EInv'
<1>1. /\ rst[c] \/ child[c] # "write"
      /\ buf' = [buf EXCEPT ![c] = << >>]
      /\ UNCHANGED <<sent, half, rst, got, echo>>
      /\ \E h : child' = [child EXCEPT ![c] = h]
  BY DEF ReadEnd, WriteFails, Exits, ServerCloses, netVars
<1>2. \A d \in Conns \ {c} : child'[d] = child[d]
  BY <1>1 DEF IInv, TypeOK
<1>. QED  BY ONLY <1>1, <1>2, IInv, EInv, c \in Conns, DropKeepsBytes

LEMMA StartKeepsBytes ==
  ASSUME IInv, EInv, NEW c \in Conns, ChildStarts(c)
  PROVE  EInv'
<1>1. UNCHANGED <<sent, half, rst, got, echo, buf>>
  BY DEF ChildStarts, ListeningEnds, netVars
<1>2. \A d \in Conns : child'[d] # "write" => child[d] # "write"
  BY DEF ChildStarts, IInv, TypeOK
<1>. QED  BY <1>1, <1>2, BytesStay DEF EInv, EmptyHanded

LEMMA InitEInv == Init => EInv
<1>. SUFFICES ASSUME Init PROVE EInv
  OBVIOUS
<1>1. CountsAgree /\ \A c \in Conns : InOrder(c) /\ Rest(c) = << >>
  BY InitBytes DEF Init
<1>2. \A c \in Conns : buf[c] = << >>
  BY DEF Init
<1>. QED  BY <1>1, <1>2, EchoParts DEF EInv, EmptyHanded

LEMMA NextEInv == IInv /\ EInv /\ [Next]_vars => EInv'
<1>. SUFFICES ASSUME IInv, EInv, [Next]_vars PROVE EInv'
  OBVIOUS
<1>1. CASE PeerStep
  BY <1>1, PeerKeepsBytes
<1>2. CASE ParentStep
  BY <1>2, ParentKeepsBytes
<1>3. CASE HandlerStep
  BY <1>3, HandlerKeepsBytes
<1>4. ASSUME NEW c \in Conns, ChildStep(c)
      PROVE  EInv'
  BY <1>4, StartKeepsBytes, ReadKeepsBytes, WriteKeepsBytes, EndKeepsBytes DEF ChildStep
<1>5. CASE UNCHANGED vars
  BY <1>5 DEF vars, serverVars, childVars, netVars, EInv, CountsAgree, EchoFaithful,
              EmptyHanded
<1>. QED  BY <1>1, <1>2, <1>3, <1>4, <1>5 DEF Next

LEMMA BytesInvariance == Spec => []EInv
<1>. QED  BY InitEInv, NextEInv, Invariance, PTL DEF Spec

\* What comes back on a connection is what was sent on it, in order and once,
\* whatever becomes of the other children, and nothing a child read is lost
\* unless its connection was reset.
THEOREM EchoSafety == Spec => []EchoFaithful
<1>1. EInv => EchoFaithful
  BY DEF EInv
<1>. QED  BY <1>1, BytesInvariance, PTL

-----------------------------------------------------------------------------
(* The processes together implement the echo service.                      *)

\* A read() that returns no data says that everything was sent back.
LEMMA NoDataServed ==
  ASSUME IInv, EInv, NEW c \in Conns, ReadEnd(c) \/ WriteFails(c)
  PROVE  half[c] # "open" /\ (rst[c] \/ Len(echo[c]) = sent[c])
<1>1. CASE WriteFails(c)
  BY <1>1 DEF WriteFails, EInv, CountsAgree
<1>2. CASE ReadEnd(c)
  <2>1. Unread(c) = 0 /\ Readable(c) /\ child[c] = "read"
    BY <1>2 DEF ReadEnd
  <2>2. rst[c] \/ Rest(c) = << >>
    BY <2>1, EchoParts DEF EInv, EmptyHanded
  <2>3. rst[c] \/ got[c] = Len(echo[c])
    BY <2>2, RestEmpty DEF IInv, TypeOK, EInv
  <2>4. got[c] = sent[c]
    BY <2>1, TcpAssumption DEF Unread, IInv, TypeOK, NetTypeOK
  <2>. QED  BY <2>1, <2>3, <2>4 DEF Readable, EInv, CountsAgree
<1>. QED  BY <1>1, <1>2

LEMMA NextServed == IInv /\ EInv /\ EndedServed /\ [Next]_vars => EndedServed'
<1>. SUFFICES ASSUME IInv, EInv, EndedServed, [Next]_vars PROVE EndedServed'
  OBVIOUS
<1>. DEFINE Ended(c) == child[c] \in {"zombie", "gone"}
<1>1. CASE PeerStep
  <2>1. PICK c \in Conns : ClientStep(c)
    BY <1>1 DEF PeerStep
  <2>2. child' = child /\ echo' = echo
    BY <1>1, <2>1, ClientStepBytes
       DEF PeerStep, serverVars, childVars, IInv, TypeOK, EInv
  <2>3. \A d \in Conns : /\ rst[d] => rst'[d]
                         /\ half[d] # "open" => half'[d] # "open" /\ sent'[d] = sent[d]
    BY <2>1, ClientStepBytes DEF IInv, TypeOK, EInv
  <2>. QED  BY <2>2, <2>3 DEF EndedServed
<1>2. CASE ParentStep \/ HandlerStep
  <2>1. UNCHANGED <<sent, half, rst, echo>>
    BY <1>2 DEF ParentStep, AcceptReturns, AcceptFails, CheckErrno, ParentEnds, Fork, ForkFails,
                CloseConn, TakeFromBacklog, ServerCloses, ListeningEnds, netVars,
                HandlerStep, HandlerEnters, Reap, HandlerReturns
  <2>2. \A c \in Conns : Ended(c)' => Ended(c)
    BY <1>2 DEF ParentStep, AcceptReturns, AcceptFails, CheckErrno, ParentEnds, Fork, ForkFails,
                CloseConn, childVars, Zombies, HandlerStep, HandlerEnters, Reap, HandlerReturns,
                IInv, TypeOK
  <2>. QED  BY <2>1, <2>2 DEF EndedServed
<1>3. ASSUME NEW c \in Conns, ChildStep(c)
      PROVE  EndedServed'
  <2>1. CASE ReadEnd(c) \/ WriteFails(c)
    <3>1. /\ UNCHANGED <<sent, half, rst, echo>>
          /\ \E h : child' = [child EXCEPT ![c] = h]
      BY <2>1 DEF ReadEnd, WriteFails, Exits, ServerCloses, netVars
    <3>2. half[c] # "open" /\ (rst[c] \/ Len(echo[c]) = sent[c])
      BY <2>1, NoDataServed
    <3>3. \A d \in Conns \ {c} : child'[d] = child[d]
      BY <3>1 DEF IInv, TypeOK
    <3>. QED  BY <3>1, <3>2, <3>3 DEF EndedServed
  <2>2. CASE ChildStarts(c) \/ ReadData(c) \/ WriteSome(c)
    <3>1. /\ UNCHANGED <<sent, half, rst>>
          /\ \E h \in {"read", "write"} : child' = [child EXCEPT ![c] = h]
          /\ echo' = echo \/ \E b : echo' = [echo EXCEPT ![c] = b]
      BY <2>2 DEF ChildStarts, ReadData, WriteSome, ListeningEnds, Consume, Deliver, netVars
    <3>2. \A d \in Conns : Ended(d)' => Ended(d) /\ echo'[d] = echo[d]
      BY <3>1 DEF IInv, TypeOK, NetTypeOK
    <3>. QED  BY <3>1, <3>2 DEF EndedServed
  <2>. QED  BY <1>3, <2>1, <2>2 DEF ChildStep
<1>4. CASE UNCHANGED vars
  BY <1>4 DEF vars, serverVars, childVars, netVars, EndedServed
<1>. QED  BY <1>1, <1>2, <1>3, <1>4 DEF Next

\* No step takes a connection that was handed over back.
LEMMA NextHandedOver ==
  ~ForkErrors /\ IInv /\ HandedOver /\ [Next]_vars => HandedOver'
<1>. SUFFICES ASSUME ~ForkErrors, IInv, HandedOver, [Next]_vars, pc' = "close"
              PROVE  child'[connfd'] # "none"
  BY DEF HandedOver
<1>1. CASE Fork
  <2>1. connfd \in Conns
    BY <1>1 DEF Fork, Parent, IInv, TypeOK, ParentAgrees
  <2>. QED  BY <1>1, <2>1 DEF Fork, IInv, TypeOK
<1>2. CASE ~Fork
  <2>1. pc = "close" /\ connfd' = connfd
    BY <1>2 DEF Next, ParentStep, AcceptReturns, AcceptFails, CheckErrno, ParentEnds, ForkFails,
                CloseConn, HandlerStep, HandlerEnters, Reap, HandlerReturns, Interrupted,
                ChildStep, ChildStarts, ReadData, ReadEnd, WriteSome, WriteFails, PeerStep,
                vars, serverVars, parentVars
  <2>2. connfd \in Conns /\ child[connfd] # "none"
    BY <2>1 DEF HandedOver, IInv, TypeOK, ParentAgrees
  <2>3. \A c \in Conns : child[c] # "none" => child'[c] # "none"
    BY <1>2, <2>1
       DEF Next, ParentStep, AcceptReturns, AcceptFails, CheckErrno, ParentEnds, ForkFails,
           CloseConn, Parent, HandlerStep, HandlerEnters, Reap, HandlerReturns, ChildStep,
           ChildStarts, ReadData, ReadEnd, WriteSome, WriteFails, Exits, PeerStep,
           vars, serverVars, childVars, IInv, TypeOK
  <2>. QED  BY <2>1, <2>2, <2>3
<1>. QED  BY <1>1, <1>2

\* One step of a child is a reply, a close or none of the client's business.
LEMMA ChildServes ==
  ASSUME IInv, EInv, pc # "ended", NEW c \in Conns, ChildStep(c)
  PROVE  Service!Next \/ UNCHANGED Service!vars
<1>1. CASE WriteSome(c)
  <2>1. PICK n \in 1 .. Len(buf[c]) : Deliver(c, SubSeq(buf[c], 1, n))
    BY <1>1, WriteParts
  <2>2. child[c] = "write" /\ ~rst[c]
    BY <1>1 DEF WriteSome
  <2>3. life[c] = "open" /\ InOrder(c) /\ buf[c] = Rest(c) /\ buf[c] \in Seq(Byte)
    BY <2>2, EchoParts DEF IInv, TypeOK, HoldersAgree, Alive, EInv
  <2>. QED  BY <2>1, <2>2, <2>3, ReplyServes DEF IInv, TypeOK, EInv
<1>2. CASE ReadEnd(c) \/ WriteFails(c)
  <2>1. UNCHANGED netVars \/ ServerCloses(c)
    BY <1>2 DEF ReadEnd, WriteFails, Exits
  <2>2. CASE UNCHANGED netVars
    BY <2>2 DEF netVars, Service!vars
  <2>3. CASE ServerCloses(c)
    <3>1. life[c] = "open"
      BY <1>2 DEF ReadEnd, WriteFails, IInv, HoldersAgree, Alive
    <3>. QED  BY <1>2, <2>3, <3>1, NoDataServed, CloseServes
  <2>. QED  BY <2>1, <2>2, <2>3
<1>3. CASE ChildStarts(c) \/ ReadData(c)
  BY <1>3 DEF ChildStarts, ReadData, Consume, netVars, Service!vars
<1>. QED  BY <1>1, <1>2, <1>3 DEF ChildStep

\* One step of the parent or its handler admits a client, ends a connection
\* whose child has ended, or is none of the clients' business.
LEMMA ParentServes ==
  ASSUME IInv, EndedServed, HandedOver, ParentSurvives, ParentSurvives',
         ParentStep \/ HandlerStep
  PROVE  Service!Next \/ UNCHANGED Service!vars
<1>1. CASE AcceptReturns
  <2>1. backlog # << >> /\ TakeFromBacklog(Head(backlog))
    BY <1>1 DEF AcceptReturns
  <2>2. Head(backlog) \in Conns /\ life[Head(backlog)] = "queued"
    BY <2>1, TakeKeeps DEF IInv, TypeOK
  <2>. QED  BY ONLY <2>1, <2>2, AdmitServes
<1>2. CASE CloseConn
  <2>1. connfd \in Conns /\ life[connfd] = "open" /\ child[connfd] # "none"
    BY <1>2 DEF CloseConn, Parent, IInv, TypeOK, ParentAgrees, HoldersAgree, HandedOver
  <2>2. CASE Alive(connfd)
    BY <1>2, <2>2 DEF CloseConn, netVars, Service!vars
  <2>3. CASE ~Alive(connfd)
    <3>1. child[connfd] \in {"zombie", "gone"}
      BY <2>1, <2>3 DEF Alive, IInv, TypeOK
    <3>2. half[connfd] # "open" /\ (rst[connfd] \/ Len(echo[connfd]) = sent[connfd])
      BY <2>1, <3>1 DEF EndedServed
    <3>3. ServerCloses(connfd)
      BY <1>2, <2>3 DEF CloseConn
    <3>. QED  BY ONLY <2>1, <3>2, <3>3, CloseServes
  <2>. QED  BY <2>2, <2>3
<1>3. CASE AcceptFails \/ CheckErrno \/ Fork \/ ForkFails \/ HandlerStep
  BY <1>3 DEF AcceptFails, CheckErrno, ParentEnds, Fork, ForkFails, HandlerStep, HandlerEnters,
              Reap, HandlerReturns, ParentSurvives, netVars, Service!vars
<1>. QED  BY <1>1, <1>2, <1>3 DEF ParentStep

\* While the parent serves, every step of the processes and their clients is
\* a step of the echo service: a reply of what was sent and not yet sent back,
\* or the end of a connection that has got everything.  The hypotheses are
\* those under which the service is promised at all: a parent or a fork()
\* that fails abandons connections.
THEOREM EchoRefined ==
  ~AcceptErrors /\ ~ForkErrors /\ ~Evicts => (Spec => Echo!SafeSpec)
<1>. SUFFICES ASSUME ~AcceptErrors, ~ForkErrors, ~Evicts
              PROVE  Spec => Echo!SafeSpec
  OBVIOUS
<1>. DEFINE Inv == IInv /\ EInv /\ EndedServed /\ HandedOver /\ ParentSurvives
<1>1. Init => Echo!Init
  BY DEF Init, NetInit, Echo!Init
<1>2. Init => EndedServed /\ HandedOver
  BY DEF Init, EndedServed, HandedOver
<1>3. Inv /\ Inv' /\ [Next]_vars => [Echo!Next]_(Echo!vars)
  <2>. SUFFICES ASSUME Inv, Inv', [Next]_vars PROVE Service!Next \/ UNCHANGED Service!vars
    BY DEF Echo!Next, Echo!Connect, Echo!Send, Echo!Finish, Echo!Reset, Echo!Admit, Echo!Reply,
           Echo!Segment, Echo!Close, Echo!vars, Service!Next, Service!Connect, Service!Send,
           Service!Finish, Service!Reset, Service!Admit, Service!Reply, Service!Segment,
           Service!Close, Service!vars
  <2>1. CASE PeerStep
    BY <2>1, ClientStepServes DEF PeerStep
  <2>2. CASE ParentStep \/ HandlerStep
    BY <2>2, ParentServes
  <2>3. ASSUME NEW c \in Conns, ChildStep(c)
        PROVE  Service!Next \/ UNCHANGED Service!vars
    BY <2>3, ChildServes DEF ParentSurvives
  <2>4. CASE UNCHANGED vars
    BY <2>4 DEF vars, netVars, Service!vars
  <2>. QED  BY <2>1, <2>2, <2>3, <2>4 DEF Next
<1>4. EndedServed /\ IInv /\ EInv /\ [Next]_vars => EndedServed'
  BY NextServed
<1>5. HandedOver /\ IInv /\ [Next]_vars => HandedOver'
  BY NextHandedOver
<1>6. Spec => []ParentSurvives
  BY ParentSafety
<1>. HIDE DEF Inv
<1>7. Spec => []Inv
  <2>1. Spec => [](IInv /\ EInv /\ EndedServed /\ HandedOver /\ ParentSurvives)
    BY <1>2, <1>4, <1>5, <1>6, Invariance, BytesInvariance, PTL DEF Spec
  <2>. QED  BY <2>1 DEF Inv
<1>. QED  BY <1>1, <1>3, <1>7, PTL DEF Spec, Echo!SafeSpec
=============================================================================
