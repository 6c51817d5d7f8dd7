---------------------------- MODULE SelectServer ----------------------------
(***************************************************************************)
(* The echo server of src/07/server.c, function main(): one process, one   *)
(* select() over the listening socket and every connection, a table        *)
(* client[] of descriptors and blocking reads and writes.                  *)
(*                                                                         *)
(* Every system call is a step, so the clients and the network act between *)
(* select() and the accept(), read() and write() that rely on its answer.  *)
(***************************************************************************)
EXTENDS TcpNet

CONSTANTS
  FD_SETSIZE,    \* entries of client[] and bits of an fd_set
  NOFILE,        \* the process's limit on open descriptors
  listenfd,      \* the listening socket; the descriptors below it are in use
  BUF,           \* sizeof(buf)
  NoConn,        \* marks a descriptor that is not open
  AcceptErrors,  \* TRUE: accept() may fail for want of system resources
  StrayBit       \* the bit FD_SET(-1, &allset) sets

ASSUME ServerAssumption ==
  /\ listenfd \in Nat
  /\ FD_SETSIZE \in Nat /\ listenfd < FD_SETSIZE
  /\ NOFILE \in Nat /\ listenfd < NOFILE
  /\ BUF \in Nat \ {0}
  /\ NoConn \notin Conns
  /\ AcceptErrors \in BOOLEAN
  /\ StrayBit \in listenfd + 1 .. FD_SETSIZE - 1

VARIABLES
  pc,      \* the system call the process is at, or how it ended
  i,       \* the loop index of the scan over client[]
  buf,     \* the bytes read and not yet written back
  client,  \* descriptor held by each slot, -1 if available
  maxi,    \* highest slot ever used
  maxfd,   \* highest descriptor ever used
  allset,  \* the descriptors to watch
  rset,    \* the descriptors select() reported
  nready,  \* how many of those are still to be handled
  fds      \* the kernel's descriptor table of the process

tableVars == <<client, maxi, maxfd, allset, fds>>
serverVars == <<pc, i, buf, rset, nready, tableVars>>
vars == <<netVars, serverVars>>

Slots == 0 .. FD_SETSIZE - 1
Descriptors == listenfd + 1 .. NOFILE - 1

TypeOK ==
  /\ NetTypeOK
  /\ pc \in {"select", "accept", "scan", "write", "overrun", "killed"}
  /\ i \in 0 .. FD_SETSIZE
  /\ buf \in Seq(Byte)
  /\ client \in [Slots -> {-1} \cup Descriptors]
  /\ maxi \in -1 .. FD_SETSIZE - 1
  /\ maxfd \in listenfd .. FD_SETSIZE - 1
  /\ allset \in SUBSET (listenfd .. FD_SETSIZE - 1)
  /\ rset \in SUBSET (listenfd .. FD_SETSIZE - 1)
  /\ nready \in Int
  /\ fds \in [Descriptors -> Conns \cup {NoConn}]

\* Mutant: maxfd = listenfd; is missing and maxfd is still zero.
InitForgetsMaxfd ==
  /\ NetInit
  /\ pc = "select"
  /\ i = 0
  /\ buf = << >>
  /\ client = [j \in Slots |-> -1]
  /\ maxi = -1
  /\ maxfd = 0
  /\ allset = {listenfd}
  /\ rset = {}
  /\ nready = 0
  /\ fds = [f \in Descriptors |-> NoConn]

Init ==
  /\ NetInit
  /\ pc = "select"
  /\ i = 0
  /\ buf = << >>
  /\ client = [j \in Slots |-> -1]
  /\ maxi = -1
  /\ maxfd = listenfd
  /\ allset = {listenfd}
  /\ rset = {}
  /\ nready = 0
  /\ fds = [f \in Descriptors |-> NoConn]

-----------------------------------------------------------------------------
(* select()                                                                *)

IsOpen(f) == f = listenfd \/ (f \in Descriptors /\ fds[f] # NoConn)

FdReady(f) == IF f = listenfd THEN backlog # << >> ELSE Readable(fds[f])

Watched == {f \in allset : f <= maxfd}

\* Wait until a watched descriptor is readable; take all that are.
Select ==
  /\ pc = "select"
  /\ \A f \in Watched : IsOpen(f)
  /\ rset' = {f \in Watched : FdReady(f)}
  /\ rset' # {}
  /\ nready' = Cardinality(rset')
  /\ pc' = IF listenfd \in rset' THEN "accept" ELSE "scan"
  /\ i' = 0
  /\ UNCHANGED <<netVars, tableVars, buf>>

\* EBADF: the result is -1 and rset keeps the value of allset, listenfd in it.
SelectFails ==
  /\ pc = "select"
  /\ \E f \in Watched : ~IsOpen(f)
  /\ rset' = allset
  /\ nready' = -1
  /\ pc' = "accept"
  /\ i' = 0
  /\ UNCHANGED <<netVars, tableVars, buf>>

-----------------------------------------------------------------------------
(* accept() and the search for a slot.  accept() blocks while the queue is *)
(* empty.                                                                  *)

FreeFds == {f \in Descriptors : fds[f] = NoConn}

LowestFree(f) == f \in FreeFds /\ \A g \in FreeFds : f <= g

FirstSlot(j) == client[j] = -1 /\ \A k \in 0 .. j - 1 : client[k] # -1

\* Mutant: accept() is called once for every ready descriptor.
AcceptsAll ==
  /\ nready' = nready - 1
  /\ pc' = IF nready' <= 0 THEN "select" ELSE "accept"

\* Mutant: the accepted connection is not taken from nready.
AcceptUncounted ==
  /\ nready' = nready
  /\ pc' = IF nready <= 1 THEN "select" ELSE "scan"

\* if(--nready <= 0) continue;
AcceptDone ==
  /\ nready' = nready - 1
  /\ pc' = IF nready' <= 0 THEN "select" ELSE "scan"

Accept ==
  /\ pc = "accept" /\ backlog # << >>
  /\ \E connfd \in Descriptors, j \in Slots :
       /\ LowestFree(connfd) /\ connfd < FD_SETSIZE
       /\ FirstSlot(j)
       /\ fds' = [fds EXCEPT ![connfd] = Head(backlog)]
       /\ client' = [client EXCEPT ![j] = connfd]
       /\ allset' = allset \cup {connfd}
       /\ maxfd' = IF connfd > maxfd THEN connfd ELSE maxfd
       /\ maxi' = IF j > maxi THEN j ELSE maxi
  /\ TakeFromBacklog(Head(backlog))
  /\ AcceptDone
  /\ UNCHANGED <<i, buf, rset>>

\* No slot is free, or the descriptor has no bit: the loop's i <= FD_SETSIZE
\* or FD_SET() goes on past the end of its array.  What the process does from
\* there depends on its stack layout and is not followed.
AcceptOverruns ==
  /\ pc = "accept" /\ backlog # << >>
  /\ \E connfd \in Descriptors :
       /\ LowestFree(connfd)
       /\ connfd >= FD_SETSIZE \/ \A j \in Slots : client[j] # -1
       /\ fds' = [fds EXCEPT ![connfd] = Head(backlog)]
  /\ TakeFromBacklog(Head(backlog))
  /\ pc' = "overrun"
  /\ UNCHANGED <<i, buf, client, maxi, maxfd, allset, rset, nready>>

\* Mutant: accept() is retried until it succeeds.
AcceptRetries ==
  /\ pc = "accept"
  /\ FreeFds = {} \/ AcceptErrors
  /\ UNCHANGED vars

\* accept() returns -1; Linux looks for a descriptor before it looks at the
\* queue.  Nobody checks the result: -1 is stored in the slot found, which
\* leaves it available but may raise maxi, and is passed to FD_SET().
AcceptFails ==
  /\ pc = "accept"
  /\ FreeFds = {} \/ AcceptErrors
  /\ \E j \in Slots :
       /\ FirstSlot(j)
       /\ maxi' = IF j > maxi THEN j ELSE maxi
  /\ allset' = allset \cup {StrayBit}
  /\ AcceptDone
  /\ UNCHANGED <<netVars, client, maxfd, fds, i, buf, rset>>

-----------------------------------------------------------------------------
(* The scan over client[].                                                 *)

\* Mutant: the slot is looked up in allset instead of rset.
ChosenIfWatched == pc = "scan" /\ i <= maxi /\ client[i] # -1 /\ client[i] \in allset

Chosen == pc = "scan" /\ i <= maxi /\ client[i] # -1 /\ client[i] \in rset

\* if(--nready <= 0) break;
SlotDone ==
  /\ nready' = nready - 1
  /\ IF nready' <= 0 THEN pc' = "select" /\ i' = 0
                     ELSE pc' = "scan" /\ i' = i + 1

\* A slot that is free or was not reported; past maxi the loop ends.
SkipSlot ==
  /\ pc = "scan" /\ ~Chosen
  /\ IF i <= maxi THEN pc' = "scan" /\ i' = i + 1
                  ELSE pc' = "select" /\ i' = 0
  /\ UNCHANGED <<netVars, tableVars, buf, rset, nready>>

\* read() returns data.
ReadData ==
  /\ Chosen
  /\ LET c == fds[client[i]] IN
       /\ Unread(c) > 0
       /\ buf' = Chunk(c, BUF)
       /\ Consume(c, Len(buf'))
  /\ pc' = "write"
  /\ UNCHANGED <<tableVars, i, rset, nready>>

\* Mutants of ReadEnd: the descriptor stays in allset; the connection is shut
\* down but not closed; the end of file is acted on before the data that
\* precedes it.
KeepsWatching ==
  /\ Chosen
  /\ LET sockfd == client[i]
         c == fds[sockfd]
     IN  /\ Unread(c) = 0 /\ Readable(c)
         /\ ServerCloses(c)
         /\ fds' = [fds EXCEPT ![sockfd] = NoConn]
         /\ client' = [client EXCEPT ![i] = -1]
  /\ SlotDone
  /\ UNCHANGED <<allset, maxi, maxfd, buf, rset>>

ShutsDownOnly ==
  /\ Chosen
  /\ LET sockfd == client[i]
         c == fds[sockfd]
     IN  /\ Unread(c) = 0 /\ Readable(c)
         /\ ServerCloses(c)
         /\ allset' = allset \ {sockfd}
         /\ client' = [client EXCEPT ![i] = -1]
  /\ SlotDone
  /\ UNCHANGED <<fds, maxi, maxfd, buf, rset>>

EndsEarly ==
  /\ Chosen
  /\ LET sockfd == client[i]
         c == fds[sockfd]
     IN  /\ half[c] # "open" \/ rst[c]
         /\ ServerCloses(c)
         /\ fds' = [fds EXCEPT ![sockfd] = NoConn]
         /\ allset' = allset \ {sockfd}
         /\ client' = [client EXCEPT ![i] = -1]
  /\ SlotDone
  /\ UNCHANGED <<maxi, maxfd, buf, rset>>

\* read() returns 0 or -1: there is no data and the peer finished or a reset
\* came.
ReadEnd ==
  /\ Chosen
  /\ LET sockfd == client[i]
         c == fds[sockfd]
     IN  /\ Unread(c) = 0 /\ Readable(c)
         /\ ServerCloses(c)
         /\ fds' = [fds EXCEPT ![sockfd] = NoConn]
         /\ allset' = allset \ {sockfd}
         /\ client' = [client EXCEPT ![i] = -1]
  /\ SlotDone
  /\ UNCHANGED <<maxi, maxfd, buf, rset>>

\* Mutant: what a short write() left over is forgotten.
ShortWrite ==
  /\ pc = "write"
  /\ LET c == fds[client[i]]
         n == Smaller(Room(c), Len(buf))
     IN  /\ ~rst[c] /\ n > 0
         /\ Deliver(c, SubSeq(buf, 1, n))
  /\ buf' = << >>
  /\ SlotDone
  /\ UNCHANGED <<tableVars, rset>>

\* write() blocks until everything is handed over; it moves what fits.
WriteSome ==
  /\ pc = "write"
  /\ LET c == fds[client[i]]
         n == Smaller(Room(c), Len(buf))
     IN  /\ ~rst[c] /\ n > 0
         /\ Deliver(c, SubSeq(buf, 1, n))
         /\ buf' = SubSeq(buf, n + 1, Len(buf))
  /\ IF buf' = << >> THEN SlotDone ELSE UNCHANGED <<pc, i, nready>>
  /\ UNCHANGED <<tableVars, rset>>

\* The whole process ends and the kernel closes its descriptors.
Die ==
  /\ ServerDies
  /\ pc' = "killed"
  /\ fds' = [f \in Descriptors |-> NoConn]
  /\ UNCHANGED <<i, buf, client, maxi, maxfd, allset, rset, nready>>

\* write() on a connection that was reset: the process has SIGPIPE at its
\* default, so EPIPE kills it; ECONNRESET is returned and not looked at.
WriteFails ==
  /\ pc = "write" /\ rst[fds[client[i]]]
  /\ \/ Die
     \/ /\ buf' = << >>
        /\ SlotDone
        /\ UNCHANGED <<netVars, tableVars, rset>>

-----------------------------------------------------------------------------
ServerStep ==
  \/ Select \/ SelectFails
  \/ Accept \/ AcceptOverruns \/ AcceptFails
  \/ SkipSlot
  \/ ReadData \/ ReadEnd
  \/ WriteSome \/ WriteFails

\* The clients and the network leave the process alone.
PeerStep ==
  /\ \E c \in Conns : ClientStep(c)
  /\ UNCHANGED serverVars

Next == ServerStep \/ PeerStep

Peer(A) == A /\ UNCHANGED serverVars

\* The process runs whenever a system call can return; clients read what they
\* are sent (those of 07/client.c wait for it in select()); a reset arrives.
Fairness ==
  /\ WF_vars(ServerStep)
  /\ \A c \in Conns :
       WF_vars(Peer(ClientReads(c))) /\ WF_vars(Peer(ResetArrives(c)))

Spec == Init /\ [][Next]_vars /\ Fairness

\* The same with clients that stop sending some day.
FinishingSpec ==
  Spec /\ \A c \in Conns : WF_vars(Peer(ClientFinishes(c)))

-----------------------------------------------------------------------------
(* Properties.                                                             *)

Running == pc \notin {"overrun", "killed"}

\* The slots in use and the open descriptors are in one-to-one
\* correspondence, each watched and within the bounds the loops go to: no
\* connection is lost from the table and none is in it twice.
TableAgrees ==
  Running =>
    /\ \A j \in Slots : client[j] # -1 =>
         /\ fds[client[j]] # NoConn
         /\ j <= maxi
         /\ \A k \in Slots : client[k] = client[j] => k = j
    /\ \A f \in Descriptors : fds[f] # NoConn =>
         /\ \E j \in Slots : client[j] = f
         /\ f \in allset /\ f <= maxfd
    /\ listenfd \in allset
    /\ \A f \in allset : IsOpen(f) \/ f = StrayBit

\* Each descriptor is a connection of its own, and one the server has open.
FdsAgree ==
  Running =>
    \A f \in Descriptors : fds[f] # NoConn =>
      /\ life[fds[f]] = "open"
      /\ \A g \in Descriptors : fds[g] = fds[f] => g = f

\* The loop that scans client[] stops exactly when nothing that select()
\* reported is left: nready counts the reported slots not yet handled.
ToHandle == {j \in i .. maxi : client[j] # -1 /\ client[j] \in rset}

NreadyExact ==
  pc \in {"scan", "write"} => nready = Cardinality(ToHandle)

\* The read() that follows select() does not block: what select() reported is
\* still true of the connection that holds the descriptor now.
ReadNeverBlocks == Chosen => Readable(fds[client[i]])

\* The accept() that follows select() does not block (README.MD:1577).
AcceptNeverBlocks == pc = "accept" => backlog # << >>

\* The process never goes past the end of client[] or of an fd_set, however
\* many clients come: 07/server.c:174-175 means to notice when it is full.
NoOverrun == pc # "overrun"

\* What is written back to a connection is what was read from it, in order
\* and once, and nothing read is lost unless the connection was reset.
EchoFaithful ==
  \A c \in Conns :
    /\ echo[c] = [k \in 1 .. Len(echo[c]) |-> <<c, k>>]
    /\ \/ got[c] = Len(echo[c])
       \/ rst[c] \/ ~Running
       \/ /\ pc = "write" /\ fds[client[i]] = c
          /\ buf = [k \in 1 .. got[c] - Len(echo[c]) |-> <<c, Len(echo[c]) + k>>]

\* The server closes a connection only after its client stopped sending, and
\* only after it has echoed everything, or was reset.
ClosesWhenDone ==
  [][\A c \in Conns :
       life[c] = "open" /\ life'[c] = "shut" =>
         \/ pc' = "killed"
         \/ half[c] # "open" /\ (rst[c] \/ Len(echo[c]) = sent[c])]_vars

\* The server implements the abstract echo service.
Echo == INSTANCE EchoService WITH
          Conns <- Conns, MaxBytes <- MaxBytes,
          life <- life, sent <- sent, half <- half, rst <- rst, echo <- echo

ImplementsEcho == Echo!Spec

\* Clients that found no descriptor free wait in the queue until one is, and
\* are then served: the failed accept() calls leave no trace that stops it.
EveryoneServed ==
  \A c \in Conns : life[c] = "queued" ~> life[c] = "shut"
=============================================================================
