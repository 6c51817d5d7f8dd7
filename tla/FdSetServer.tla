----------------------------- MODULE FdSetServer -----------------------------
(***************************************************************************)
(* The echo server of src/06/server.c: one process and one select() like   *)
(* SelectServer, but without a table of clients.  The descriptor set       *)
(* read_fds is all it knows of them; after every select() it walks all the *)
(* descriptors above the listening one, connection just accepted or not.   *)
(***************************************************************************)
EXTENDS TcpNet

CONSTANTS
  FD_SETSIZE,    \* bits of an fd_set
  NOFILE,        \* the process's limit on open descriptors
  listen_fd,     \* the listening socket; the descriptors below it are in use
  BUFFER_SIZE,   \* bytes one read() takes
  NoConn,        \* marks a descriptor that is not open
  AcceptErrors,  \* TRUE: accept() may fail for want of system resources
  StrayBit       \* the bit FD_SET(-1, &read_fds) sets

ASSUME FdSetAssumption ==
  /\ listen_fd \in Nat
  /\ FD_SETSIZE \in Nat /\ listen_fd < FD_SETSIZE
  /\ NOFILE \in Nat /\ listen_fd < NOFILE
  /\ BUFFER_SIZE \in Nat \ {0}
  /\ NoConn \notin Conns
  /\ AcceptErrors \in BOOLEAN
  /\ StrayBit \in listen_fd + 1 .. FD_SETSIZE - 1

VARIABLES
  pc,        \* the system call the process is at, or how it ended
  i,         \* the descriptor the walk is at
  buffer,    \* the bytes read and not yet sent back
  read_fds,  \* the descriptors to watch
  temp_fds,  \* those select() reported
  max_fd,    \* highest descriptor ever used
  fds        \* the kernel's descriptor table of the process

setVars == <<read_fds, max_fd, fds>>
serverVars == <<pc, i, buffer, temp_fds, setVars>>
vars == <<netVars, serverVars>>

Descriptors == listen_fd + 1 .. NOFILE - 1

TypeOK ==
  /\ NetTypeOK
  /\ pc \in {"select", "accept", "walk", "send", "overrun", "killed"}
  /\ i \in listen_fd + 1 .. FD_SETSIZE
  /\ buffer \in Seq(Byte)
  /\ read_fds \in SUBSET (listen_fd .. FD_SETSIZE - 1)
  /\ temp_fds \in SUBSET (listen_fd .. FD_SETSIZE - 1)
  /\ max_fd \in listen_fd .. FD_SETSIZE - 1
  /\ fds \in [Descriptors -> Conns \cup {NoConn}]

Init ==
  /\ NetInit
  /\ pc = "select"
  /\ i = listen_fd + 1
  /\ buffer = << >>
  /\ read_fds = {listen_fd}
  /\ temp_fds = {}
  /\ max_fd = listen_fd
  /\ fds = [f \in Descriptors |-> NoConn]

-----------------------------------------------------------------------------
IsOpen(f) == f = listen_fd \/ (f \in Descriptors /\ fds[f] # NoConn)

FdReady(f) == IF f = listen_fd THEN backlog # << >> ELSE Readable(fds[f])

Watched == {f \in read_fds : f <= max_fd}

\* With a watched descriptor that is not open select() returns -1 and the
\* while(1) comes straight back to it: the process spins and no step is taken.
Select ==
  /\ pc = "select"
  /\ \A f \in Watched : IsOpen(f)
  /\ temp_fds' = {f \in Watched : FdReady(f)}
  /\ temp_fds' # {}
  /\ pc' = IF listen_fd \in temp_fds' THEN "accept" ELSE "walk"
  /\ i' = listen_fd + 1
  /\ UNCHANGED <<netVars, setVars, buffer>>

FreeFds == {f \in Descriptors : fds[f] = NoConn}

LowestFree(f) == f \in FreeFds /\ \A g \in FreeFds : f <= g

Accept ==
  /\ pc = "accept" /\ backlog # << >>
  /\ \E conn_fd \in Descriptors :
       /\ LowestFree(conn_fd) /\ conn_fd < FD_SETSIZE
       /\ fds' = [fds EXCEPT ![conn_fd] = Head(backlog)]
       /\ read_fds' = read_fds \cup {conn_fd}
       /\ max_fd' = IF conn_fd > max_fd THEN conn_fd ELSE max_fd
  /\ TakeFromBacklog(Head(backlog))
  /\ pc' = "walk"
  /\ UNCHANGED <<i, buffer, temp_fds>>

\* FD_SET() of a descriptor the set has no bit for writes past its end; what
\* follows is not modelled.
AcceptOverruns ==
  /\ pc = "accept" /\ backlog # << >>
  /\ \E conn_fd \in Descriptors :
       /\ LowestFree(conn_fd) /\ conn_fd >= FD_SETSIZE
       /\ fds' = [fds EXCEPT ![conn_fd] = Head(backlog)]
  /\ TakeFromBacklog(Head(backlog))
  /\ pc' = "overrun"
  /\ UNCHANGED <<i, buffer, read_fds, max_fd, temp_fds>>

\* -1 goes to FD_SET() unseen; it never exceeds max_fd.
AcceptFails ==
  /\ pc = "accept"
  /\ FreeFds = {} \/ AcceptErrors
  /\ read_fds' = read_fds \cup {StrayBit}
  /\ pc' = "walk"
  /\ UNCHANGED <<netVars, i, buffer, temp_fds, max_fd, fds>>

-----------------------------------------------------------------------------
\* Mutant: the walk asks read_fds.
ChosenIfWatched == pc = "walk" /\ i <= max_fd /\ i \in read_fds

Chosen == pc = "walk" /\ i <= max_fd /\ i \in temp_fds

Step == pc' = "walk" /\ i' = i + 1

SkipFd ==
  /\ pc = "walk" /\ ~Chosen
  /\ IF i <= max_fd THEN Step
                    ELSE pc' = "select" /\ i' = listen_fd + 1
  /\ UNCHANGED <<netVars, setVars, buffer, temp_fds>>

\* Mutant: what read() returned is taken for BUFFER_SIZE.
ReadFull ==
  /\ Chosen
  /\ Unread(fds[i]) > 0
  /\ buffer' = [k \in 1 .. BUFFER_SIZE |-> <<fds[i], got[fds[i]] + k>>]
  /\ Consume(fds[i], Len(buffer'))
  /\ pc' = "send"
  /\ UNCHANGED <<setVars, i, temp_fds>>

\* read() returns data.  The terminating zero goes to buffer[ret], one byte
\* past a full buffer; nothing modelled depends on that byte.
ReadData ==
  /\ Chosen
  /\ Unread(fds[i]) > 0
  /\ buffer' = Chunk(fds[i], BUFFER_SIZE)
  /\ Consume(fds[i], Len(buffer'))
  /\ pc' = "send"
  /\ UNCHANGED <<setVars, i, temp_fds>>

\* Mutant: FD_CLR() is missing.
ReadEndKeepsBit ==
  /\ Chosen
  /\ Unread(fds[i]) = 0 /\ half[fds[i]] # "open"
  /\ ServerCloses(fds[i])
  /\ fds' = [fds EXCEPT ![i] = NoConn]
  /\ Step
  /\ UNCHANGED <<buffer, temp_fds, read_fds, max_fd>>

\* read() returns 0.
ReadEnd ==
  /\ Chosen
  /\ Unread(fds[i]) = 0 /\ half[fds[i]] # "open"
  /\ ServerCloses(fds[i])
  /\ fds' = [fds EXCEPT ![i] = NoConn]
  /\ read_fds' = read_fds \ {i}
  /\ Step
  /\ UNCHANGED <<buffer, temp_fds, max_fd>>

\* read() returns -1 after a reset, which only ret == 0 is compared with: the
\* descriptor stays, and -1 bytes are sent.
ReadError ==
  /\ Chosen
  /\ Unread(fds[i]) = 0 /\ rst[fds[i]]
  /\ pc' = "send" /\ buffer' = << >>
  /\ UNCHANGED <<netVars, setVars, i, temp_fds>>

\* Mutant: what did not fit is dropped.
ShortSend ==
  /\ pc = "send"
  /\ LET c == fds[i]
         n == Smaller(Room(c), Len(buffer))
     IN  /\ ~rst[c] /\ n > 0
         /\ Deliver(c, SubSeq(buffer, 1, n))
  /\ buffer' = << >>
  /\ Step
  /\ UNCHANGED <<setVars, temp_fds>>

\* send() blocks until everything is handed over; it moves what fits.
SendSome ==
  /\ pc = "send"
  /\ LET c == fds[i]
         n == Smaller(Room(c), Len(buffer))
     IN  /\ ~rst[c] /\ n > 0
         /\ Deliver(c, SubSeq(buffer, 1, n))
         /\ buffer' = SubSeq(buffer, n + 1, Len(buffer))
  /\ IF buffer' = << >> THEN Step ELSE UNCHANGED <<pc, i>>
  /\ UNCHANGED <<setVars, temp_fds>>

Die ==
  /\ ServerDies
  /\ pc' = "killed"
  /\ fds' = [f \in Descriptors |-> NoConn]
  /\ UNCHANGED <<i, buffer, read_fds, temp_fds, max_fd>>

\* send() on a connection that was reset.  EPIPE comes with SIGPIPE, always
\* so if read() has taken the pending error before; ECONNRESET is ignored.
SendFails ==
  /\ pc = "send" /\ rst[fds[i]]
  /\ \/ Die
     \/ /\ buffer # << >>
        /\ buffer' = << >>
        /\ Step
        /\ UNCHANGED <<netVars, setVars, temp_fds>>

ServerStep ==
  \/ Select \/ Accept \/ AcceptOverruns \/ AcceptFails
  \/ SkipFd \/ ReadData \/ ReadEnd \/ ReadError
  \/ SendSome \/ SendFails

PeerStep ==
  /\ \E c \in Conns : ClientStep(c)
  /\ UNCHANGED serverVars

Next == ServerStep \/ PeerStep

Peer(A) == A /\ UNCHANGED serverVars

Fairness ==
  /\ WF_vars(ServerStep)
  /\ \A c \in Conns : WF_vars(Peer(ClientReads(c))) /\ WF_vars(Peer(ResetArrives(c)))

Spec == Init /\ [][Next]_vars /\ Fairness

-----------------------------------------------------------------------------
(* Properties.                                                             *)

Running == pc \notin {"overrun", "killed"}

\* read_fds is exactly the listening socket and the open connections (and at
\* worst the stray bit), each on one descriptor and within max_fd: the walk
\* misses nobody.
SetsAgree ==
  Running =>
    /\ listen_fd \in read_fds
    /\ \A f \in read_fds : IsOpen(f) \/ f = StrayBit
    /\ \A f \in Descriptors : fds[f] # NoConn =>
         /\ f \in read_fds /\ f <= max_fd
         /\ life[fds[f]] = "open"
         /\ \A g \in Descriptors : fds[g] = fds[f] => g = f

\* The walk's read() does not block, although the walk reaches beyond the
\* max_fd select() was called with.
ReadNeverBlocks == Chosen => Readable(fds[i])

\* What is sent back to a client is what it sent, in order and once; nothing
\* read is lost unless the connection was reset.
EchoFaithful ==
  \A c \in Conns :
    /\ echo[c] = [k \in 1 .. Len(echo[c]) |-> <<c, k>>]
    /\ \/ got[c] = Len(echo[c])
       \/ rst[c] \/ ~Running
       \/ /\ pc = "send" /\ fds[i] = c
          /\ buffer = [k \in 1 .. got[c] - Len(echo[c]) |-> <<c, Len(echo[c]) + k>>]

\* The server implements the abstract echo service.
Echo == INSTANCE EchoService WITH
          Conns <- Conns, MaxBytes <- MaxBytes,
          life <- life, sent <- sent, half <- half, rst <- rst, echo <- echo

ImplementsEcho == Echo!Spec
=============================================================================
