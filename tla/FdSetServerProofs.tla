-------------------------- MODULE FdSetServerProofs --------------------------
(***************************************************************************)
(* What holds of FdSetServer for every number of clients, bytes and        *)
(* descriptors.  The server has no table of its clients: that the walk     *)
(* finds an open connection behind every descriptor select() reported is   *)
(* part of what keeps read_fds right, so one inductive invariant carries   *)
(* the sets, the walk and the types together.                              *)
(***************************************************************************)
EXTENDS FdSetServer, TcpNetProofs, FiniteSetTheorems

\* The reported descriptors the walk has still to come to.
Ahead(f) ==
  /\ f \in temp_fds /\ f # listen_fd
  /\ \/ pc = "accept"
     \/ pc = "walk" /\ f >= i
     \/ pc = "send" /\ f > i

\* Each is open and still readable.
WalkReady ==
  \A f \in temp_fds : Ahead(f) =>
    f \in Descriptors /\ fds[f] # NoConn /\ Readable(fds[f])

\* The walk starts above the listening socket, and is at an open descriptor
\* while send() is under way.
WalkAt ==
  /\ pc = "accept" => i = listen_fd + 1
  /\ pc = "send" => i <= max_fd /\ i \in Descriptors /\ fds[i] # NoConn

\* The inductive invariant.
IInv ==
  /\ TypeOK
  /\ SetsAgree
  /\ QueueAgrees
  /\ WalkReady
  /\ WalkAt

\* While send() is under way, buffer is what is still to be sent back.
SendAgrees == pc = "send" => rst[fds[i]] \/ buffer = Rest(fds[i])

\* The inductive invariant about the bytes, on top of IInv.
EInv == CountsAgree /\ EchoFaithful /\ SendAgrees

-----------------------------------------------------------------------------
(* The sets, the walk and the types.                                       *)

\* The descriptor the walk acts on is an open connection, and its read()
\* does not block.
LEMMA WalkConn ==
  ASSUME IInv, Chosen \/ pc = "send"
  PROVE  /\ Running /\ i \in Descriptors /\ i # listen_fd /\ i <= max_fd
         /\ fds[i] \in Conns /\ fds[i] # NoConn /\ life[fds[i]] = "open"
         /\ Chosen => Readable(fds[i])
<1>1. i \in listen_fd + 1 .. FD_SETSIZE /\ i # listen_fd /\ i <= max_fd /\ Running
  BY FdSetAssumption DEF IInv, TypeOK, WalkAt, Chosen, Running
<1>2. i \in Descriptors /\ fds[i] # NoConn /\ (Chosen => Readable(fds[i]))
  <2>1. CASE Chosen
    <3>1. Ahead(i) /\ i \in temp_fds
      BY <1>1, <2>1, FdSetAssumption DEF Ahead, Chosen
    <3>. QED  BY <3>1 DEF IInv, WalkReady
  <2>2. CASE ~Chosen
    BY <2>2 DEF IInv, WalkAt
  <2>. QED  BY <2>1, <2>2
<1>3. fds[i] \in Conns
  BY <1>2 DEF IInv, TypeOK
<1>. QED  BY <1>1, <1>2, <1>3 DEF IInv, SetsAgree

LEMMA PeerKeeps ==
  ASSUME IInv, PeerStep
  PROVE  IInv'
<1>1. PICK c \in Conns : ClientStep(c)
  BY DEF PeerStep
<1>2. UNCHANGED <<pc, i, buffer, temp_fds, read_fds, max_fd, fds>>
  BY DEF PeerStep, serverVars, setVars
<1>3. /\ NetTypeOK' /\ QueueAgrees'
      /\ \A d \in Conns : life[d] = "open" => life'[d] = "open"
  BY <1>1, ClientStepKeeps DEF IInv, TypeOK
<1>4. TypeOK'
  BY <1>2, <1>3 DEF IInv, TypeOK
<1>5. SetsAgree'
  BY <1>2, <1>3 DEF IInv, TypeOK, SetsAgree, Running, IsOpen
<1>6. WalkReady'
  <2>. SUFFICES ASSUME NEW f \in temp_fds, Ahead(f)
                PROVE  f \in Descriptors /\ fds[f] # NoConn /\ Readable(fds[f])'
    BY <1>2 DEF WalkReady, Ahead
  <2>1. f \in Descriptors /\ fds[f] # NoConn /\ Readable(fds[f])
    BY DEF IInv, WalkReady
  <2>2. PICK d \in Conns : d = fds[f]
    BY <2>1 DEF IInv, TypeOK
  <2>3. Readable(d)'
    BY <1>1, <2>1, <2>2, ReadableStays DEF IInv, TypeOK
  <2>. QED  BY <1>2, <2>1, <2>2, <2>3 DEF Readable, Unread
<1>7. WalkAt'
  BY <1>2 DEF IInv, WalkAt
<1>. QED  BY <1>3, <1>4, <1>5, <1>6, <1>7 DEF IInv

\* select() reports open descriptors only.
LEMMA SelectKeeps ==
  ASSUME IInv, Select
  PROVE  IInv'
<1>1. /\ pc = "select" /\ pc' \in {"accept", "walk"} /\ i' = listen_fd + 1
      /\ temp_fds' = {f \in Watched : FdReady(f)}
      /\ \A f \in Watched : IsOpen(f)
      /\ UNCHANGED <<buffer, read_fds, max_fd, fds>>
      /\ UNCHANGED <<backlog, life, sent, half, rst, got, echo, drained>>
  BY DEF Select, netVars, setVars
<1>2. temp_fds' \in SUBSET (listen_fd .. FD_SETSIZE - 1)
  BY <1>1 DEF IInv, TypeOK, Watched
<1>3. TypeOK' /\ QueueAgrees'
  BY <1>1, <1>2, FdSetAssumption DEF IInv, TypeOK, NetTypeOK, QueueAgrees
<1>4. SetsAgree'
  BY <1>1 DEF IInv, SetsAgree, Running, IsOpen
<1>5. WalkReady'
  BY <1>1 DEF WalkReady, Ahead, IsOpen, FdReady, Readable, Unread
<1>6. WalkAt'
  BY <1>1 DEF WalkAt
<1>. QED  BY <1>3, <1>4, <1>5, <1>6 DEF IInv

\* A connection accepted gets a descriptor that was free: select() did not
\* report it, and no other is the same connection.
LEMMA AcceptKeeps ==
  ASSUME IInv, Accept
  PROVE  IInv'
<1>1. PICK conn_fd \in Descriptors :
        /\ fds[conn_fd] = NoConn /\ conn_fd < FD_SETSIZE
        /\ fds' = [fds EXCEPT ![conn_fd] = Head(backlog)]
        /\ read_fds' = read_fds \cup {conn_fd}
        /\ max_fd' = IF conn_fd > max_fd THEN conn_fd ELSE max_fd
  BY DEF Accept, LowestFree, FreeFds
<1>2. PICK c \in Conns :
        /\ c = Head(backlog) /\ life[c] = "queued"
        /\ life' = [life EXCEPT ![c] = "open"]
  BY TakeKeeps DEF Accept, IInv, TypeOK
<1>3. NetTypeOK' /\ QueueAgrees'
  BY TakeKeeps DEF Accept, IInv, TypeOK
<1>4. /\ pc = "accept" /\ pc' = "walk" /\ Running /\ Running'
      /\ UNCHANGED <<i, buffer, temp_fds, sent, half, rst, got>>
  BY DEF Accept, TakeFromBacklog, Running
<1>5. /\ c # NoConn /\ conn_fd \in listen_fd + 1 .. FD_SETSIZE - 1
      /\ fds \in [Descriptors -> Conns \cup {NoConn}]
      /\ life \in [Conns -> {"new", "queued", "open", "shut"}]
      /\ max_fd \in listen_fd .. FD_SETSIZE - 1
      /\ listen_fd \in Nat /\ FD_SETSIZE \in Nat
  BY <1>1, FdSetAssumption DEF Descriptors, IInv, TypeOK, NetTypeOK
<1>6. TypeOK'
  BY <1>1, <1>2, <1>3, <1>4, <1>5 DEF IInv, TypeOK
<1>7. SetsAgree'
  <2>1. listen_fd \in read_fds'
    BY <1>1, <1>4 DEF IInv, SetsAgree
  <2>2. ASSUME NEW f \in read_fds'
        PROVE  IsOpen(f)' \/ f = StrayBit
    BY <1>1, <1>2, <1>4, <1>5 DEF IInv, SetsAgree, IsOpen
  <2>3. ASSUME NEW f \in Descriptors, fds'[f] # NoConn
        PROVE  f \in read_fds' /\ f <= max_fd'
    <3>1. f \in Int
      BY FdSetAssumption DEF Descriptors
    <3>2. f = conn_fd \/ (f \in read_fds /\ f <= max_fd)
      BY <1>1, <1>4, <1>5, <2>3 DEF IInv, SetsAgree
    <3>. QED  BY <1>1, <1>5, <3>1, <3>2
  <2>4. \A f \in Descriptors : fds[f] # NoConn =>
          /\ life[fds[f]] = "open"
          /\ \A g \in Descriptors : fds[g] = fds[f] => g = f
    BY <1>4 DEF IInv, SetsAgree
  <2>5. ASSUME NEW f \in Descriptors, fds'[f] # NoConn
        PROVE  /\ life'[fds'[f]] = "open"
               /\ \A g \in Descriptors : fds'[g] = fds'[f] => g = f
    BY ONLY <1>1, <1>2, <1>5, <2>4, <2>5, f \in Descriptors
  <2>. QED  BY <2>1, <2>2, <2>3, <2>5 DEF SetsAgree
<1>8. WalkReady'
  <2>. SUFFICES ASSUME NEW f \in temp_fds, Ahead(f)'
                PROVE  f \in Descriptors /\ fds'[f] # NoConn /\ Readable(fds[f])'
    BY <1>4 DEF WalkReady
  <2>1. f \in Descriptors /\ fds[f] # NoConn /\ Readable(fds[f])
    BY <1>4 DEF IInv, WalkReady, Ahead
  <2>2. fds'[f] = fds[f]
    BY <1>1, <1>5, <2>1
  <2>. QED  BY <1>4, <2>1, <2>2 DEF Readable, Unread
<1>9. WalkAt'
  BY <1>4 DEF WalkAt
<1>. QED  BY <1>3, <1>6, <1>7, <1>8, <1>9 DEF IInv

\* Past the end of an fd_set, or dead, the process does nothing any more.
LEMMA EndKeeps ==
  ASSUME IInv, AcceptOverruns \/ Die
  PROVE  IInv'
<1>1. NetTypeOK' /\ QueueAgrees'
  BY TakeKeeps, RefuseKeeps DEF AcceptOverruns, Die, IInv, TypeOK
<1>2. /\ pc' \in {"overrun", "killed"}
      /\ UNCHANGED <<i, buffer, read_fds, max_fd, temp_fds>>
      /\ fds' \in [Descriptors -> Conns \cup {NoConn}]
  <2>1. AcceptOverruns => Head(backlog) \in Conns
    BY TakeKeeps DEF AcceptOverruns, IInv, TypeOK
  <2>. QED  BY <2>1 DEF AcceptOverruns, Die, IInv, TypeOK
<1>3. TypeOK'
  BY <1>1, <1>2 DEF IInv, TypeOK
<1>4. SetsAgree' /\ WalkReady' /\ WalkAt'
  BY <1>2 DEF SetsAgree, Running, WalkReady, Ahead, WalkAt
<1>. QED  BY <1>1, <1>3, <1>4 DEF IInv

LEMMA AcceptFailsKeeps ==
  ASSUME IInv, AcceptFails
  PROVE  IInv'
<1>1. /\ pc = "accept" /\ pc' = "walk" /\ read_fds' = read_fds \cup {StrayBit}
      /\ UNCHANGED <<i, buffer, temp_fds, max_fd, fds>>
      /\ UNCHANGED <<backlog, life, sent, half, rst, got, echo, drained>>
  BY DEF AcceptFails, netVars
<1>2. TypeOK' /\ QueueAgrees'
  BY <1>1, FdSetAssumption DEF IInv, TypeOK, NetTypeOK, QueueAgrees
<1>3. SetsAgree' /\ WalkAt'
  BY <1>1 DEF IInv, SetsAgree, Running, IsOpen, WalkAt
<1>4. WalkReady'
  BY <1>1 DEF IInv, WalkReady, Ahead, Readable, Unread
<1>. QED  BY <1>2, <1>3, <1>4 DEF IInv

\* The walk goes on: what it leaves behind need not be open any more, what is
\* ahead of it must be untouched.
LEMMA StepKeeps ==
  ASSUME IInv, pc \in {"walk", "send"}, Step, i <= max_fd,
         NetTypeOK', QueueAgrees', SetsAgree',
         buffer' \in Seq(Byte), read_fds' \in SUBSET (listen_fd .. FD_SETSIZE - 1),
         fds' \in [Descriptors -> Conns \cup {NoConn}],
         \A f \in Descriptors \ {i} : fds'[f] = fds[f],
         UNCHANGED <<temp_fds, max_fd, sent, half, rst, got>>
  PROVE  IInv'
<1>1. pc' = "walk" /\ i' = i + 1
  BY DEF Step
<1>2. i \in Int /\ i' \in listen_fd + 1 .. FD_SETSIZE
  BY <1>1, FdSetAssumption DEF IInv, TypeOK
<1>3. TypeOK'
  BY <1>1, <1>2 DEF IInv, TypeOK
<1>4. WalkReady'
  <2>. SUFFICES ASSUME NEW f \in temp_fds, f # listen_fd, f >= i + 1
                PROVE  f \in Descriptors /\ fds'[f] # NoConn /\ Readable(fds[f])'
    BY <1>1 DEF WalkReady, Ahead
  <2>1. f \in Int
    BY FdSetAssumption DEF IInv, TypeOK
  <2>2. Ahead(f) /\ f # i
    BY <1>2, <2>1 DEF Ahead
  <2>3. f \in Descriptors /\ fds[f] # NoConn /\ Readable(fds[f])
    BY <2>2 DEF IInv, WalkReady
  <2>. QED  BY <2>2, <2>3 DEF Readable, Unread
<1>5. WalkAt'
  BY <1>1 DEF WalkAt
<1>. QED  BY <1>3, <1>4, <1>5 DEF IInv

LEMMA SkipKeeps ==
  ASSUME IInv, SkipFd
  PROVE  IInv'
<1>1. /\ pc = "walk"
      /\ UNCHANGED <<buffer, temp_fds, read_fds, max_fd, fds>>
      /\ UNCHANGED <<backlog, life, sent, half, rst, got, echo, drained>>
  BY DEF SkipFd, netVars, setVars
<1>2. NetTypeOK' /\ QueueAgrees'
  BY <1>1 DEF IInv, TypeOK, NetTypeOK, QueueAgrees
<1>3. CASE i <= max_fd
  <2>1. Step
    BY <1>3 DEF SkipFd
  <2>2. SetsAgree'
    BY <1>1, <2>1 DEF IInv, SetsAgree, Running, IsOpen, Step
  <2>. QED  BY <1>1, <1>2, <1>3, <2>1, <2>2, StepKeeps DEF IInv, TypeOK
<1>4. CASE ~(i <= max_fd)
  <2>1. pc' = "select" /\ i' = listen_fd + 1
    BY <1>4 DEF SkipFd
  <2>2. TypeOK'
    BY <1>1, <1>2, <2>1, FdSetAssumption DEF IInv, TypeOK
  <2>3. SetsAgree' /\ WalkReady' /\ WalkAt'
    BY <1>1, <2>1 DEF IInv, SetsAgree, Running, IsOpen, WalkReady, Ahead, WalkAt
  <2>. QED  BY <1>2, <2>2, <2>3 DEF IInv
<1>. QED  BY <1>3, <1>4

\* read() takes bytes from one connection, and no other descriptor is that
\* connection.
LEMMA ReadKeeps ==
  ASSUME IInv, ReadData \/ ReadError
  PROVE  IInv'
<1>1. PICK c \in Conns :
        /\ c = fds[i] /\ i \in Descriptors /\ fds[i] # NoConn /\ i <= max_fd /\ Running
  BY WalkConn DEF ReadData, ReadError
<1>2. /\ pc = "walk" /\ pc' = "send" /\ UNCHANGED <<i, temp_fds, read_fds, max_fd, fds>>
      /\ UNCHANGED <<life, sent, half, rst>>
      /\ got' = got \/ \E n : got' = [got EXCEPT ![c] = n]
  BY <1>1 DEF ReadData, ReadError, Chosen, Consume, netVars, setVars
<1>3. NetTypeOK' /\ QueueAgrees' /\ buffer' \in Seq(Byte)
  <2>1. CASE ReadError
    BY <2>1 DEF ReadError, netVars, IInv, TypeOK, NetTypeOK, QueueAgrees
  <2>2. CASE ReadData
    <3>1. /\ Unread(c) > 0 /\ buffer' = Chunk(c, BUFFER_SIZE)
          /\ Consume(c, Len(Chunk(c, BUFFER_SIZE)))
      BY <1>1, <2>2 DEF ReadData
    <3>. QED  BY <3>1, ConsumeKeeps, ChunkType, FdSetAssumption DEF IInv, TypeOK
  <2>. QED  BY <2>1, <2>2
<1>4. TypeOK'
  BY <1>2, <1>3 DEF IInv, TypeOK
<1>5. SetsAgree' /\ WalkAt'
  BY <1>1, <1>2 DEF IInv, SetsAgree, Running, IsOpen, WalkAt
<1>6. WalkReady'
  <2>. SUFFICES ASSUME NEW f \in temp_fds, f # listen_fd, f > i
                PROVE  f \in Descriptors /\ fds[f] # NoConn /\ Readable(fds[f])'
    BY <1>2 DEF WalkReady, Ahead
  <2>1. f \in Int /\ i \in Int
    BY FdSetAssumption DEF IInv, TypeOK
  <2>2. f \in Descriptors /\ fds[f] # NoConn /\ Readable(fds[f])
    BY <1>2, <2>1 DEF IInv, WalkReady, Ahead
  <2>3. PICK d \in Conns : d = fds[f] /\ d # c
    <3>1. fds[f] \in Conns
      BY <2>2 DEF IInv, TypeOK
    <3>. QED  BY <1>1, <2>1, <2>2, <3>1 DEF IInv, SetsAgree
  <2>4. got'[d] = got[d]
    BY <1>2, <2>3 DEF IInv, TypeOK, NetTypeOK
  <2>. QED  BY <1>2, <2>2, <2>3, <2>4 DEF Readable, Unread
<1>. QED  BY <1>3, <1>4, <1>5, <1>6 DEF IInv

LEMMA ReadEndKeeps ==
  ASSUME IInv, ReadEnd
  PROVE  IInv'
<1>1. PICK c \in Conns :
        /\ c = fds[i] /\ i \in Descriptors /\ fds[i] # NoConn /\ i <= max_fd /\ Running
        /\ life[c] = "open" /\ i # listen_fd
  BY WalkConn DEF ReadEnd
<1>2. /\ pc = "walk" /\ Step /\ ServerCloses(c)
      /\ fds' = [fds EXCEPT ![i] = NoConn] /\ read_fds' = read_fds \ {i}
      /\ UNCHANGED <<buffer, temp_fds, max_fd, sent, half, rst, got>>
  BY <1>1 DEF ReadEnd, Chosen, ServerCloses
<1>3. NetTypeOK' /\ QueueAgrees' /\ life' = [life EXCEPT ![c] = "shut"]
  BY <1>1, <1>2, CloseKeeps DEF IInv, TypeOK
<1>4. /\ fds \in [Descriptors -> Conns \cup {NoConn}]
      /\ life \in [Conns -> {"new", "queued", "open", "shut"}]
  BY DEF IInv, TypeOK, NetTypeOK
<1>5. SetsAgree'
  <2>1. listen_fd \in read_fds' /\ \A f \in read_fds' : IsOpen(f)' \/ f = StrayBit
    BY <1>1, <1>2, <1>4 DEF IInv, SetsAgree, IsOpen
  <2>2. ASSUME NEW f \in Descriptors, fds'[f] # NoConn
        PROVE  /\ f \in read_fds' /\ f <= max_fd'
               /\ life'[fds'[f]] = "open"
               /\ \A g \in Descriptors : fds'[g] = fds'[f] => g = f
    BY <1>1, <1>2, <1>3, <1>4, <2>2 DEF IInv, SetsAgree
  <2>. QED  BY <2>1, <2>2 DEF SetsAgree
<1>6. /\ fds' \in [Descriptors -> Conns \cup {NoConn}]
      /\ read_fds' \in SUBSET (listen_fd .. FD_SETSIZE - 1)
      /\ \A f \in Descriptors \ {i} : fds'[f] = fds[f]
      /\ buffer' \in Seq(Byte)
  BY <1>2, <1>4 DEF IInv, TypeOK
<1>. QED  BY <1>1, <1>2, <1>3, <1>5, <1>6, StepKeeps

\* What one send() moves, and what it leaves.
LEMMA SendParts ==
  ASSUME IInv, SendSome
  PROVE  \E c \in Conns, n \in 1 .. Len(buffer) :
           /\ c = fds[i] /\ life[c] = "open" /\ ~rst[c] /\ Running
           /\ i \in Descriptors /\ i <= max_fd /\ fds[i] # NoConn
           /\ Deliver(c, SubSeq(buffer, 1, n))
           /\ buffer' = SubSeq(buffer, n + 1, Len(buffer))
           /\ SubSeq(buffer, 1, n) \in Seq(Byte)
           /\ buffer' \in Seq(Byte)
<1>. DEFINE c == fds[i]
            n == Smaller(Room(c), Len(buffer))
<1>1. /\ pc = "send" /\ ~rst[c] /\ n > 0
      /\ Deliver(c, SubSeq(buffer, 1, n))
      /\ buffer' = SubSeq(buffer, n + 1, Len(buffer))
  BY DEF SendSome
<1>2. /\ c \in Conns /\ life[c] = "open" /\ Running /\ NetTypeOK
      /\ i \in Descriptors /\ i <= max_fd /\ fds[i] # NoConn
  BY <1>1, WalkConn DEF IInv, TypeOK
<1>3. buffer \in Seq(Byte) /\ Len(buffer) \in Nat /\ Room(c) \in Int
  BY <1>2, LenProperties, ByteCounts DEF IInv, TypeOK
<1>4. n \in 1 .. Len(buffer)
  BY <1>1, <1>3 DEF Smaller
<1>5. SubSeq(buffer, 1, n) \in Seq(Byte) /\ buffer' \in Seq(Byte)
  BY <1>1, <1>3, <1>4, SplitType
<1>. QED  BY <1>1, <1>2, <1>4, <1>5

LEMMA SendKeeps ==
  ASSUME IInv, SendSome \/ SendFails, ~Die
  PROVE  IInv'
<1>1. /\ pc = "send" /\ UNCHANGED <<temp_fds, read_fds, max_fd, fds>>
      /\ Step \/ UNCHANGED <<pc, i>>
      /\ UNCHANGED <<life, sent, half, rst, got>>
  BY DEF SendSome, SendFails, Deliver, netVars, setVars
<1>2. Running /\ i \in Descriptors /\ i <= max_fd /\ fds[i] # NoConn
  BY <1>1, WalkConn
<1>3. NetTypeOK' /\ QueueAgrees' /\ buffer' \in Seq(Byte)
  <2>1. CASE SendSome
    <3>1. PICK c \in Conns, b \in Seq(Byte) : Deliver(c, b) /\ buffer' \in Seq(Byte)
      BY <2>1, SendParts
    <3>2. NetTypeOK' /\ QueueAgrees'
      BY <3>1, DeliverKeeps DEF IInv, TypeOK
    <3>. QED  BY <3>1, <3>2
  <2>2. CASE SendFails
    <3>1. /\ buffer' = << >>
          /\ UNCHANGED <<backlog, life, sent, half, rst, got, echo, drained>>
      BY <2>2 DEF SendFails, netVars
    <3>. QED  BY <3>1 DEF IInv, TypeOK, NetTypeOK, QueueAgrees
  <2>. QED  BY <2>1, <2>2
<1>4. SetsAgree'
  BY <1>1, <1>2 DEF IInv, SetsAgree, Running, IsOpen, Step
<1>5. CASE Step
  BY <1>1, <1>2, <1>3, <1>4, <1>5, StepKeeps DEF IInv, TypeOK
<1>6. CASE UNCHANGED <<pc, i>>
  <2>1. TypeOK'
    BY <1>1, <1>3, <1>6 DEF IInv, TypeOK
  <2>2. WalkReady' /\ WalkAt'
    BY <1>1, <1>6 DEF IInv, WalkReady, Ahead, WalkAt, Readable, Unread
  <2>. QED  BY <1>3, <1>4, <2>1, <2>2 DEF IInv
<1>. QED  BY <1>1, <1>5, <1>6

-----------------------------------------------------------------------------
LEMMA InitIInv == Init => IInv
<1>. SUFFICES ASSUME Init PROVE IInv
  OBVIOUS
<1>1. NetTypeOK /\ QueueAgrees
  BY InitNet DEF Init
<1>2. TypeOK
  BY <1>1, FdSetAssumption DEF Init, TypeOK
<1>3. SetsAgree /\ WalkReady /\ WalkAt
  BY FdSetAssumption DEF Init, SetsAgree, IsOpen, WalkReady, Ahead, WalkAt
<1>. QED  BY <1>1, <1>2, <1>3 DEF IInv

LEMMA NextIInv == IInv /\ [Next]_vars => IInv'
<1>. SUFFICES ASSUME IInv, [Next]_vars PROVE IInv'
  OBVIOUS
<1>1. CASE PeerStep
  BY <1>1, PeerKeeps
<1>2. CASE Select \/ Accept \/ AcceptFails \/ SkipFd
  BY <1>2, SelectKeeps, AcceptKeeps, AcceptFailsKeeps, SkipKeeps
<1>3. CASE AcceptOverruns \/ Die
  BY <1>3, EndKeeps
<1>4. CASE ReadData \/ ReadError \/ ReadEnd
  BY <1>4, ReadKeeps, ReadEndKeeps
<1>5. CASE (SendSome \/ SendFails) /\ ~Die
  BY <1>5, SendKeeps
<1>6. CASE UNCHANGED vars
  BY <1>6 DEF vars, serverVars, setVars, netVars, IInv, TypeOK, NetTypeOK, SetsAgree,
              QueueAgrees, WalkReady, Ahead, WalkAt, Running, IsOpen, Readable, Unread
<1>. QED  BY <1>1, <1>2, <1>3, <1>4, <1>5, <1>6 DEF Next, ServerStep

THEOREM Invariance == Spec => []IInv
<1>. QED  BY InitIInv, NextIInv, PTL DEF Spec

\* Every variable keeps its type: the walk stays within the bits of an fd_set.
THEOREM TypeCorrect == Spec => []TypeOK
<1>1. IInv => TypeOK
  BY DEF IInv
<1>. QED  BY <1>1, Invariance, PTL

\* read_fds and max_fd agree with the kernel's descriptor table, whatever was
\* accepted, closed or refused since: no client is forgotten, and nobody is
\* served on another's descriptor.
THEOREM SetsSafety == Spec => []SetsAgree
<1>1. IInv => SetsAgree
  BY DEF IInv
<1>. QED  BY <1>1, Invariance, PTL

\* No read() of the walk blocks, although the walk reaches as far as the
\* descriptor accepted after select() returned.
THEOREM ReadSafety == Spec => []ReadNeverBlocks
<1>1. IInv => ReadNeverBlocks
  BY WalkConn DEF ReadNeverBlocks
<1>. QED  BY <1>1, Invariance, PTL

-----------------------------------------------------------------------------
(* The bytes.                                                              *)

\* What EchoFaithful says of one connection.
LEMMA EchoParts ==
  EchoFaithful <=>
    \A c \in Conns :
      /\ InOrder(c)
      /\ \/ got[c] = Len(echo[c]) \/ rst[c] \/ ~Running
         \/ pc = "send" /\ fds[i] = c /\ buffer = Rest(c)
BY DEF EchoFaithful, InOrder, Rest

\* Outside send(), all that was read has been sent back.
LEMMA AllSentBack ==
  ASSUME EInv, Running, NEW c \in Conns, pc = "send" => fds[i] # c
  PROVE  got[c] = Len(echo[c]) \/ rst[c]
BY EchoParts DEF EInv

LEMMA PeerKeepsBytes ==
  ASSUME IInv, EInv, PeerStep
  PROVE  EInv'
<1>1. PICK c \in Conns : ClientStep(c)
  BY DEF PeerStep
<1>2. UNCHANGED <<pc, i, buffer, fds>>
  BY DEF PeerStep, serverVars, setVars
<1>3. /\ UNCHANGED <<got, echo>> /\ CountsAgree'
      /\ \A d \in Conns : rst[d] => rst'[d]
  BY <1>1, ClientStepBytes DEF IInv, TypeOK, EInv
<1>4. pc = "send" => fds[i] \in Conns
  BY WalkConn
<1>5. EchoFaithful'
  <2>1. \A d \in Conns : (InOrder(d)' <=> InOrder(d)) /\ Rest(d)' = Rest(d)
    BY <1>3 DEF InOrder, Rest
  <2>2. /\ pc' = pc /\ (Running' <=> Running) /\ buffer' = buffer
        /\ got' = got /\ echo' = echo /\ fds'[i'] = fds[i]
    BY <1>2, <1>3 DEF Running
  <2>3. \A d \in Conns :
          /\ InOrder(d)'
          /\ \/ got'[d] = Len(echo'[d]) \/ rst'[d] \/ ~Running'
             \/ pc' = "send" /\ fds'[i'] = d /\ buffer' = Rest(d)'
    BY <1>3, <2>1, <2>2, EchoParts DEF EInv
  <2>. QED  BY <2>3 DEF EchoFaithful, InOrder, Rest
<1>6. SendAgrees'
  BY <1>2, <1>3, <1>4 DEF EInv, SendAgrees, Rest
<1>. QED  BY <1>3, <1>5, <1>6 DEF EInv

\* The steps that touch no byte are not taken during a send().
LEMMA OthersKeepBytes ==
  ASSUME IInv, EInv,
         Select \/ Accept \/ AcceptOverruns \/ AcceptFails \/ SkipFd \/ ReadEnd \/ Die
  PROVE  EInv'
<1>1. UNCHANGED <<sent, half, rst, got, echo>>
  BY DEF Select, Accept, AcceptOverruns, AcceptFails, SkipFd, ReadEnd, Die,
         TakeFromBacklog, ServerCloses, ServerDies, netVars
<1>2. ((pc # "send" /\ Running) \/ pc' = "killed") /\ pc' # "send"
  BY DEF Select, Accept, AcceptOverruns, AcceptFails, SkipFd, ReadEnd, Chosen, Step, Die,
         Running
<1>. QED  BY <1>1, <1>2 DEF EInv, CountsAgree, EchoFaithful, SendAgrees, Running

LEMMA ReadKeepsBytes ==
  ASSUME IInv, EInv, ReadData
  PROVE  EInv'
<1>1. PICK c \in Conns : c = fds[i] /\ Running /\ pc = "walk"
  BY WalkConn DEF ReadData, Chosen
<1>2. /\ Unread(c) > 0 /\ buffer' = Chunk(c, BUFFER_SIZE) /\ Consume(c, Len(buffer'))
      /\ pc' = "send" /\ fds'[i'] = c
  BY <1>1 DEF ReadData, setVars
<1>3. Consume(c, Len(Chunk(c, BUFFER_SIZE)))
  BY <1>2
<1>4. /\ CountsAgree' /\ UNCHANGED <<sent, half, rst, echo>>
      /\ \A d \in Conns \ {c} : got'[d] = got[d]
      /\ got[c] = Len(echo[c]) => buffer' = Rest(c)'
  BY <1>2, <1>3, ReadRest, FdSetAssumption DEF IInv, TypeOK, EInv
<1>5. \A d \in Conns : InOrder(d) /\ (got[d] = Len(echo[d]) \/ rst[d])
  BY <1>1, AllSentBack, EchoParts DEF EInv
<1>6. \A d \in Conns :
        /\ InOrder(d)'
        /\ \/ got'[d] = Len(echo'[d]) \/ rst'[d]
           \/ d = c /\ buffer' = Rest(d)'
  BY <1>4, <1>5 DEF InOrder
<1>7. EchoFaithful'
  BY <1>2, <1>6 DEF EchoFaithful, InOrder, Rest
<1>8. SendAgrees'
  BY <1>2, <1>4, <1>5 DEF SendAgrees
<1>. QED  BY <1>4, <1>7, <1>8 DEF EInv

\* A failed read(), and a failed send() that does not end the process, drop
\* what they had only of a connection that was reset.
LEMMA FailuresKeepBytes ==
  ASSUME IInv, EInv, ReadError \/ SendFails, ~Die
  PROVE  EInv'
<1>1. PICK c \in Conns : c = fds[i] /\ Running /\ rst[c]
  BY WalkConn DEF ReadError, SendFails, Chosen
<1>2. /\ pc = "send" => fds[i] = c
      /\ pc' = "send" => fds'[i'] = c
      /\ UNCHANGED <<sent, half, rst, got, echo>>
  BY <1>1 DEF ReadError, SendFails, Step, netVars, setVars
<1>3. \A d \in Conns : InOrder(d) /\ (got[d] = Len(echo[d]) \/ rst[d])
  BY <1>1, <1>2, AllSentBack, EchoParts DEF EInv
<1>. QED  BY <1>1, <1>2, <1>3 DEF EInv, CountsAgree, EchoFaithful, InOrder, SendAgrees

LEMMA SendKeepsBytes ==
  ASSUME IInv, EInv, SendSome
  PROVE  EInv'
<1>1. PICK c \in Conns, n \in 1 .. Len(buffer) :
        /\ c = fds[i] /\ life[c] = "open" /\ ~rst[c] /\ Running
        /\ Deliver(c, SubSeq(buffer, 1, n))
        /\ buffer' = SubSeq(buffer, n + 1, Len(buffer))
  BY SendParts
<1>2. /\ pc = "send" /\ UNCHANGED fds
      /\ \/ pc' = "send" /\ i' = i
         \/ buffer' = << >> /\ pc' # "send"
  BY DEF SendSome, Step, setVars
<1>3. buffer \in Seq(Byte) /\ buffer = Rest(c) /\ InOrder(c)
  BY <1>1, <1>2, EchoParts DEF IInv, TypeOK, EInv, SendAgrees
<1>4. /\ CountsAgree' /\ InOrder(c)'
      /\ UNCHANGED <<sent, half, rst, got>>
      /\ buffer' = Rest(c)' /\ (buffer' = << >> => got'[c] = Len(echo'[c]))
      /\ \A d \in Conns \ {c} : echo'[d] = echo[d]
  BY <1>1, <1>3, DeliverRest DEF IInv, TypeOK, EInv
<1>5. \A d \in Conns \ {c} : InOrder(d)' /\ (got'[d] = Len(echo'[d]) \/ rst'[d])
  BY <1>1, <1>4, AllSentBack, EchoParts DEF EInv, InOrder
<1>6. \A d \in Conns :
        /\ InOrder(d)'
        /\ \/ got'[d] = Len(echo'[d]) \/ rst'[d]
           \/ d = c /\ pc' = "send" /\ i' = i /\ buffer' = Rest(c)'
  BY <1>2, <1>4, <1>5
<1>7. EchoFaithful'
  BY <1>1, <1>2, <1>6 DEF EchoFaithful, InOrder, Rest
<1>8. SendAgrees'
  BY <1>1, <1>2, <1>4 DEF SendAgrees
<1>. QED  BY <1>4, <1>7, <1>8 DEF EInv

LEMMA InitEInv == Init => EInv
<1>. SUFFICES ASSUME Init PROVE EInv
  OBVIOUS
<1>1. CountsAgree /\ \A c \in Conns : InOrder(c) /\ got[c] = Len(echo[c])
  BY InitBytes DEF Init, NetInit
<1>. QED  BY <1>1, EchoParts DEF Init, EInv, SendAgrees

LEMMA NextEInv == IInv /\ EInv /\ [Next]_vars => EInv'
<1>. SUFFICES ASSUME IInv, EInv, [Next]_vars PROVE EInv'
  OBVIOUS
<1>1. CASE PeerStep
  BY <1>1, PeerKeepsBytes
<1>2. CASE Select \/ Accept \/ AcceptOverruns \/ AcceptFails \/ SkipFd \/ ReadEnd \/ Die
  BY <1>2, OthersKeepBytes
<1>3. CASE ReadData
  BY <1>3, ReadKeepsBytes
<1>4. CASE SendSome
  BY <1>4, SendKeepsBytes
<1>5. CASE (ReadError \/ SendFails) /\ ~Die
  BY <1>5, FailuresKeepBytes
<1>6. CASE UNCHANGED vars
  BY <1>6 DEF vars, serverVars, setVars, netVars, EInv, CountsAgree, EchoFaithful,
              SendAgrees, Running, Rest
<1>. QED  BY <1>1, <1>2, <1>3, <1>4, <1>5, <1>6 DEF Next, ServerStep

LEMMA BytesInvariance == Spec => []EInv
<1>. QED  BY InitEInv, NextEInv, Invariance, PTL DEF Spec

\* What is sent back on a connection is what was read from it, in order and
\* once, although a failed read() is answered with a send().
THEOREM EchoSafety == Spec => []EchoFaithful
<1>1. EInv => EchoFaithful
  BY DEF EInv
<1>. QED  BY <1>1, BytesInvariance, PTL

-----------------------------------------------------------------------------
(* The echo service.                                                       *)

\* The connection ReadEnd closes has got everything back, or was reset.
LEMMA NoDataServed ==
  ASSUME IInv, EInv, ReadEnd
  PROVE  \E c \in Conns :
           /\ ServerCloses(c) /\ life[c] = "open"
           /\ half[c] # "open" /\ (rst[c] \/ Len(echo[c]) = sent[c])
<1>1. PICK c \in Conns : c = fds[i] /\ life[c] = "open" /\ Running /\ pc = "walk"
  BY WalkConn DEF ReadEnd, Chosen
<1>2. ServerCloses(c) /\ Unread(c) = 0 /\ half[c] # "open"
  BY <1>1 DEF ReadEnd
<1>3. got[c] = Len(echo[c]) \/ rst[c]
  BY <1>1, AllSentBack
<1>4. got[c] = sent[c]
  BY <1>2, TcpAssumption DEF Unread, IInv, TypeOK, NetTypeOK
<1>. QED  BY <1>1, <1>2, <1>3, <1>4

\* SIGPIPE has not ended the process.
NotKilled == pc # "killed"

\* Clients that read all they are sent do not vanish.
NobodyGone == \A c \in Conns : half[c] # "gone"

LEMMA NextNobodyGone ==
  ~Abortive /\ ~Evicts /\ IInv /\ NobodyGone /\ [Next]_vars => NobodyGone'
<1>. SUFFICES ASSUME ~Abortive, ~Evicts, IInv, NobodyGone, [Next]_vars PROVE NobodyGone'
  OBVIOUS
<1>1. half' = half \/ \E c \in Conns : half' = [half EXCEPT ![c] = "fin"]
  BY DEF Next, ServerStep, Select, Accept, AcceptOverruns, AcceptFails, SkipFd,
         ReadData, ReadEnd, ReadError, SendSome, SendFails, Die, TakeFromBacklog, Consume,
         Deliver, ServerCloses, ServerDies, PeerStep, ClientStep, Connect, ClientSends,
         ClientFinishes, ClientReads, ClientVanishes, ResetArrives, Evict, vars, netVars
<1>. QED  BY <1>1 DEF NobodyGone, IInv, TypeOK, NetTypeOK

\* Nor are their connections reset, so that no send() ends the process.
LEMMA NextAlive ==
  IInv /\ EInv /\ NobodyGone /\ NotKilled /\ [Next]_vars => NotKilled'
<1>. SUFFICES ASSUME IInv, EInv, NobodyGone, NotKilled, [Next]_vars PROVE NotKilled'
  OBVIOUS
<1>1. ~SendFails
  <2>1. SendFails => fds[i] \in Conns /\ rst[fds[i]]
    BY WalkConn DEF SendFails
  <2>. QED  BY <2>1 DEF NobodyGone, EInv, CountsAgree
<1>. QED
  BY <1>1
     DEF NotKilled, Next, ServerStep, Select, Accept, AcceptOverruns, AcceptFails, SkipFd,
         Step, ReadData, ReadEnd, ReadError, SendSome, PeerStep, serverVars, vars

\* One step of a process that goes on is a step of the service: a read() or a
\* send() that fails leaves the connections as they are.
LEMMA ServerServes ==
  ASSUME IInv, EInv, NotKilled', ServerStep
  PROVE  Service!Next \/ UNCHANGED Service!vars
<1>1. CASE Accept \/ AcceptOverruns
  <2>1. backlog # << >> /\ TakeFromBacklog(Head(backlog))
    BY <1>1 DEF Accept, AcceptOverruns
  <2>2. Head(backlog) \in Conns /\ life[Head(backlog)] = "queued"
    BY <2>1, TakeKeeps DEF IInv, TypeOK
  <2>. QED  BY ONLY <2>1, <2>2, AdmitServes
<1>2. CASE ReadEnd
  BY <1>2, NoDataServed, CloseServes
<1>3. CASE SendSome
  <2>1. PICK c \in Conns, n \in 1 .. Len(buffer) :
          /\ c = fds[i] /\ life[c] = "open" /\ ~rst[c] /\ Running
          /\ Deliver(c, SubSeq(buffer, 1, n))
    BY <1>3, SendParts
  <2>2. buffer \in Seq(Byte) /\ buffer = Rest(c) /\ InOrder(c)
    BY <1>3, <2>1, EchoParts DEF SendSome, IInv, TypeOK, EInv, SendAgrees
  <2>. QED  BY <2>1, <2>2, ReplyServes DEF IInv, TypeOK, EInv
<1>4. CASE ReadError \/ SendFails
  BY <1>4 DEF ReadError, SendFails, Die, NotKilled, netVars, Service!vars
<1>5. CASE Select \/ AcceptFails \/ SkipFd \/ ReadData
  BY <1>5 DEF Select, AcceptFails, SkipFd, ReadData, Consume, netVars, Service!vars
<1>. QED  BY <1>1, <1>2, <1>3, <1>4, <1>5 DEF ServerStep

\* As long as SIGPIPE does not end the process, every step of the server and
\* its clients is a step of the echo service, also where clients vanish,
\* accept() fails and the server comes to a standstill for it, or the set
\* overruns.
THEOREM EchoWhileAlive == ~Evicts => (Spec /\ []NotKilled => Echo!SafeSpec)
<1>. SUFFICES ASSUME ~Evicts PROVE Spec /\ []NotKilled => Echo!SafeSpec
  OBVIOUS
<1>1. Init => Echo!Init
  BY DEF Init, NetInit, Echo!Init
<1>2. IInv /\ EInv /\ NotKilled' /\ [Next]_vars => [Echo!Next]_(Echo!vars)
  <2>. SUFFICES ASSUME IInv, EInv, NotKilled', [Next]_vars
                PROVE  Service!Next \/ UNCHANGED Service!vars
    BY DEF Echo!Next, Echo!Connect, Echo!Send, Echo!Finish, Echo!Reset, Echo!Admit, Echo!Reply,
           Echo!Segment, Echo!Close, Echo!vars, Service!Next, Service!Connect, Service!Send,
           Service!Finish, Service!Reset, Service!Admit, Service!Reply, Service!Segment,
           Service!Close, Service!vars
  <2>1. CASE PeerStep
    BY <2>1, ClientStepServes DEF PeerStep
  <2>2. CASE ServerStep
    BY <2>2, ServerServes
  <2>3. CASE UNCHANGED vars
    BY <2>3 DEF vars, netVars, Service!vars
  <2>. QED  BY <2>1, <2>2, <2>3 DEF Next
<1>. QED  BY <1>1, <1>2, Invariance, BytesInvariance, PTL DEF Spec, Echo!SafeSpec

\* With clients that read to the end the process is never ended, and the
\* server implements the echo service.
THEOREM EchoRefined == ~Abortive /\ ~Evicts => (Spec => Echo!SafeSpec)
<1>. SUFFICES ASSUME ~Abortive, ~Evicts PROVE Spec => Echo!SafeSpec
  OBVIOUS
<1>1. Init => NobodyGone /\ NotKilled
  BY DEF Init, NetInit, NobodyGone, NotKilled
<1>2. NobodyGone /\ IInv /\ [Next]_vars => NobodyGone'
  BY NextNobodyGone
<1>3. NotKilled /\ NobodyGone /\ IInv /\ EInv /\ [Next]_vars => NotKilled'
  BY NextAlive
<1>4. Spec /\ []NotKilled => Echo!SafeSpec
  BY EchoWhileAlive
<1>. QED  BY <1>1, <1>2, <1>3, <1>4, Invariance, BytesInvariance, PTL DEF Spec
=============================================================================
