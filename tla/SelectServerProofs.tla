------------------------- MODULE SelectServerProofs -------------------------
(***************************************************************************)
(* What holds of SelectServer for every number of clients, bytes, slots    *)
(* and descriptors.  The descriptor table and the slot table depend on     *)
(* each other and on the accept queue, so one inductive invariant carries  *)
(* their agreement and the types together.                                 *)
(***************************************************************************)
EXTENDS SelectServer, TcpNetProofs, FiniteSetTheorems

\* While write() is under way the scan is at a slot in use.
AtSlot == pc = "write" => i <= maxi /\ client[i] # -1

\* The inductive invariant.
IInv ==
  /\ TypeOK
  /\ TableAgrees
  /\ FdsAgree
  /\ QueueAgrees
  /\ AtSlot

-----------------------------------------------------------------------------
(* The environment.                                                        *)

\* What clients do leaves the invariant alone.
LEMMA PeerKeeps ==
  ASSUME IInv, PeerStep
  PROVE  IInv'
<1>1. PICK c \in Conns : ClientStep(c)
  BY DEF PeerStep
<1>2. /\ UNCHANGED <<pc, i, buf, rset, nready, client, maxi, maxfd, allset, fds>>
  BY DEF PeerStep, serverVars, tableVars
<1>3. /\ NetTypeOK' /\ QueueAgrees'
      /\ \A d \in Conns : life[d] = "open" => life'[d] = "open"
  BY <1>1, ClientStepKeeps DEF IInv, TypeOK
<1>4. TypeOK'
  BY <1>2, <1>3 DEF IInv, TypeOK
<1>5. TableAgrees'
  BY <1>2 DEF IInv, TableAgrees, Running, IsOpen
<1>6. FdsAgree'
  BY <1>2, <1>3 DEF IInv, TypeOK, FdsAgree, Running
<1>7. AtSlot'
  BY <1>2 DEF IInv, AtSlot
<1>. QED  BY <1>3, <1>4, <1>5, <1>6, <1>7 DEF IInv

-----------------------------------------------------------------------------
(* The server's steps.                                                     *)

\* select() and the loop around it touch neither table.
LEMMA SelectKeeps ==
  ASSUME IInv, Select \/ SelectFails \/ SkipSlot
  PROVE  IInv'
<1>1. UNCHANGED <<backlog, life, sent, half, rst, got, echo, drained>>
  BY DEF Select, SelectFails, SkipSlot, netVars
<1>2. UNCHANGED <<client, maxi, maxfd, allset, fds, buf>>
  BY DEF Select, SelectFails, SkipSlot, tableVars
<1>3. NetTypeOK'
  BY <1>1 DEF IInv, TypeOK, NetTypeOK
<1>4. /\ pc' \in {"select", "accept", "scan"} /\ Running
      /\ i' \in 0 .. FD_SETSIZE
      /\ rset' \in SUBSET (listenfd .. FD_SETSIZE - 1)
      /\ nready' \in Int
  <2>1. CASE Select
    <3>1. rset' \in SUBSET (listenfd .. FD_SETSIZE - 1)
      BY <2>1 DEF Select, IInv, TypeOK, Watched
    <3>2. Cardinality(rset') \in Nat
      <4>1. IsFiniteSet(listenfd .. FD_SETSIZE - 1)
        BY FS_Interval, ServerAssumption
      <4>2. IsFiniteSet(rset')
        BY ONLY <3>1, <4>1, FS_Subset
      <4>. QED  BY <4>2, FS_CardinalityType
    <3>. QED  BY <2>1, <3>1, <3>2, ServerAssumption DEF Select, Running
  <2>2. CASE SelectFails
    <3>1. pc = "select" /\ pc' = "accept" /\ i' = 0 /\ rset' = allset /\ nready' = -1
      BY <2>2 DEF SelectFails
    <3>2. allset \in SUBSET (listenfd .. FD_SETSIZE - 1)
      BY DEF IInv, TypeOK
    <3>. QED  BY ONLY <3>1, <3>2, ServerAssumption DEF Running
  <2>3. CASE SkipSlot
    <3>1. /\ i \in 0 .. FD_SETSIZE /\ maxi \in -1 .. FD_SETSIZE - 1
          /\ rset \in SUBSET (listenfd .. FD_SETSIZE - 1) /\ nready \in Int
      BY DEF IInv, TypeOK
    <3>2. /\ pc = "scan" /\ UNCHANGED <<rset, nready>>
          /\ \/ i <= maxi /\ i' = i + 1 /\ pc' = "scan"
             \/ i' = 0 /\ pc' = "select"
      BY <2>3 DEF SkipSlot
    <3>. QED  BY ONLY <3>1, <3>2, ServerAssumption DEF Running
  <2>. QED  BY <2>1, <2>2, <2>3
<1>5. TypeOK'
  BY <1>2, <1>3, <1>4 DEF IInv, TypeOK
<1>6. TableAgrees'
  BY <1>2, <1>4 DEF IInv, TableAgrees, IsOpen
<1>7. FdsAgree'
  BY <1>1, <1>2, <1>4 DEF IInv, FdsAgree
<1>8. QueueAgrees' /\ AtSlot'
  BY <1>1, <1>4 DEF IInv, QueueAgrees, AtSlot
<1>. QED  BY <1>5, <1>6, <1>7, <1>8 DEF IInv

\* A connection accepted gets a descriptor and a slot of its own.
LEMMA AcceptKeeps ==
  ASSUME IInv, Accept
  PROVE  IInv'
<1>. DEFINE c == Head(backlog)
<1>1. PICK connfd \in Descriptors, j \in Slots :
        /\ LowestFree(connfd) /\ connfd < FD_SETSIZE
        /\ FirstSlot(j)
        /\ fds' = [fds EXCEPT ![connfd] = c]
        /\ client' = [client EXCEPT ![j] = connfd]
        /\ allset' = allset \cup {connfd}
        /\ maxfd' = IF connfd > maxfd THEN connfd ELSE maxfd
        /\ maxi' = IF j > maxi THEN j ELSE maxi
  BY DEF Accept
<1>2. /\ NetTypeOK' /\ QueueAgrees' /\ c \in Conns /\ life[c] = "queued"
      /\ life' = [life EXCEPT ![c] = "open"]
  BY TakeKeeps DEF Accept, IInv, TypeOK
<1>3. /\ fds[connfd] = NoConn /\ client[j] = -1 /\ c # NoConn
      /\ connfd \in listenfd + 1 .. FD_SETSIZE - 1
  BY <1>1, <1>2, ServerAssumption DEF LowestFree, FreeFds, FirstSlot, Descriptors
<1>4. /\ pc' \in {"select", "scan"} /\ Running /\ nready' \in Int
      /\ UNCHANGED <<i, buf, rset>>
  BY DEF Accept, AcceptDone, Running, IInv, TypeOK
<1>5. TypeOK'
  BY <1>1, <1>2, <1>3, <1>4, ServerAssumption DEF IInv, TypeOK, Slots
<1>6. TableAgrees'
  <2>1. ASSUME NEW k \in Slots, client'[k] # -1
        PROVE  /\ fds'[client'[k]] # NoConn /\ k <= maxi'
               /\ \A l \in Slots : client'[l] = client'[k] => l = k
    BY <2>1, <1>1, <1>3, <1>4 DEF IInv, TypeOK, TableAgrees, Slots
  <2>2. ASSUME NEW f \in Descriptors, fds'[f] # NoConn
        PROVE  /\ \E k \in Slots : client'[k] = f
               /\ f \in allset' /\ f <= maxfd'
    BY <2>2, <1>1, <1>3, <1>4, ServerAssumption
       DEF IInv, TypeOK, TableAgrees, Descriptors
  <2>3. listenfd \in allset'
    BY <1>1, <1>4 DEF IInv, TableAgrees
  <2>4. ASSUME NEW f \in allset'
        PROVE  IsOpen(f)' \/ f = StrayBit
    BY <1>1, <1>3, <1>4 DEF IInv, TypeOK, TableAgrees, IsOpen
  <2>. QED  BY <2>1, <2>2, <2>3, <2>4 DEF TableAgrees
<1>7. FdsAgree'
  <2>1. /\ life \in [Conns -> {"new", "queued", "open", "shut"}]
        /\ fds \in [Descriptors -> Conns \cup {NoConn}]
        /\ \A f \in Descriptors : fds[f] # NoConn =>
             /\ life[fds[f]] = "open"
             /\ \A g \in Descriptors : fds[g] = fds[f] => g = f
    BY <1>4 DEF IInv, TypeOK, NetTypeOK, FdsAgree
  <2>. HIDE DEF c
  <2>2. ASSUME NEW f \in Descriptors, fds'[f] # NoConn
        PROVE  /\ life'[fds'[f]] = "open"
               /\ \A g \in Descriptors : fds'[g] = fds'[f] => g = f
    BY ONLY <1>1, <1>2, <1>3, <2>1, <2>2, f \in Descriptors
  <2>. QED  BY <2>2 DEF FdsAgree
<1>8. AtSlot'
  BY <1>4 DEF AtSlot
<1>. QED  BY <1>2, <1>5, <1>6, <1>7, <1>8 DEF IInv

\* Running past the end of an array stops the model; the kernel's tables are
\* still well formed.
LEMMA AcceptOverrunsKeeps ==
  ASSUME IInv, AcceptOverruns
  PROVE  IInv'
<1>1. /\ NetTypeOK' /\ QueueAgrees' /\ Head(backlog) \in Conns
  BY TakeKeeps DEF AcceptOverruns, IInv, TypeOK
<1>2. /\ pc' = "overrun"
      /\ UNCHANGED <<i, buf, client, maxi, maxfd, allset, rset, nready>>
      /\ fds' \in [Descriptors -> Conns \cup {NoConn}]
  BY <1>1 DEF AcceptOverruns, IInv, TypeOK
<1>3. TypeOK'
  BY <1>1, <1>2 DEF IInv, TypeOK
<1>. QED  BY <1>1, <1>2, <1>3 DEF IInv, TableAgrees, FdsAgree, AtSlot, Running

LEMMA DieKeeps ==
  ASSUME IInv, Die
  PROVE  IInv'
<1>1. NetTypeOK' /\ backlog' = << >>
  BY TcpAssumption DEF Die, ServerDies, IInv, TypeOK, NetTypeOK
<1>2. /\ pc' = "killed"
      /\ UNCHANGED <<i, buf, client, maxi, maxfd, allset, rset, nready>>
      /\ fds' \in [Descriptors -> Conns \cup {NoConn}]
  BY DEF Die
<1>3. TypeOK'
  BY <1>1, <1>2 DEF IInv, TypeOK
<1>. QED  BY <1>1, <1>2, <1>3
          DEF IInv, TableAgrees, FdsAgree, AtSlot, QueueAgrees, Running

\* A failed accept() leaves behind at most the stray bit and a higher maxi.
LEMMA AcceptFailsKeeps ==
  ASSUME IInv, AcceptFails
  PROVE  IInv'
<1>1. PICK j \in Slots : maxi' = IF j > maxi THEN j ELSE maxi
  BY DEF AcceptFails
<1>2. /\ allset' = allset \cup {StrayBit}
      /\ pc = "accept" /\ AcceptDone
      /\ UNCHANGED <<client, maxfd, fds, i, buf, rset>>
  BY DEF AcceptFails
<1>3. UNCHANGED <<backlog, life, sent, half, rst, got, echo, drained>>
  BY DEF AcceptFails, netVars
<1>4. NetTypeOK' /\ QueueAgrees'
  BY <1>3 DEF IInv, TypeOK, NetTypeOK, QueueAgrees
<1>5. pc' \in {"select", "scan"} /\ nready' \in Int /\ Running
  BY <1>2 DEF AcceptDone, IInv, TypeOK, Running
<1>6. maxi' \in -1 .. FD_SETSIZE - 1 /\ maxi' >= maxi
  BY <1>1, ServerAssumption DEF IInv, TypeOK, Slots
<1>7. TypeOK'
  BY <1>2, <1>4, <1>5, <1>6, ServerAssumption DEF IInv, TypeOK
<1>8. TableAgrees'
  <2>1. ASSUME NEW k \in Slots, client'[k] # -1
        PROVE  /\ fds'[client'[k]] # NoConn /\ k <= maxi'
               /\ \A l \in Slots : client'[l] = client'[k] => l = k
    BY <2>1, <1>2, <1>5, <1>6 DEF IInv, TypeOK, TableAgrees, Slots
  <2>. QED  BY <2>1, <1>2, <1>5 DEF IInv, TableAgrees, IsOpen
<1>9. FdsAgree' /\ AtSlot'
  BY <1>2, <1>3, <1>5 DEF IInv, FdsAgree, AtSlot
<1>. QED  BY <1>4, <1>7, <1>8, <1>9 DEF IInv

\* The slot the scan is at, in use, names an open connection.
LEMMA SlotConn ==
  ASSUME IInv, Chosen \/ pc = "write"
  PROVE  /\ Running /\ i \in Slots /\ i <= maxi
         /\ client[i] \in Descriptors
         /\ fds[client[i]] \in Conns /\ life[fds[client[i]]] = "open"
<1>1. /\ i \in Slots /\ i <= maxi /\ client[i] # -1 /\ Running
  BY ServerAssumption DEF IInv, TypeOK, AtSlot, Chosen, Slots, Running
<1>2. client[i] \in Descriptors /\ fds[client[i]] # NoConn
  BY <1>1 DEF IInv, TypeOK, TableAgrees
<1>. QED  BY <1>1, <1>2 DEF IInv, TypeOK, FdsAgree

\* read() moves bytes from the connection to buf and nothing else.
LEMMA ReadDataKeeps ==
  ASSUME IInv, ReadData
  PROVE  IInv'
<1>. DEFINE c == fds[client[i]]
<1>1. /\ Chosen /\ Unread(c) > 0 /\ buf' = Chunk(c, BUF) /\ Consume(c, Len(buf'))
      /\ pc' = "write"
      /\ UNCHANGED <<client, maxi, maxfd, allset, fds, i, rset, nready>>
  BY DEF ReadData, tableVars
<1>2. c \in Conns /\ Running /\ NetTypeOK /\ client[i] # -1 /\ i <= maxi
  BY <1>1, SlotConn DEF IInv, TypeOK, Chosen
<1>. HIDE DEF c
<1>3. buf' \in Seq(Byte) /\ got[c] + Len(buf') \in 0 .. MaxBytes
  BY <1>1, <1>2, ChunkType, ServerAssumption
<1>4. UNCHANGED <<backlog, life, sent, half, rst, echo, drained>>
  BY <1>1 DEF Consume
<1>5. got' = [got EXCEPT ![c] = @ + Len(buf')]
  BY <1>1 DEF Consume
<1>6. NetTypeOK'
  BY <1>2, <1>3, <1>4, <1>5 DEF NetTypeOK
<1>7. TypeOK'
  BY <1>1, <1>3, <1>6 DEF IInv, TypeOK
<1>8. TableAgrees' /\ FdsAgree' /\ QueueAgrees' /\ AtSlot'
  BY <1>1, <1>2, <1>4
     DEF IInv, TableAgrees, FdsAgree, QueueAgrees, AtSlot, Running, IsOpen
<1>. QED  BY <1>7, <1>8 DEF IInv

\* if(--nready <= 0) break; leaves i within the table.
LEMMA SlotDoneKeeps ==
  ASSUME SlotDone, i \in Slots, nready \in Int
  PROVE  /\ nready' \in Int /\ i' \in 0 .. FD_SETSIZE
         /\ pc' \in {"select", "scan"}
BY ServerAssumption DEF SlotDone, Slots

\* Closing a connection takes it out of both tables and of allset.
LEMMA ReadEndKeeps ==
  ASSUME IInv, ReadEnd
  PROVE  IInv'
<1>. DEFINE s == client[i]
            c == fds[s]
<1>1. /\ Chosen /\ ServerCloses(c) /\ SlotDone
      /\ fds' = [fds EXCEPT ![s] = NoConn]
      /\ allset' = allset \ {s}
      /\ client' = [client EXCEPT ![i] = -1]
      /\ UNCHANGED <<maxi, maxfd, buf, rset>>
  BY DEF ReadEnd
<1>2. /\ Running /\ i \in Slots /\ s \in Descriptors /\ s # -1 /\ s # listenfd
      /\ c \in Conns /\ life[c] = "open" /\ c # NoConn
  BY <1>1, SlotConn, ServerAssumption DEF Descriptors
<1>. HIDE DEF c, s
<1>3. /\ life' = [life EXCEPT ![c] = "shut"]
      /\ UNCHANGED <<backlog, sent, half, rst, got, echo, drained>>
  BY <1>1 DEF ServerCloses
<1>4. NetTypeOK'
  BY <1>2, <1>3 DEF IInv, TypeOK, NetTypeOK
<1>5. /\ nready' \in Int /\ i' \in 0 .. FD_SETSIZE /\ pc' \in {"select", "scan"}
  BY <1>1, <1>2, SlotDoneKeeps DEF IInv, TypeOK
<1>6. TypeOK'
  BY <1>1, <1>2, <1>4, <1>5 DEF IInv, TypeOK
<1>7. /\ client \in [Slots -> {-1} \cup Descriptors]
      /\ fds \in [Descriptors -> Conns \cup {NoConn}]
      /\ client[i] = s /\ fds[s] = c
  BY DEF IInv, TypeOK, s, c
<1>8. TableAgrees'
  <2>1. ASSUME NEW k \in Slots, client'[k] # -1
        PROVE  /\ fds'[client'[k]] # NoConn /\ k <= maxi'
               /\ \A l \in Slots : client'[l] = client'[k] => l = k
    BY <2>1, <1>1, <1>2, <1>7 DEF IInv, TableAgrees
  <2>2. ASSUME NEW f \in Descriptors, fds'[f] # NoConn
        PROVE  /\ \E k \in Slots : client'[k] = f
               /\ f \in allset' /\ f <= maxfd'
    BY <2>2, <1>1, <1>2, <1>7 DEF IInv, TableAgrees
  <2>3. listenfd \in allset'
    BY <1>1, <1>2 DEF IInv, TableAgrees
  <2>4. ASSUME NEW f \in allset'
        PROVE  IsOpen(f)' \/ f = StrayBit
    BY <1>1, <1>2, <1>7 DEF IInv, TableAgrees, IsOpen
  <2>. QED  BY <2>1, <2>2, <2>3, <2>4 DEF TableAgrees
<1>9. FdsAgree'
  BY <1>1, <1>2, <1>3, <1>7 DEF IInv, TypeOK, NetTypeOK, FdsAgree
<1>10. QueueAgrees'
  BY <1>1, <1>2, CloseKeeps DEF IInv, TypeOK
<1>11. AtSlot'
  BY <1>5 DEF AtSlot
<1>. QED  BY <1>6, <1>8, <1>9, <1>10, <1>11 DEF IInv

\* write() moves bytes from buf to the connection and nothing else.
LEMMA WriteSomeKeeps ==
  ASSUME IInv, WriteSome
  PROVE  IInv'
<1>. DEFINE c == fds[client[i]]
            n == Smaller(Room(c), Len(buf))
<1>1. /\ pc = "write" /\ n > 0
      /\ Deliver(c, SubSeq(buf, 1, n)) /\ buf' = SubSeq(buf, n + 1, Len(buf))
      /\ SlotDone \/ UNCHANGED <<pc, i, nready>>
      /\ UNCHANGED <<client, maxi, maxfd, allset, fds, rset>>
  BY DEF WriteSome, tableVars
<1>2. /\ c \in Conns /\ Running /\ NetTypeOK /\ client[i] # -1 /\ i <= maxi
      /\ i \in Slots
  BY <1>1, SlotConn, ServerAssumption DEF IInv, TypeOK, AtSlot, Descriptors
<1>3. buf \in Seq(Byte) /\ Len(buf) \in Nat /\ \A k \in 1 .. Len(buf) : buf[k] \in Byte
  BY ElementOfSeq, LenProperties DEF IInv, TypeOK
<1>4. n \in 1 .. Len(buf)
  <2>. HIDE DEF c
  <2>1. Room(c) \in Int
    BY <1>2, ByteCounts
  <2>. QED  BY <1>1, <1>3, <2>1 DEF Smaller
<1>. HIDE DEF c, n
<1>5. SubSeq(buf, 1, n) \in Seq(Byte) /\ buf' \in Seq(Byte)
  BY <1>1, <1>3, <1>4, SplitType
<1>6. /\ echo' = [echo EXCEPT ![c] = @ \o SubSeq(buf, 1, n)]
      /\ UNCHANGED <<backlog, life, sent, half, rst, got, drained>>
  BY <1>1 DEF Deliver
<1>7. NetTypeOK'
  <2>1. echo[c] \o SubSeq(buf, 1, n) \in Seq(Byte)
    BY <1>2, <1>5, ConcatProperties DEF NetTypeOK
  <2>. QED  BY <1>2, <1>6, <2>1 DEF NetTypeOK
<1>8. /\ nready' \in Int /\ i' \in 0 .. FD_SETSIZE
      /\ \/ pc' \in {"select", "scan"}
         \/ pc' = "write" /\ i' = i
  BY <1>1, <1>2, SlotDoneKeeps DEF IInv, TypeOK
<1>9. TypeOK'
  BY <1>1, <1>5, <1>7, <1>8 DEF IInv, TypeOK
<1>10. TableAgrees' /\ FdsAgree' /\ QueueAgrees' /\ AtSlot'
  BY <1>1, <1>2, <1>6, <1>8
     DEF IInv, TableAgrees, FdsAgree, QueueAgrees, AtSlot, Running, IsOpen
<1>. QED  BY <1>9, <1>10 DEF IInv

\* A write() that fails drops what is in buf, or ends the process.
LEMMA WriteFailsKeeps ==
  ASSUME IInv, WriteFails
  PROVE  IInv'
<1>1. CASE Die
  BY <1>1, DieKeeps
<1>2. CASE ~Die
  <2>1. /\ pc = "write" /\ buf' = << >> /\ SlotDone
        /\ UNCHANGED <<client, maxi, maxfd, allset, fds, rset>>
        /\ UNCHANGED <<backlog, life, sent, half, rst, got, echo, drained>>
    BY <1>2 DEF WriteFails, tableVars, netVars
  <2>2. Running /\ i \in Slots
    BY <2>1, SlotConn
  <2>3. /\ nready' \in Int /\ i' \in 0 .. FD_SETSIZE /\ pc' \in {"select", "scan"}
    BY <2>1, <2>2, SlotDoneKeeps DEF IInv, TypeOK
  <2>4. TypeOK'
    BY <2>1, <2>3 DEF IInv, TypeOK, NetTypeOK
  <2>5. TableAgrees' /\ FdsAgree' /\ QueueAgrees' /\ AtSlot'
    BY <2>1, <2>2, <2>3
       DEF IInv, TableAgrees, FdsAgree, QueueAgrees, AtSlot, Running, IsOpen
  <2>. QED  BY <2>4, <2>5 DEF IInv
<1>. QED  BY <1>1, <1>2

-----------------------------------------------------------------------------
LEMMA InitIInv == Init => IInv
<1>. SUFFICES ASSUME Init PROVE IInv
  OBVIOUS
<1>1. NetTypeOK /\ QueueAgrees
  BY TcpAssumption DEF Init, NetInit, NetTypeOK, QueueAgrees
<1>2. TypeOK
  BY <1>1, ServerAssumption DEF Init, TypeOK, Slots, Descriptors
<1>3. TableAgrees /\ FdsAgree /\ AtSlot
  BY ServerAssumption DEF Init, TableAgrees, FdsAgree, AtSlot, Slots, IsOpen
<1>. QED  BY <1>1, <1>2, <1>3 DEF IInv

LEMMA NextIInv == IInv /\ [Next]_vars => IInv'
<1>. SUFFICES ASSUME IInv, [Next]_vars PROVE IInv'
  OBVIOUS
<1>1. CASE PeerStep
  BY <1>1, PeerKeeps
<1>2. CASE Select \/ SelectFails \/ SkipSlot
  BY <1>2, SelectKeeps
<1>3. CASE Accept
  BY <1>3, AcceptKeeps
<1>4. CASE AcceptOverruns
  BY <1>4, AcceptOverrunsKeeps
<1>5. CASE AcceptFails
  BY <1>5, AcceptFailsKeeps
<1>6. CASE ReadData
  BY <1>6, ReadDataKeeps
<1>7. CASE ReadEnd
  BY <1>7, ReadEndKeeps
<1>8. CASE WriteSome
  BY <1>8, WriteSomeKeeps
<1>9. CASE WriteFails
  BY <1>9, WriteFailsKeeps
<1>10. CASE UNCHANGED vars
  BY <1>10 DEF vars, serverVars, tableVars, netVars, IInv, TypeOK, NetTypeOK,
               TableAgrees, FdsAgree, QueueAgrees, AtSlot, Running, IsOpen
<1>. QED
  BY <1>1, <1>2, <1>3, <1>4, <1>5, <1>6, <1>7, <1>8, <1>9, <1>10 DEF Next, ServerStep

\* The inductive invariant holds of every behaviour.
THEOREM Invariance == Spec => []IInv
<1>. QED  BY InitIInv, NextIInv, PTL DEF Spec

\* Every variable keeps its type: in particular the scan never indexes
\* client[] or an fd_set outside its bounds.
THEOREM TypeCorrect == Spec => []TypeOK
<1>1. IInv => TypeOK
  BY DEF IInv
<1>. QED  BY <1>1, Invariance, PTL

\* The slot table, allset, maxi and maxfd agree with the kernel's descriptor
\* table in every state, for every limit and every number of clients.
THEOREM TableSafety == Spec => []TableAgrees
<1>1. IInv => TableAgrees
  BY DEF IInv
<1>. QED  BY <1>1, Invariance, PTL

\* No two descriptors are the same connection, and each is one the server
\* has open.
THEOREM FdsSafety == Spec => []FdsAgree
<1>1. IInv => FdsAgree
  BY DEF IInv
<1>. QED  BY <1>1, Invariance, PTL

\* If the process may not open more descriptors than an fd_set has bits, the
\* search for a slot always ends inside client[], and FD_SET() inside the set:
\* each slot in use holds a descriptor of its own, and there are fewer of them
\* than slots.
LEMMA SlotLeft ==
  ASSUME NOFILE <= FD_SETSIZE, IInv, Running
  PROVE  \E j \in Slots : client[j] = -1
<1>. SUFFICES ASSUME \A j \in Slots : client[j] # -1 PROVE FALSE
  OBVIOUS
<1>1. client \in [Slots -> Descriptors]
  BY DEF IInv, TypeOK
<1>2. /\ IsFiniteSet(Slots) /\ Cardinality(Slots) = FD_SETSIZE
      /\ IsFiniteSet(Descriptors) /\ Cardinality(Descriptors) < FD_SETSIZE
  <2>1. /\ listenfd \in Nat /\ FD_SETSIZE \in Nat /\ NOFILE \in Nat
        /\ listenfd < FD_SETSIZE /\ listenfd < NOFILE
    BY ServerAssumption
  <2>2. /\ IsFiniteSet(0 .. FD_SETSIZE - 1)
        /\ Cardinality(0 .. FD_SETSIZE - 1) =
             IF 0 > FD_SETSIZE - 1 THEN 0 ELSE FD_SETSIZE - 1 - 0 + 1
    BY <2>1, FS_Interval
  <2>3. /\ IsFiniteSet(listenfd + 1 .. NOFILE - 1)
        /\ Cardinality(listenfd + 1 .. NOFILE - 1) =
             IF listenfd + 1 > NOFILE - 1 THEN 0 ELSE NOFILE - 1 - (listenfd + 1) + 1
    BY <2>1, FS_Interval
  <2>. QED  BY <2>1, <2>2, <2>3 DEF Slots, Descriptors
<1>3. \E j, k \in Slots : j # k /\ client[j] = client[k]
  BY <1>1, <1>2, FS_PigeonHole
<1>. QED  BY <1>3 DEF IInv, TableAgrees

\* The process never leaves its arrays when its descriptor limit is at most
\* FD_SETSIZE: the default limit of 1024 is what keeps the server in bounds.
THEOREM OverrunSafety == NOFILE <= FD_SETSIZE => (Spec => []NoOverrun)
<1>. SUFFICES ASSUME NOFILE <= FD_SETSIZE PROVE Spec => []NoOverrun
  OBVIOUS
<1>1. Init => NoOverrun
  BY DEF Init, NoOverrun
<1>2. IInv /\ NoOverrun /\ [Next]_vars => NoOverrun'
  <2>. SUFFICES ASSUME IInv, NoOverrun, [Next]_vars, pc' = "overrun" PROVE FALSE
    BY DEF NoOverrun
  <2>1. AcceptOverruns
    BY DEF NoOverrun, Next, ServerStep, PeerStep, vars, serverVars,
           Select, SelectFails, Accept, AcceptDone, AcceptFails, Die,
           SkipSlot, ReadData, ReadEnd, WriteSome, WriteFails, SlotDone
  <2>2. Running
    BY <2>1 DEF AcceptOverruns, Running
  <2>3. \A connfd \in Descriptors : ~(connfd >= FD_SETSIZE)
    BY ServerAssumption DEF Descriptors
  <2>4. ~\A j \in Slots : client[j] # -1
    BY <2>2, SlotLeft
  <2>. QED  BY <2>1, <2>3, <2>4 DEF AcceptOverruns
<1>. QED  BY <1>1, <1>2, Invariance, PTL DEF Spec

-----------------------------------------------------------------------------
(* accept() does not block where it fails only for want of a descriptor.   *)

\* A stray bit set when every descriptor is in use is one of those, or beyond
\* all of them: select() never sees a descriptor that is not open.
BitsOpen == Running => maxfd < NOFILE /\ \A f \in allset : IsOpen(f) \/ f >= NOFILE

LEMMA NextBitsOpen ==
  ~AcceptErrors /\ IInv /\ BitsOpen /\ [Next]_vars => BitsOpen'
<1>. SUFFICES ASSUME ~AcceptErrors, IInv, BitsOpen, [Next]_vars, Running'
              PROVE  maxfd' < NOFILE /\ \A f \in allset' : IsOpen(f)' \/ f >= NOFILE
  BY DEF BitsOpen
<1>1. CASE Accept
  <2>1. PICK connfd \in Descriptors :
          /\ fds' = [fds EXCEPT ![connfd] = Head(backlog)]
          /\ allset' = allset \cup {connfd}
          /\ maxfd' = IF connfd > maxfd THEN connfd ELSE maxfd
    BY <1>1 DEF Accept
  <2>2. /\ Running /\ Head(backlog) # NoConn /\ connfd < NOFILE
        /\ fds \in [Descriptors -> Conns \cup {NoConn}]
    <3>1. Head(backlog) \in Conns
      BY <1>1, TakeKeeps DEF Accept, IInv, TypeOK
    <3>. QED  BY <1>1, <3>1, ServerAssumption DEF Accept, Running, IInv, TypeOK, Descriptors
  <2>3. \A f : f = connfd \/ IsOpen(f) => IsOpen(f)'
    BY <2>1, <2>2 DEF IsOpen
  <2>. QED  BY <2>1, <2>2, <2>3 DEF BitsOpen
<1>2. CASE AcceptFails
  <2>1. /\ Running /\ allset' = allset \cup {StrayBit} /\ UNCHANGED <<maxfd, fds>>
        /\ FreeFds = {}
    BY <1>2 DEF AcceptFails, Running
  <2>2. IsOpen(StrayBit) \/ StrayBit >= NOFILE
    BY <2>1, ServerAssumption DEF IsOpen, FreeFds, Descriptors
  <2>. QED  BY <2>1, <2>2 DEF BitsOpen, IsOpen
<1>3. CASE ReadEnd
  <2>1. /\ allset' = allset \ {client[i]} /\ fds' = [fds EXCEPT ![client[i]] = NoConn]
        /\ maxfd' = maxfd /\ Running
    BY <1>3 DEF ReadEnd, Chosen, Running
  <2>2. \A f \in allset' : IsOpen(f) => IsOpen(f)'
    BY <2>1 DEF IsOpen, IInv, TypeOK
  <2>. QED  BY <2>1, <2>2 DEF BitsOpen
<1>4. CASE ~Accept /\ ~AcceptFails /\ ~ReadEnd
  <2>1. Running /\ UNCHANGED <<maxfd, allset, fds>>
    BY <1>4 DEF Next, ServerStep, PeerStep, vars, serverVars, tableVars, Running, Select,
                SelectFails, AcceptOverruns, Die, SkipSlot, Chosen, ReadData, WriteSome,
                WriteFails
  <2>. QED  BY <2>1 DEF BitsOpen, IsOpen
<1>. QED  BY <1>1, <1>2, <1>3, <1>4

LEMMA NextQueued ==
  ~Evicts /\ ~AcceptErrors /\ IInv /\ BitsOpen /\ AcceptNeverBlocks /\ [Next]_vars
    => AcceptNeverBlocks'
<1>. SUFFICES ASSUME ~Evicts, IInv, BitsOpen, AcceptNeverBlocks, [Next]_vars,
                     pc' = "accept"
              PROVE  backlog' # << >>
  BY DEF AcceptNeverBlocks
<1>1. CASE Select
  BY <1>1 DEF Select, FdReady, Watched, netVars
<1>2. CASE SelectFails
  <2>1. PICK f \in allset : f <= maxfd /\ ~IsOpen(f)
    BY <1>2 DEF SelectFails, Watched
  <2>2. maxfd < NOFILE /\ f >= NOFILE /\ f \in Int /\ maxfd \in Int
    BY <1>2, <2>1, ServerAssumption DEF SelectFails, BitsOpen, Running, IInv, TypeOK
  <2>. QED  BY <2>1, <2>2, ServerAssumption
<1>3. CASE PeerStep
  <2>1. PICK c \in Conns : ClientStep(c)
    BY <1>3 DEF PeerStep
  <2>2. backlog # << >>
    BY <1>3 DEF PeerStep, serverVars, AcceptNeverBlocks
  <2>3. backlog' = backlog \/ backlog' = Append(backlog, c)
    BY <2>1 DEF ClientStep, Connect, ClientSends, ClientFinishes, ClientReads,
                ClientVanishes, ResetArrives, Evict
  <2>4. Append(backlog, c) # << >>
    <3>1. backlog \in Seq(Conns) /\ Len(backlog) \in Nat
      BY LenProperties DEF IInv, TypeOK, NetTypeOK
    <3>2. Len(Append(backlog, c)) = Len(backlog) + 1
      BY <3>1, AppendProperties
    <3>. QED  BY <3>1, <3>2
  <2>. QED  BY <2>2, <2>3, <2>4
<1>4. CASE ~Select /\ ~SelectFails /\ ~PeerStep
  BY <1>4 DEF Next, ServerStep, vars, serverVars, netVars, AcceptNeverBlocks, Accept,
              AcceptDone, AcceptOverruns, AcceptFails, SkipSlot, ReadData, ReadEnd,
              WriteSome, Die, WriteFails, SlotDone
<1>. QED  BY <1>1, <1>2, <1>3, <1>4

\* After select() reported the listening socket a connection is in the queue
\* until accept() takes it, if the kernel drops none and accept() fails only
\* when every descriptor is in use: those failures set a bit that select()
\* takes no offence at.
THEOREM AcceptSafety == ~Evicts /\ ~AcceptErrors => (Spec => []AcceptNeverBlocks)
<1>. SUFFICES ASSUME ~Evicts, ~AcceptErrors PROVE Spec => []AcceptNeverBlocks
  OBVIOUS
<1>1. Init => BitsOpen /\ AcceptNeverBlocks
  BY ServerAssumption DEF Init, BitsOpen, AcceptNeverBlocks, IsOpen
<1>2. IInv /\ BitsOpen /\ [Next]_vars => BitsOpen'
  BY NextBitsOpen
<1>3. IInv /\ BitsOpen /\ AcceptNeverBlocks /\ [Next]_vars => AcceptNeverBlocks'
  BY NextQueued
<1>. QED  BY <1>1, <1>2, <1>3, Invariance, PTL DEF Spec

-----------------------------------------------------------------------------
(* The bytes.                                                              *)

\* While write() is under way, buf is what is still to be sent back.
WriteAgrees ==
  pc = "write" => rst[fds[client[i]]] \/ buf = Rest(fds[client[i]])

\* The inductive invariant about the bytes, on top of IInv.
EInv == CountsAgree /\ EchoFaithful /\ WriteAgrees

\* What EchoFaithful says of one connection.
LEMMA EchoParts ==
  EchoFaithful <=>
    \A c \in Conns :
      /\ InOrder(c)
      /\ \/ got[c] = Len(echo[c]) \/ rst[c] \/ ~Running
         \/ pc = "write" /\ fds[client[i]] = c /\ buf = Rest(c)
BY DEF EchoFaithful, InOrder, Rest

\* Outside write(), all that was read has been sent back.
LEMMA AllSentBack ==
  ASSUME EInv, Running, NEW c \in Conns, pc = "write" => fds[client[i]] # c
  PROVE  got[c] = Len(echo[c]) \/ rst[c]
BY EchoParts DEF EInv

LEMMA PeerKeepsBytes ==
  ASSUME IInv, EInv, PeerStep
  PROVE  EInv'
<1>1. PICK c \in Conns : ClientStep(c)
  BY DEF PeerStep
<1>2. UNCHANGED <<pc, i, buf, client, fds>>
  BY DEF PeerStep, serverVars, tableVars
<1>3. /\ UNCHANGED <<got, echo>> /\ CountsAgree'
      /\ \A d \in Conns : rst[d] => rst'[d]
  BY <1>1, ClientStepBytes DEF IInv, TypeOK, EInv
<1>4. pc = "write" => fds[client[i]] \in Conns
  BY SlotConn
<1>5. EchoFaithful'
  <2>1. \A d \in Conns : (InOrder(d)' <=> InOrder(d)) /\ Rest(d)' = Rest(d)
    BY <1>3 DEF InOrder, Rest
  <2>2. /\ pc' = pc /\ (Running' <=> Running) /\ buf' = buf /\ got' = got /\ echo' = echo
        /\ fds'[client'[i']] = fds[client[i]]
    BY <1>2, <1>3 DEF Running
  <2>3. \A d \in Conns :
          /\ InOrder(d)'
          /\ \/ got'[d] = Len(echo'[d]) \/ rst'[d] \/ ~Running'
             \/ pc' = "write" /\ fds'[client'[i']] = d /\ buf' = Rest(d)'
    BY <1>3, <2>1, <2>2, EchoParts DEF EInv
  <2>. QED  BY <2>3 DEF EchoFaithful, InOrder, Rest
<1>6. WriteAgrees'
  BY <1>2, <1>3, <1>4 DEF EInv, WriteAgrees, Rest
<1>. QED  BY <1>3, <1>5, <1>6 DEF EInv

\* The steps that touch no byte are not taken during a write().
LEMMA BytesStay ==
  ASSUME IInv, EInv, (pc # "write" /\ Running) \/ pc' = "killed", pc' # "write",
         UNCHANGED <<sent, half, rst, got, echo>>
  PROVE  EInv'
BY DEF EInv, CountsAgree, EchoFaithful, WriteAgrees, Running

LEMMA OthersKeepBytes ==
  ASSUME IInv, EInv,
         \/ Select \/ SelectFails \/ Accept \/ AcceptOverruns \/ AcceptFails
         \/ SkipSlot \/ ReadEnd \/ Die
  PROVE  EInv'
<1>1. UNCHANGED <<sent, half, rst, got, echo>>
  BY DEF Select, SelectFails, Accept, AcceptOverruns, AcceptFails, SkipSlot, ReadEnd, Die,
         TakeFromBacklog, ServerCloses, ServerDies, netVars
<1>2. ((pc # "write" /\ Running) \/ pc' = "killed") /\ pc' # "write"
  BY DEF Select, SelectFails, Accept, AcceptDone, AcceptOverruns, AcceptFails, SkipSlot,
         ReadEnd, Chosen, SlotDone, Die, Running
<1>. QED  BY <1>1, <1>2, BytesStay

LEMMA ReadKeepsBytes ==
  ASSUME IInv, EInv, ReadData
  PROVE  EInv'
<1>1. PICK c \in Conns : c = fds[client[i]] /\ Running /\ pc = "scan"
  BY SlotConn DEF ReadData, Chosen
<1>2. /\ Unread(c) > 0 /\ buf' = Chunk(c, BUF) /\ Consume(c, Len(buf'))
      /\ pc' = "write" /\ fds'[client'[i']] = c
  BY <1>1 DEF ReadData, tableVars
<1>3. Consume(c, Len(Chunk(c, BUF)))
  BY <1>2
<1>4. /\ CountsAgree' /\ UNCHANGED <<sent, half, rst, echo>>
      /\ \A d \in Conns \ {c} : got'[d] = got[d]
      /\ got[c] = Len(echo[c]) => buf' = Rest(c)'
  BY <1>2, <1>3, ReadRest, ServerAssumption DEF IInv, TypeOK, EInv
<1>5. \A d \in Conns : InOrder(d) /\ (got[d] = Len(echo[d]) \/ rst[d])
  BY <1>1, AllSentBack, EchoParts DEF EInv
<1>6. \A d \in Conns :
        /\ InOrder(d)'
        /\ \/ got'[d] = Len(echo'[d]) \/ rst'[d]
           \/ d = c /\ buf' = Rest(d)'
  BY <1>4, <1>5 DEF InOrder
<1>7. EchoFaithful'
  BY <1>2, <1>6 DEF EchoFaithful, InOrder, Rest
<1>8. WriteAgrees'
  BY <1>2, <1>4, <1>5 DEF WriteAgrees
<1>. QED  BY <1>4, <1>7, <1>8 DEF EInv

\* What one write() moves, and what it leaves.
LEMMA WriteParts ==
  ASSUME IInv, EInv, WriteSome
  PROVE  \E c \in Conns, n \in 1 .. Len(buf) :
           /\ c = fds[client[i]] /\ life[c] = "open" /\ ~rst[c] /\ Running
           /\ buf \in Seq(Byte) /\ buf = Rest(c) /\ InOrder(c)
           /\ Deliver(c, SubSeq(buf, 1, n))
           /\ buf' = SubSeq(buf, n + 1, Len(buf))
<1>. DEFINE c == fds[client[i]]
            n == Smaller(Room(c), Len(buf))
<1>1. /\ pc = "write" /\ ~rst[c] /\ n > 0
      /\ Deliver(c, SubSeq(buf, 1, n))
      /\ buf' = SubSeq(buf, n + 1, Len(buf))
  BY DEF WriteSome
<1>2. c \in Conns /\ life[c] = "open" /\ Running /\ NetTypeOK
  BY <1>1, SlotConn DEF IInv, TypeOK
<1>3. buf \in Seq(Byte) /\ buf = Rest(c) /\ InOrder(c)
  BY <1>1, <1>2, EchoParts DEF IInv, TypeOK, EInv, WriteAgrees
<1>4. Len(buf) \in Nat /\ Room(c) \in Int
  BY <1>2, <1>3, LenProperties, ByteCounts
<1>5. n \in 1 .. Len(buf)
  BY <1>1, <1>4 DEF Smaller
<1>. QED  BY <1>1, <1>2, <1>3, <1>5

LEMMA WriteKeepsBytes ==
  ASSUME IInv, EInv, WriteSome
  PROVE  EInv'
<1>1. PICK c \in Conns, n \in 1 .. Len(buf) :
        /\ c = fds[client[i]] /\ life[c] = "open" /\ ~rst[c] /\ Running
        /\ buf \in Seq(Byte) /\ buf = Rest(c) /\ InOrder(c)
        /\ Deliver(c, SubSeq(buf, 1, n))
        /\ buf' = SubSeq(buf, n + 1, Len(buf))
  BY WriteParts
<1>2. /\ pc = "write" /\ UNCHANGED <<client, fds>>
      /\ \/ pc' = "write" /\ i' = i
         \/ buf' = << >> /\ pc' # "write"
  BY DEF WriteSome, SlotDone, tableVars
<1>3. /\ CountsAgree' /\ InOrder(c)'
      /\ UNCHANGED <<sent, half, rst, got>>
      /\ buf' = Rest(c)' /\ (buf' = << >> => got'[c] = Len(echo'[c]))
      /\ \A d \in Conns \ {c} : echo'[d] = echo[d]
  BY <1>1, DeliverRest DEF IInv, TypeOK, EInv
<1>5. \A d \in Conns \ {c} : InOrder(d)' /\ (got'[d] = Len(echo'[d]) \/ rst'[d])
  BY <1>1, <1>3, AllSentBack, EchoParts DEF EInv, InOrder
<1>6. \A d \in Conns :
        /\ InOrder(d)'
        /\ \/ got'[d] = Len(echo'[d]) \/ rst'[d]
           \/ d = c /\ pc' = "write" /\ i' = i /\ buf' = Rest(c)'
  BY <1>2, <1>3, <1>5
<1>7. EchoFaithful'
  BY <1>1, <1>2, <1>6 DEF EchoFaithful, InOrder, Rest
<1>8. WriteAgrees'
  BY <1>1, <1>2, <1>3 DEF WriteAgrees
<1>. QED  BY <1>3, <1>7, <1>8 DEF EInv

LEMMA WriteFailsKeepsBytes ==
  ASSUME IInv, EInv, WriteFails, ~Die
  PROVE  EInv'
<1>. DEFINE c == fds[client[i]]
<1>1. /\ pc = "write" /\ rst[c] /\ pc' # "write"
      /\ UNCHANGED <<sent, half, rst, got, echo>>
  BY DEF WriteFails, SlotDone, netVars
<1>2. c \in Conns /\ Running
  BY <1>1, SlotConn
<1>. HIDE DEF c
<1>3. \A d \in Conns : InOrder(d) /\ (got[d] = Len(echo[d]) \/ rst[d])
  BY <1>1, <1>2, AllSentBack, EchoParts DEF EInv, c
<1>. QED  BY <1>1, <1>3 DEF EInv, CountsAgree, EchoFaithful, InOrder, WriteAgrees

LEMMA InitEInv == Init => EInv
<1>. SUFFICES ASSUME Init PROVE EInv
  OBVIOUS
<1>1. CountsAgree /\ \A c \in Conns : InOrder(c) /\ got[c] = Len(echo[c])
  BY InitBytes DEF Init, NetInit
<1>. QED  BY <1>1, EchoParts DEF Init, EInv, WriteAgrees

LEMMA NextEInv == IInv /\ EInv /\ [Next]_vars => EInv'
<1>. SUFFICES ASSUME IInv, EInv, [Next]_vars PROVE EInv'
  OBVIOUS
<1>1. CASE PeerStep
  BY <1>1, PeerKeepsBytes
<1>2. CASE \/ Select \/ SelectFails \/ Accept \/ AcceptOverruns \/ AcceptFails
           \/ SkipSlot \/ ReadEnd \/ Die
  BY <1>2, OthersKeepBytes
<1>3. CASE ReadData
  BY <1>3, ReadKeepsBytes
<1>4. CASE WriteSome
  BY <1>4, WriteKeepsBytes
<1>5. CASE WriteFails /\ ~Die
  BY <1>5, WriteFailsKeepsBytes
<1>6. CASE UNCHANGED vars
  BY <1>6 DEF vars, serverVars, tableVars, netVars, EInv, CountsAgree, EchoFaithful,
              WriteAgrees, Running, Rest
<1>. QED  BY <1>1, <1>2, <1>3, <1>4, <1>5, <1>6 DEF Next, ServerStep

LEMMA BytesInvariance == Spec => []EInv
<1>. QED  BY InitEInv, NextEInv, Invariance, PTL DEF Spec

\* What is written back to a connection is what was read from it, in order
\* and once, although one buffer serves all of them.
THEOREM EchoSafety == Spec => []EchoFaithful
<1>1. EInv => EchoFaithful
  BY DEF EInv
<1>. QED  BY <1>1, BytesInvariance, PTL

-----------------------------------------------------------------------------
(* The end of a connection, and the echo service.                          *)

\* The connection ReadEnd closes has got everything back, or was reset.
LEMMA NoDataServed ==
  ASSUME IInv, EInv, ReadEnd
  PROVE  \E c \in Conns :
           /\ ServerCloses(c) /\ life[c] = "open"
           /\ half[c] # "open" /\ (rst[c] \/ Len(echo[c]) = sent[c])
<1>1. PICK c \in Conns : c = fds[client[i]] /\ life[c] = "open" /\ Running /\ pc = "scan"
  BY SlotConn DEF ReadEnd, Chosen
<1>2. ServerCloses(c) /\ Unread(c) = 0 /\ Readable(c)
  BY <1>1 DEF ReadEnd
<1>3. got[c] = Len(echo[c]) \/ rst[c]
  BY <1>1, AllSentBack
<1>4. got[c] = sent[c]
  BY <1>2, TcpAssumption DEF Unread, IInv, TypeOK, NetTypeOK
<1>5. half[c] # "open"
  BY <1>2 DEF Readable, EInv, CountsAgree
<1>. QED  BY <1>1, <1>2, <1>3, <1>4, <1>5

\* The server closes a connection only after its client stopped sending and
\* got everything back, or was reset, or with the whole process: no step of
\* the scan closes the connection of another slot.
THEOREM CloseSafety == Spec => ClosesWhenDone
<1>1. ASSUME IInv, EInv, [Next]_vars, NEW c \in Conns, life[c] = "open", life'[c] = "shut"
      PROVE  \/ pc' = "killed"
             \/ half[c] # "open" /\ (rst[c] \/ Len(echo[c]) = sent[c])
  <2>1. CASE PeerStep
    BY <1>1, <2>1, ClientStepLives DEF PeerStep, IInv, TypeOK
  <2>2. CASE Accept \/ AcceptOverruns
    <3>1. TakeFromBacklog(Head(backlog))
      BY <2>2 DEF Accept, AcceptOverruns
    <3>. QED  BY <1>1, <3>1 DEF TakeFromBacklog, IInv, TypeOK, NetTypeOK
  <2>3. CASE ReadEnd
    <3>1. PICK d \in Conns :
            /\ ServerCloses(d) /\ life[d] = "open"
            /\ half[d] # "open" /\ (rst[d] \/ Len(echo[d]) = sent[d])
      BY <1>1, <2>3, NoDataServed
    <3>2. c = d
      BY <1>1, <3>1 DEF ServerCloses, IInv, TypeOK, NetTypeOK
    <3>. QED  BY <3>1, <3>2
  <2>4. CASE WriteFails
    BY <1>1, <2>4 DEF WriteFails, Die, netVars
  <2>5. CASE \/ Select \/ SelectFails \/ AcceptFails \/ SkipSlot \/ ReadData \/ WriteSome
             \/ UNCHANGED vars
    <3>1. life' = life
      BY <2>5 DEF Select, SelectFails, AcceptFails, SkipSlot, ReadData, WriteSome, Consume,
                  Deliver, netVars, vars
    <3>. QED  BY <1>1, <3>1
  <2>. QED  BY <1>1, <2>1, <2>2, <2>3, <2>4, <2>5 DEF Next, ServerStep
<1>2. IInv /\ EInv /\ [Next]_vars =>
        [\A c \in Conns :
           life[c] = "open" /\ life'[c] = "shut" =>
             \/ pc' = "killed"
             \/ half[c] # "open" /\ (rst[c] \/ Len(echo[c]) = sent[c])]_vars
  BY <1>1
<1>. QED  BY <1>2, Invariance, BytesInvariance, PTL DEF Spec, ClosesWhenDone

\* SIGPIPE has not ended the process.
NotKilled == pc # "killed"

\* Clients that read all they are sent do not vanish.
NobodyGone == \A c \in Conns : half[c] # "gone"

LEMMA NextNobodyGone ==
  ~Abortive /\ ~Evicts /\ IInv /\ NobodyGone /\ [Next]_vars => NobodyGone'
<1>. SUFFICES ASSUME ~Abortive, ~Evicts, IInv, NobodyGone, [Next]_vars PROVE NobodyGone'
  OBVIOUS
<1>1. half' = half \/ \E c \in Conns : half' = [half EXCEPT ![c] = "fin"]
  BY DEF Next, ServerStep, Select, SelectFails, Accept, AcceptOverruns, AcceptFails, SkipSlot,
         ReadData, ReadEnd, WriteSome, WriteFails, Die, TakeFromBacklog, Consume, Deliver,
         ServerCloses, ServerDies, PeerStep, ClientStep, Connect, ClientSends, ClientFinishes,
         ClientReads, ClientVanishes, ResetArrives, Evict, vars, netVars
<1>. QED  BY <1>1 DEF NobodyGone, IInv, TypeOK, NetTypeOK

\* Nor are their connections reset, so that no write() ends the process.
LEMMA NextAlive ==
  IInv /\ EInv /\ NobodyGone /\ NotKilled /\ [Next]_vars => NotKilled'
<1>. SUFFICES ASSUME IInv, EInv, NobodyGone, NotKilled, [Next]_vars PROVE NotKilled'
  OBVIOUS
<1>1. ~WriteFails
  <2>1. WriteFails => fds[client[i]] \in Conns /\ rst[fds[client[i]]]
    BY SlotConn DEF WriteFails
  <2>. QED  BY <2>1 DEF NobodyGone, EInv, CountsAgree
<1>. QED
  BY <1>1
     DEF NotKilled, Next, ServerStep, Select, SelectFails, Accept, AcceptDone, AcceptOverruns,
         AcceptFails, SkipSlot, ReadData, ReadEnd, WriteSome, SlotDone, PeerStep,
         serverVars, vars

\* One step of a process that goes on is a step of the service: a write() that
\* fails leaves the connections as they are.
LEMMA ServerServes ==
  ASSUME IInv, EInv, NotKilled', ServerStep
  PROVE  Service!Next \/ UNCHANGED Service!vars
<1>1. CASE Accept \/ AcceptOverruns
  <2>1. backlog # << >> /\ TakeFromBacklog(Head(backlog))
    BY <1>1 DEF Accept, AcceptOverruns
  <2>2. Head(backlog) \in Conns /\ life[Head(backlog)] = "queued"
    BY <2>1, TakeKeeps DEF IInv, TypeOK
  <2>. QED  BY ONLY <2>1, <2>2, AdmitServes
<1>2. CASE ReadEnd
  BY <1>2, NoDataServed, CloseServes
<1>3. CASE WriteSome
  <2>1. PICK c \in Conns, n \in 1 .. Len(buf) :
          /\ life[c] = "open" /\ ~rst[c]
          /\ buf \in Seq(Byte) /\ buf = Rest(c) /\ InOrder(c)
          /\ Deliver(c, SubSeq(buf, 1, n))
    BY <1>3, WriteParts
  <2>. QED  BY <2>1, ReplyServes DEF IInv, TypeOK, EInv
<1>4. CASE WriteFails
  BY <1>4 DEF WriteFails, Die, NotKilled, netVars, Service!vars
<1>5. CASE Select \/ SelectFails \/ AcceptFails \/ SkipSlot \/ ReadData
  BY <1>5 DEF Select, SelectFails, AcceptFails, SkipSlot, ReadData, Consume, netVars,
              Service!vars
<1>. QED  BY <1>1, <1>2, <1>3, <1>4, <1>5 DEF ServerStep

\* As long as SIGPIPE does not end the process, every step of the server and
\* its clients is a step of the echo service, also where clients vanish,
\* accept() fails or the table overruns.
THEOREM EchoWhileAlive == ~Evicts => (Spec /\ []NotKilled => Echo!SafeSpec)
<1>. SUFFICES ASSUME ~Evicts PROVE Spec /\ []NotKilled => Echo!SafeSpec
  OBVIOUS
<1>1. Init => Echo!Init
  BY DEF Init, NetInit, Echo!Init
<1>2. IInv /\ EInv /\ NotKilled' /\ [Next]_vars => [Echo!Next]_(Echo!vars)
  <2>. SUFFICES ASSUME IInv, EInv, NotKilled', [Next]_vars
                PROVE  Service!Next \/ UNCHANGED Service!vars
    BY DEF Echo!Next, Echo!Connect, Echo!Send, Echo!Finish, Echo!Reset, Echo!Admit, Echo!Reply,
           Echo!Segment, Echo!Close, Echo!vars, Service!Next, Service!Connect, Service!Send,
           Service!Finish, Service!Reset, Service!Admit, Service!Reply, Service!Segment,
           Service!Close, Service!vars
  <2>1. CASE PeerStep
    BY <2>1, ClientStepServes DEF PeerStep
  <2>2. CASE ServerStep
    BY <2>2, ServerServes
  <2>3. CASE UNCHANGED vars
    BY <2>3 DEF vars, netVars, Service!vars
  <2>. QED  BY <2>1, <2>2, <2>3 DEF Next
<1>. QED  BY <1>1, <1>2, Invariance, BytesInvariance, PTL DEF Spec, Echo!SafeSpec

\* With clients that read to the end the process is never ended, and the
\* server implements the echo service.
THEOREM EchoRefined == ~Abortive /\ ~Evicts => (Spec => Echo!SafeSpec)
<1>. SUFFICES ASSUME ~Abortive, ~Evicts PROVE Spec => Echo!SafeSpec
  OBVIOUS
<1>1. Init => NobodyGone /\ NotKilled
  BY DEF Init, NetInit, NobodyGone, NotKilled
<1>2. NobodyGone /\ IInv /\ [Next]_vars => NobodyGone'
  BY NextNobodyGone
<1>3. NotKilled /\ NobodyGone /\ IInv /\ EInv /\ [Next]_vars => NotKilled'
  BY NextAlive
<1>4. Spec /\ []NotKilled => Echo!SafeSpec
  BY EchoWhileAlive
<1>. QED  BY <1>1, <1>2, <1>3, <1>4, Invariance, BytesInvariance, PTL DEF Spec
=============================================================================
