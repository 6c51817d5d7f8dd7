-------------------------- MODULE SelectSweepProofs --------------------------
(***************************************************************************)
(* The sweep of SelectServer over client[] after select(): it handles      *)
(* every descriptor reported and stops there, and none of its read() calls *)
(* blocks.  Both need more than the table invariant: what was reported     *)
(* must still hold when the sweep reaches the slot, although the table,    *)
(* the connections and rset change on the way.                             *)
(***************************************************************************)
EXTENDS SelectServerProofs, FunctionTheorems

OpenFds == {f \in Descriptors : fds[f] # NoConn}

\* The slots the sweep has still to look at.
Ahead(j) ==
  \/ pc = "accept" /\ nready # -1
  \/ pc = "scan" /\ j >= i
  \/ pc = "write" /\ j > i

\* After a select() that succeeded, accept() is at the first of nready.
Announced ==
  pc = "accept" /\ nready # -1 =>
    /\ i = 0
    /\ rset \ {listenfd} \subseteq OpenFds
    /\ nready = Cardinality(ToHandle) + 1

StillReady ==
  \A j \in Slots : client[j] # -1 /\ client[j] \in rset /\ Ahead(j)
                     => Readable(fds[client[j]])

AtReported == pc = "write" => client[i] \in rset

\* The inductive invariant of the sweep, on top of IInv.
SInv ==
  /\ Announced
  /\ NreadyExact
  /\ StillReady
  /\ AtReported

-----------------------------------------------------------------------------
\* There are as many slots as descriptors in a set of open descriptors.
LEMMA SlotCount ==
  ASSUME IInv, Running, NEW R \in SUBSET OpenFds
  PROVE  LET H == {j \in 0 .. maxi : client[j] # -1 /\ client[j] \in R}
         IN  IsFiniteSet(H) /\ Cardinality(H) = Cardinality(R)
<1>. DEFINE H == {j \in 0 .. maxi : client[j] # -1 /\ client[j] \in R}
            f == [j \in H |-> client[j]]
<1>1. /\ H \subseteq Slots /\ maxi \in Int
      /\ client \in [Slots -> {-1} \cup Descriptors]
      /\ R \subseteq Descriptors /\ \A g \in R : fds[g] # NoConn
  BY ServerAssumption DEF IInv, TypeOK, OpenFds, Slots
<1>2. /\ \A j \in Slots : client[j] # -1 =>
           j <= maxi /\ \A k \in Slots : client[k] = client[j] => k = j
      /\ \A g \in Descriptors : fds[g] # NoConn => \E j \in Slots : client[j] = g
  BY DEF IInv, TableAgrees
<1>3. f \in [H -> R] /\ \A j, k \in H : f[j] = f[k] => j = k
  BY ONLY <1>1, <1>2
<1>4. \A g \in R : \E j \in H : f[j] = g
  <2>. SUFFICES ASSUME NEW g \in R PROVE \E j \in H : f[j] = g
    OBVIOUS
  <2>1. PICK j \in Slots : client[j] = g
    BY <1>1, <1>2
  <2>2. g # -1 /\ j >= 0 /\ j \in Int
    BY <1>1, ServerAssumption DEF Slots, Descriptors
  <2>3. j \in H
    BY <1>1, <1>2, <2>1, <2>2
  <2>. QED  BY <2>1, <2>3
<1>5. f \in Bijection(H, R)
  BY <1>3, <1>4, Fun_IsBij
<1>6. IsFiniteSet(H)
  <2>1. IsFiniteSet(0 .. maxi)
    BY <1>1, FS_Interval
  <2>. QED  BY <2>1, FS_Subset
<1>7. ExistsBijection(H, R)
  BY <1>5 DEF ExistsBijection
<1>. QED  BY <1>6, <1>7, FS_Bijection

\* ToHandle is finite and, once slot i is dealt with, what is left of it is
\* one smaller.
LEMMA ToHandleFinite ==
  ASSUME IInv
  PROVE  IsFiniteSet(ToHandle)
<1>1. i \in Int /\ maxi \in Int
  BY ServerAssumption DEF IInv, TypeOK
<1>2. IsFiniteSet(i .. maxi)
  BY <1>1, FS_Interval
<1>. QED  BY <1>2, FS_Subset DEF ToHandle

LEMMA OneHandled ==
  ASSUME IInv, i \in Slots, i <= maxi, client[i] # -1, client[i] \in rset,
         i' = i + 1, maxi' = maxi, rset' = rset,
         \A k \in Slots : k # i => client'[k] = client[k]
  PROVE  Cardinality(ToHandle') = Cardinality(ToHandle) - 1
<1>1. i \in Int /\ maxi \in -1 .. FD_SETSIZE - 1 /\ i >= 0
  BY ServerAssumption DEF IInv, TypeOK, Slots
<1>2. \A k \in i .. maxi : k \in Slots
  BY <1>1, ServerAssumption DEF Slots
<1>3. ToHandle' = ToHandle \ {i} /\ i \in ToHandle
  BY <1>1, <1>2 DEF ToHandle
<1>. QED  BY <1>3, ToHandleFinite, FS_RemoveElement

-----------------------------------------------------------------------------
LEMMA PeerKeepsSweep ==
  ASSUME IInv, SInv, PeerStep
  PROVE  SInv'
<1>1. PICK c \in Conns : ClientStep(c)
  BY DEF PeerStep
<1>2. /\ UNCHANGED <<pc, i, rset, nready, client, maxi, fds>>
  BY DEF PeerStep, serverVars, tableVars
<1>3. Announced' /\ NreadyExact' /\ AtReported'
  BY <1>2 DEF SInv, Announced, NreadyExact, AtReported, ToHandle, OpenFds
<1>4. StillReady'
  <2>. SUFFICES ASSUME NEW j \in Slots, client[j] # -1, client[j] \in rset, Ahead(j)
                PROVE  Readable(fds[client[j]])'
    BY <1>2 DEF StillReady, Ahead
  <2>1. PICK d \in Conns : d = fds[client[j]]
    BY DEF IInv, TypeOK, TableAgrees, Ahead, Running
  <2>2. Readable(d)
    BY <2>1 DEF SInv, StillReady
  <2>3. Readable(d)'
    BY <1>1, <2>2, ReadableStays DEF IInv, TypeOK
  <2>. QED  BY <1>2, <2>1, <2>3 DEF Readable, Unread
<1>. QED  BY <1>3, <1>4 DEF SInv

\* select() counts what it reports, and all of it is in slots 0 .. maxi.
LEMMA SelectStartsSweep ==
  ASSUME IInv, SInv, Select
  PROVE  SInv'
<1>1. /\ pc = "select" /\ i' = 0 /\ Running
      /\ UNCHANGED <<backlog, life, sent, half, rst, got, echo, drained>>
      /\ UNCHANGED <<client, maxi, maxfd, allset, fds>>
      /\ \A f \in Watched : IsOpen(f)
      /\ rset' = {f \in Watched : FdReady(f)}
      /\ nready' = Cardinality(rset')
      /\ pc' = IF listenfd \in rset' THEN "accept" ELSE "scan"
  BY DEF Select, netVars, tableVars, Running
<1>. DEFINE R == rset' \ {listenfd}
            H == {j \in 0 .. maxi : client[j] # -1 /\ client[j] \in R}
<1>2. R \in SUBSET OpenFds
  BY <1>1 DEF IsOpen, OpenFds
<1>3. IsFiniteSet(H) /\ Cardinality(H) = Cardinality(R)
  BY <1>1, <1>2, SlotCount
<1>4. ToHandle' = H
  <2>1. \A j \in 0 .. maxi : client[j] # listenfd
    BY ServerAssumption DEF IInv, TypeOK, Slots, Descriptors
  <2>. QED  BY <1>1, <2>1 DEF ToHandle
<1>5. IsFiniteSet(rset')
  <2>1. IsFiniteSet(listenfd .. FD_SETSIZE - 1)
    BY FS_Interval, ServerAssumption
  <2>2. rset' \in SUBSET (listenfd .. FD_SETSIZE - 1)
    BY <1>1 DEF IInv, TypeOK, Watched
  <2>. QED  BY ONLY <2>1, <2>2, FS_Subset
<1>6. Cardinality(R) = IF listenfd \in rset' THEN nready' - 1 ELSE nready'
  BY <1>1, <1>5, FS_RemoveElement
<1>7. nready' \in Nat
  BY <1>1, <1>5, FS_CardinalityType
<1>8. Announced' /\ NreadyExact' /\ AtReported'
  BY <1>1, <1>2, <1>3, <1>4, <1>6, <1>7
     DEF Announced, NreadyExact, AtReported, OpenFds
<1>9. StillReady'
  <2>. SUFFICES ASSUME NEW j \in Slots, client[j] # -1, client[j] \in rset'
                PROVE  Readable(fds[client[j]])'
    BY <1>1 DEF StillReady
  <2>1. FdReady(client[j]) /\ client[j] # listenfd
    BY <1>1, ServerAssumption DEF IInv, TypeOK, Descriptors
  <2>. QED  BY <1>1, <2>1 DEF FdReady, Readable, Unread
<1>. QED  BY <1>8, <1>9 DEF SInv

\* The connection accepted was not in the set select() looked at: the sweep
\* that follows passes over its slot.
LEMMA AcceptKeepsSweep ==
  ASSUME IInv, SInv, Accept
  PROVE  SInv'
<1>1. PICK connfd \in Descriptors, j \in Slots :
        /\ fds[connfd] = NoConn
        /\ client[j] = -1
        /\ fds' = [fds EXCEPT ![connfd] = Head(backlog)]
        /\ client' = [client EXCEPT ![j] = connfd]
        /\ maxi' = IF j > maxi THEN j ELSE maxi
  BY DEF Accept, LowestFree, FreeFds, FirstSlot
<1>2. /\ pc = "accept" /\ Running /\ UNCHANGED <<i, rset, sent, half, rst, got>>
      /\ nready' = nready - 1
      /\ pc' = IF nready' <= 0 THEN "select" ELSE "scan"
  BY DEF Accept, AcceptDone, TakeFromBacklog, Running
<1>3. CASE pc' = "select"
  BY <1>3 DEF SInv, Announced, NreadyExact, StillReady, AtReported, Ahead
<1>4. CASE pc' = "scan"
  <2>1. nready # -1 /\ nready \in Int
    BY <1>2, <1>4 DEF IInv, TypeOK
  <2>2. /\ i = 0 /\ rset \ {listenfd} \subseteq OpenFds
        /\ nready = Cardinality(ToHandle) + 1
    BY <1>2, <2>1 DEF SInv, Announced
  <2>3. connfd \notin rset /\ connfd # -1
    BY <1>1, <2>2, ServerAssumption DEF OpenFds, Descriptors
  <2>4. /\ client \in [Slots -> {-1} \cup Descriptors] /\ maxi \in Int
        /\ \A k \in Slots : client[k] # -1 => k <= maxi
        /\ 0 .. maxi \subseteq Slots /\ 0 .. maxi' \subseteq Slots
    BY <1>1, <1>2, ServerAssumption DEF IInv, TypeOK, TableAgrees, Slots
  <2>5. ToHandle' = ToHandle
    BY <1>1, <1>2, <2>2, <2>3, <2>4 DEF ToHandle, Slots
  <2>6. Cardinality(ToHandle) \in Nat
    BY ToHandleFinite, FS_CardinalityType
  <2>7. NreadyExact' /\ Announced' /\ AtReported'
    BY <1>2, <1>4, <2>2, <2>5, <2>6 DEF NreadyExact, Announced, AtReported
  <2>8. StillReady'
    <3>. SUFFICES ASSUME NEW k \in Slots, client'[k] # -1, client'[k] \in rset
                  PROVE  Readable(fds[client[k]])'
      BY <1>2 DEF StillReady
    <3>1. client'[k] = client[k] /\ client[k] # connfd /\ client[k] \in Descriptors
      BY <1>1, <2>3, <2>4
    <3>2. fds'[client'[k]] = fds[client[k]]
      BY <1>1, <3>1 DEF IInv, TypeOK
    <3>3. Readable(fds[client[k]])
      BY <1>2, <2>1, <3>1 DEF SInv, StillReady, Ahead
    <3>. QED  BY <1>2, <3>2, <3>3 DEF Readable, Unread
  <2>. QED  BY <2>7, <2>8 DEF SInv
<1>. QED  BY <1>2, <1>3, <1>4

\* Outside a sweep there is nothing to show.
LEMMA NoSweep ==
  ASSUME \/ pc' \in {"select", "overrun", "killed"}
         \/ pc' = "accept" /\ nready' = -1
  PROVE  SInv'
BY DEF SInv, Announced, NreadyExact, StillReady, AtReported, Ahead

\* A failed accept() may raise maxi; the slots below the new maxi are free.
LEMMA AcceptFailsKeepsSweep ==
  ASSUME IInv, SInv, AcceptFails
  PROVE  SInv'
<1>1. PICK j \in Slots : client[j] = -1 /\ maxi' = IF j > maxi THEN j ELSE maxi
  BY DEF AcceptFails, FirstSlot
<1>2. /\ pc = "accept" /\ Running
      /\ UNCHANGED <<i, rset, client, fds, sent, half, rst, got>>
      /\ nready' = nready - 1
      /\ pc' = IF nready' <= 0 THEN "select" ELSE "scan"
  BY DEF AcceptFails, AcceptDone, netVars, Running
<1>3. CASE pc' = "select"
  BY <1>3, NoSweep
<1>4. CASE pc' = "scan"
  <2>1. nready # -1 /\ nready \in Int
    BY <1>2, <1>4 DEF IInv, TypeOK
  <2>2. i = 0 /\ nready = Cardinality(ToHandle) + 1
    BY <1>2, <2>1 DEF SInv, Announced
  <2>3. /\ maxi \in Int
        /\ \A k \in Slots : client[k] # -1 => k <= maxi
        /\ 0 .. maxi \subseteq Slots /\ 0 .. maxi' \subseteq Slots
    BY <1>1, <1>2, ServerAssumption DEF IInv, TypeOK, TableAgrees, Slots
  <2>4. ToHandle' = ToHandle
    BY <1>1, <1>2, <2>2, <2>3 DEF ToHandle, Slots
  <2>5. Cardinality(ToHandle) \in Nat
    BY ToHandleFinite, FS_CardinalityType
  <2>6. NreadyExact' /\ Announced' /\ AtReported'
    BY <1>2, <1>4, <2>2, <2>4, <2>5 DEF NreadyExact, Announced, AtReported
  <2>7. StillReady'
    BY <1>2, <1>4, <2>1, <2>2
       DEF SInv, StillReady, Ahead, Readable, Unread
  <2>. QED  BY <2>6, <2>7 DEF SInv
<1>. QED  BY <1>2, <1>3, <1>4

\* Passing over a slot leaves the rest of the sweep as it was.
LEMMA SkipKeepsSweep ==
  ASSUME IInv, SInv, SkipSlot
  PROVE  SInv'
<1>1. CASE pc' = "select"
  BY <1>1, NoSweep
<1>2. CASE pc' # "select"
  <2>1. /\ pc = "scan" /\ pc' = "scan" /\ i <= maxi /\ i' = i + 1 /\ ~Chosen
        /\ UNCHANGED <<rset, nready, client, maxi, fds, sent, half, rst, got>>
    BY <1>2 DEF SkipSlot, tableVars, netVars
  <2>2. i \in Int /\ i >= 0 /\ maxi \in Int
    BY ServerAssumption DEF IInv, TypeOK
  <2>3. ToHandle' = ToHandle
    BY <2>1, <2>2 DEF ToHandle, Chosen
  <2>4. NreadyExact' /\ Announced' /\ AtReported'
    BY <2>1, <2>3 DEF SInv, NreadyExact, Announced, AtReported
  <2>5. StillReady'
    BY <2>1, <2>2 DEF SInv, StillReady, Ahead, Readable, Unread, Slots
  <2>. QED  BY <2>4, <2>5 DEF SInv
<1>. QED  BY <1>1, <1>2

\* read() takes bytes from one connection, and no other slot holds it.
LEMMA ReadDataKeepsSweep ==
  ASSUME IInv, SInv, ReadData
  PROVE  SInv'
<1>. DEFINE c == fds[client[i]]
<1>1. /\ Chosen /\ Consume(c, Len(buf')) /\ pc' = "write"
      /\ UNCHANGED <<client, maxi, fds, i, rset, nready>>
  BY DEF ReadData, tableVars
<1>2. /\ pc = "scan" /\ client[i] # -1 /\ client[i] \in rset /\ i \in Slots /\ Running
      /\ c \in Conns /\ client[i] \in Descriptors
  BY <1>1, SlotConn DEF Chosen
<1>3. NreadyExact' /\ Announced' /\ AtReported'
  BY <1>1, <1>2 DEF SInv, NreadyExact, Announced, AtReported, ToHandle
<1>4. StillReady'
  <2>. SUFFICES ASSUME NEW j \in Slots, client[j] # -1, client[j] \in rset, j > i
                PROVE  Readable(fds[client[j]])'
    BY <1>1 DEF StillReady, Ahead
  <2>1. Readable(fds[client[j]])
    BY <1>2, ServerAssumption DEF SInv, StillReady, Ahead, Slots
  <2>2. fds[client[j]] # c
    <3>1. client[j] \in Descriptors /\ fds[client[j]] # NoConn /\ j # i
      BY ServerAssumption, <1>2 DEF IInv, TypeOK, TableAgrees, Slots
    <3>2. client[j] # client[i]
      BY <1>2, <3>1 DEF IInv, TableAgrees
    <3>. QED  BY <1>2, <3>1, <3>2 DEF IInv, FdsAgree
  <2>. HIDE DEF c
  <2>3. got'[fds[client[j]]] = got[fds[client[j]]]
    BY <1>1, <2>2 DEF Consume, IInv, TypeOK, NetTypeOK
  <2>. QED  BY <1>1, <2>1, <2>3 DEF Consume, Readable, Unread
<1>. QED  BY <1>3, <1>4 DEF SInv

\* A slot handled: closing, or the last part of a write, leaves the slots
\* ahead as they were and takes one from nready.
LEMMA DoneKeepsSweep ==
  ASSUME IInv, SInv, SlotDone, Chosen \/ pc = "write",
         UNCHANGED <<maxi, rset, sent, half, rst, got>>,
         \A k \in Slots : k # i => client'[k] = client[k],
         \A k \in Slots : k # i /\ client[k] # -1 => fds'[client[k]] = fds[client[k]]
  PROVE  SInv'
<1>1. CASE pc' = "select"
  BY <1>1, NoSweep
<1>2. CASE pc' # "select"
  <2>1. pc' = "scan" /\ i' = i + 1 /\ nready' = nready - 1
    BY <1>2 DEF SlotDone
  <2>2. /\ i \in Slots /\ i <= maxi /\ client[i] # -1 /\ client[i] \in rset
        /\ pc \in {"scan", "write"}
    BY SlotConn, ServerAssumption
       DEF SInv, AtReported, Chosen, Descriptors
  <2>3. Cardinality(ToHandle') = Cardinality(ToHandle) - 1
    BY <2>1, <2>2, OneHandled
  <2>4. NreadyExact' /\ Announced' /\ AtReported'
    BY <2>1, <2>2, <2>3 DEF SInv, NreadyExact, Announced, AtReported
  <2>5. StillReady'
    <3>. SUFFICES ASSUME NEW j \in Slots, client'[j] # -1, client'[j] \in rset, j >= i + 1
                  PROVE  Readable(fds[client[j]])'
      BY <2>1 DEF StillReady, Ahead
    <3>1. j # i /\ j > i
      BY <2>2, ServerAssumption DEF Slots
    <3>2. Readable(fds[client[j]])
      BY <2>2, <3>1, ServerAssumption DEF SInv, StillReady, Ahead, Slots
    <3>. QED  BY <3>1, <3>2 DEF Readable, Unread
  <2>. QED  BY <2>4, <2>5 DEF SInv
<1>. QED  BY <1>1, <1>2

LEMMA ReadEndKeepsSweep ==
  ASSUME IInv, SInv, ReadEnd
  PROVE  SInv'
<1>1. /\ Chosen /\ SlotDone
      /\ fds' = [fds EXCEPT ![client[i]] = NoConn]
      /\ client' = [client EXCEPT ![i] = -1]
      /\ UNCHANGED <<maxi, rset, sent, half, rst, got>>
  BY DEF ReadEnd, ServerCloses
<1>2. i \in Slots /\ client[i] # -1 /\ client \in [Slots -> {-1} \cup Descriptors]
  BY <1>1, SlotConn DEF IInv, TypeOK, Chosen
<1>3. \A k \in Slots : k # i => client'[k] = client[k]
  BY <1>1, <1>2
<1>4. \A k \in Slots : k # i /\ client[k] # -1 => fds'[client[k]] = fds[client[k]]
  BY <1>1, <1>2, SlotConn DEF IInv, TypeOK, TableAgrees
<1>. QED  BY <1>1, <1>3, <1>4, DoneKeepsSweep

LEMMA WriteKeepsSweep ==
  ASSUME IInv, SInv, WriteSome \/ WriteFails
  PROVE  SInv'
<1>1. CASE WriteFails /\ Die
  BY <1>1, NoSweep DEF Die
<1>2. CASE ~(WriteFails /\ Die)
  <2>1. /\ pc = "write"
        /\ SlotDone \/ UNCHANGED <<pc, i, nready>>
        /\ UNCHANGED <<client, maxi, fds, rset, sent, half, rst, got>>
    BY <1>2 DEF WriteSome, WriteFails, Deliver, tableVars, netVars
  <2>2. CASE SlotDone
    <3>1. /\ \A k \in Slots : k # i => client'[k] = client[k]
          /\ \A k \in Slots : k # i /\ client[k] # -1 => fds'[client[k]] = fds[client[k]]
      BY <2>1
    <3>2. UNCHANGED <<maxi, rset, sent, half, rst, got>> /\ pc = "write"
      BY <2>1
    <3>. QED  BY ONLY <2>2, <3>1, <3>2, IInv, SInv, DoneKeepsSweep
  <2>3. CASE UNCHANGED <<pc, i, nready>>
    BY <2>1, <2>3 DEF SInv, Announced, NreadyExact, StillReady, AtReported, Ahead,
                      ToHandle, OpenFds, Readable, Unread
  <2>. QED  BY <2>1, <2>2, <2>3
<1>. QED  BY <1>1, <1>2

-----------------------------------------------------------------------------
LEMMA InitSweep == Init => SInv
BY DEF Init, SInv, Announced, NreadyExact, StillReady, AtReported, Ahead

LEMMA NextSweep == IInv /\ SInv /\ [Next]_vars => SInv'
<1>. SUFFICES ASSUME IInv, SInv, [Next]_vars PROVE SInv'
  OBVIOUS
<1>1. CASE PeerStep
  BY <1>1, PeerKeepsSweep
<1>2. CASE Select
  BY <1>2, SelectStartsSweep
<1>3. CASE SelectFails \/ AcceptOverruns
  BY <1>3, NoSweep DEF SelectFails, AcceptOverruns
<1>4. CASE Accept
  BY <1>4, AcceptKeepsSweep
<1>5. CASE AcceptFails
  BY <1>5, AcceptFailsKeepsSweep
<1>6. CASE SkipSlot
  BY <1>6, SkipKeepsSweep
<1>7. CASE ReadData
  BY <1>7, ReadDataKeepsSweep
<1>8. CASE ReadEnd
  BY <1>8, ReadEndKeepsSweep
<1>9. CASE WriteSome \/ WriteFails
  BY <1>9, WriteKeepsSweep
<1>10. CASE UNCHANGED vars
  BY <1>10 DEF vars, serverVars, tableVars, netVars, SInv, Announced, NreadyExact,
               StillReady, AtReported, Ahead, ToHandle, OpenFds, Readable, Unread
<1>. QED
  BY <1>1, <1>2, <1>3, <1>4, <1>5, <1>6, <1>7, <1>8, <1>9, <1>10 DEF Next, ServerStep

LEMMA SweepInvariance == Spec => []SInv
<1>. QED  BY InitSweep, NextSweep, Invariance, PTL DEF Spec

\* The sweep stops exactly when nothing that select() reported is left: the
\* break on --nready <= 0 never skips a ready client, and the loop never goes
\* on past the last one.
THEOREM SweepComplete == Spec => []NreadyExact
<1>1. SInv => NreadyExact
  BY DEF SInv
<1>. QED  BY <1>1, SweepInvariance, PTL

\* No read() of the sweep blocks, whatever was accepted, closed, reset or
\* refused since select() returned.
THEOREM ReadSafety == Spec => []ReadNeverBlocks
<1>1. IInv /\ SInv => ReadNeverBlocks
  <2>. SUFFICES ASSUME IInv, SInv, Chosen PROVE Readable(fds[client[i]])
    BY DEF ReadNeverBlocks
  <2>1. i \in Slots
    BY SlotConn
  <2>. QED  BY <2>1, ServerAssumption DEF SInv, StillReady, Ahead, Chosen, Slots
<1>. QED  BY <1>1, Invariance, SweepInvariance, PTL
=============================================================================
