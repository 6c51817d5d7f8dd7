---------------------------- MODULE TcpNetProofs ----------------------------
(***************************************************************************)
(* What the proofs about the three echo servers share: lemmas about the    *)
(* accept queue, the connections and the system calls of TcpNet, for every *)
(* number of clients, bytes and places in the queue.                       *)
(***************************************************************************)
EXTENDS TcpNet, SequenceTheorems, TLAPS

\* The connections in the accept queue are all different and not yet open.
QueueAgrees ==
  /\ \A k \in 1 .. Len(backlog) : life[backlog[k]] = "queued"
  /\ \A k, l \in 1 .. Len(backlog) : backlog[k] = backlog[l] => k = l

\* The bytes sent back on a connection are the first ones its client sent.
InOrder(c) == echo[c] = [k \in 1 .. Len(echo[c]) |-> <<c, k>>]

\* What the server read and has not sent back.
Rest(c) == [k \in 1 .. got[c] - Len(echo[c]) |-> <<c, Len(echo[c]) + k>>]

\* Nothing is read before it is sent, or sent back before it is read, and
\* only a client that is gone resets its connection.
CountsAgree ==
  \A c \in Conns :
    /\ Len(echo[c]) <= got[c] /\ got[c] <= sent[c]
    /\ rst[c] => half[c] = "gone"

\* The echo service, as every server module instantiates it.
Service == INSTANCE EchoService

-----------------------------------------------------------------------------
\* Taking element k out of a sequence closes the gap and keeps the order.
LEMMA RemoveProperties ==
  ASSUME NEW S, NEW q \in Seq(S), NEW k \in 1 .. Len(q), NEW r,
         r = SubSeq(q, 1, k - 1) \o SubSeq(q, k + 1, Len(q))
  PROVE  /\ r \in Seq(S) /\ Len(r) = Len(q) - 1
         /\ \A l \in 1 .. Len(q) - 1 : r[l] = IF l < k THEN q[l] ELSE q[l + 1]
<1>. DEFINE s == SubSeq(q, 1, k - 1)
            t == SubSeq(q, k + 1, Len(q))
<1>1. Len(q) \in Nat /\ \A l \in 1 .. Len(q) : q[l] \in S
  BY ElementOfSeq, LenProperties
<1>2. /\ s \in Seq(S) /\ Len(s) = k - 1
      /\ \A l \in 1 .. k - 1 : s[l] = q[l]
  <2>1. \A l \in 1 .. k - 1 : q[l] \in S
    BY <1>1
  <2>2. /\ s \in Seq(S) /\ Len(s) = IF 1 <= k - 1 THEN k - 1 - 1 + 1 ELSE 0
        /\ \A l \in 1 .. k - 1 - 1 + 1 : s[l] = q[1 + l - 1]
    BY <1>1, <2>1, SubSeqProperties
  <2>. QED  BY <1>1, <2>2
<1>3. /\ t \in Seq(S) /\ Len(t) = Len(q) - k
      /\ \A l \in 1 .. Len(q) - k : t[l] = q[k + l]
  <2>1. \A l \in k + 1 .. Len(q) : q[l] \in S
    BY <1>1
  <2>2. /\ t \in Seq(S)
        /\ Len(t) = IF k + 1 <= Len(q) THEN Len(q) - (k + 1) + 1 ELSE 0
        /\ \A l \in 1 .. Len(q) - (k + 1) + 1 : t[l] = q[k + 1 + l - 1]
    BY <1>1, <2>1, SubSeqProperties
  <2>. QED  BY <1>1, <2>2
<1>. HIDE DEF s, t
<1>4. /\ r \in Seq(S) /\ Len(r) = Len(q) - 1
      /\ \A l \in 1 .. Len(q) - 1 : r[l] = IF l <= k - 1 THEN s[l] ELSE t[l - (k - 1)]
  <2>1. r = s \o t
    BY DEF s, t
  <2>2. /\ r \in Seq(S) /\ Len(r) = Len(s) + Len(t)
        /\ \A l \in 1 .. Len(s) + Len(t) :
             r[l] = IF l <= Len(s) THEN s[l] ELSE t[l - Len(s)]
    BY ONLY <2>1, <1>2, <1>3, ConcatProperties
  <2>3. Len(s) = k - 1 /\ Len(s) + Len(t) = Len(q) - 1
    BY <1>1, <1>2, <1>3
  <2>. QED  BY ONLY <2>2, <2>3
<1>5. ASSUME NEW l \in 1 .. Len(q) - 1
      PROVE  r[l] = IF l < k THEN q[l] ELSE q[l + 1]
  <2>. DEFINE n == Len(q)
  <2>1. /\ n \in Int /\ k \in 1 .. n /\ l \in 1 .. n - 1
        /\ r[l] = IF l <= k - 1 THEN s[l] ELSE t[l - (k - 1)]
        /\ \A x \in 1 .. k - 1 : s[x] = q[x]
        /\ \A x \in 1 .. n - k : t[x] = q[k + x]
    <3>1. n \in Int /\ k \in 1 .. n /\ l \in 1 .. n - 1
      BY <1>1
    <3>2. r[l] = IF l <= k - 1 THEN s[l] ELSE t[l - (k - 1)]
      BY ONLY <3>1, <1>4
    <3>. QED  BY ONLY <3>1, <3>2, <1>2, <1>3
  <2>. HIDE DEF n
  <2>2. CASE l < k
    BY ONLY <2>1, <2>2
  <2>3. CASE l >= k
    <3>1. r[l] = t[l - (k - 1)] /\ l - (k - 1) \in 1 .. n - k
      BY ONLY <2>1, <2>3
    <3>2. t[l - (k - 1)] = q[k + (l - (k - 1))]
      BY ONLY <2>1, <3>1
    <3>3. k + (l - (k - 1)) = l + 1
      BY ONLY <2>1
    <3>. QED  BY ONLY <2>1, <2>3, <3>1, <3>2, <3>3
  <2>. QED  BY ONLY <2>1, <2>2, <2>3
<1>. QED  BY <1>4, <1>5

LEMMA InitNet == NetInit => NetTypeOK /\ QueueAgrees
BY TcpAssumption DEF NetInit, NetTypeOK, QueueAgrees

\* Whatever a client does, the network keeps its types, the queue stays
\* duplicate-free and an open connection stays open.
LEMMA ClientStepKeeps ==
  ASSUME NetTypeOK, QueueAgrees, NEW c \in Conns, ClientStep(c)
  PROVE  /\ NetTypeOK' /\ QueueAgrees'
         /\ \A d \in Conns : life[d] = "open" => life'[d] = "open"
<1>1. CASE Connect(c)
  <2>. USE <1>1 DEF Connect
  <2>1. /\ backlog' = Append(backlog, c) /\ Len(backlog) < Backlog
        /\ backlog \in Seq(Conns) /\ life[c] = "new"
        /\ life \in [Conns -> {"new", "queued", "open", "shut"}]
        /\ life' = [life EXCEPT ![c] = "queued"]
    BY DEF NetTypeOK
  <2>2. /\ backlog' \in Seq(Conns) /\ Len(backlog') = Len(backlog) + 1
        /\ \A k \in 1 .. Len(backlog) : backlog'[k] = backlog[k]
        /\ backlog'[Len(backlog) + 1] = c
    BY ONLY <2>1, AppendProperties
  <2>3. Len(backlog) \in Nat /\ \A k \in 1 .. Len(backlog) : backlog[k] \in Conns
    BY <2>1, ElementOfSeq, LenProperties
  <2>4. NetTypeOK'
    BY <2>1, <2>2, <2>3, TcpAssumption DEF NetTypeOK
  <2>5. QueueAgrees'
    BY <2>1, <2>2, <2>3 DEF QueueAgrees
  <2>. QED  BY <2>1, <2>4, <2>5
<1>2. CASE Evict(c)
  <2>1. PICK k \in 1 .. Len(backlog) :
          /\ backlog[k] = c
          /\ backlog' = SubSeq(backlog, 1, k - 1) \o SubSeq(backlog, k + 1, Len(backlog))
    BY <1>2 DEF Evict
  <2>2. /\ backlog \in Seq(Conns) /\ Len(backlog) \in Nat
        /\ \A l \in 1 .. Len(backlog) : backlog[l] \in Conns
    BY ElementOfSeq, LenProperties DEF NetTypeOK
  <2>5. /\ backlog' \in Seq(Conns) /\ Len(backlog') = Len(backlog) - 1
        /\ \A l \in 1 .. Len(backlog) - 1 :
             backlog'[l] = IF l < k THEN backlog[l] ELSE backlog[l + 1]
    BY ONLY <2>1, <2>2, RemoveProperties
  <2>6. life' = [life EXCEPT ![c] = "shut"] /\ life[c] = "queued"
    BY <1>2, <2>1 DEF Evict, QueueAgrees
  <2>7. NetTypeOK'
    <3>1. /\ half' = [half EXCEPT ![c] = "gone"]
          /\ UNCHANGED <<sent, rst, got, echo, drained>>
      BY <1>2 DEF Evict
    <3>2. backlog' \in Seq(Conns) /\ Len(backlog') <= Backlog
      BY <2>2, <2>5, TcpAssumption DEF NetTypeOK
    <3>. QED  BY ONLY <2>6, <3>1, <3>2, NetTypeOK DEF NetTypeOK
  <2>8. QueueAgrees'
    <3>. DEFINE n == Len(backlog)
    <3>1. /\ n \in Nat /\ k \in 1 .. n /\ backlog[k] = c
          /\ \A l \in 1 .. n : life[backlog[l]] = "queued" /\ backlog[l] \in Conns
          /\ \A l, m \in 1 .. n : backlog[l] = backlog[m] => l = m
      BY <2>1, <2>2 DEF QueueAgrees
    <3>2. /\ Len(backlog') = n - 1
          /\ \A l \in 1 .. n - 1 : backlog'[l] = IF l < k THEN backlog[l] ELSE backlog[l + 1]
          /\ life' = [life EXCEPT ![c] = "shut"]
          /\ life \in [Conns -> {"new", "queued", "open", "shut"}]
      BY <2>5, <2>6 DEF NetTypeOK
    <3>. HIDE DEF n
    <3>3. \A l \in 1 .. n - 1 : \E m \in 1 .. n :
            m # k /\ backlog'[l] = backlog[m] /\ m = IF l < k THEN l ELSE l + 1
      BY ONLY <3>1, <3>2
    <3>4. \A l \in 1 .. n - 1 : life'[backlog'[l]] = "queued"
      BY ONLY <3>1, <3>2, <3>3
    <3>5. \A l, m \in 1 .. n - 1 : backlog'[l] = backlog'[m] => l = m
      BY ONLY <3>1, <3>3
    <3>. QED  BY ONLY <3>2, <3>4, <3>5 DEF QueueAgrees
  <2>. QED  BY <2>6, <2>7, <2>8 DEF NetTypeOK
<1>3. CASE \/ ClientSends(c) \/ ClientFinishes(c) \/ ClientReads(c)
           \/ ClientVanishes(c) \/ ResetArrives(c)
  <2>1. UNCHANGED <<backlog, life>>
    BY <1>3 DEF ClientSends, ClientFinishes, ClientReads, ClientVanishes, ResetArrives
  <2>2. NetTypeOK'
    <3>1. CASE ClientSends(c)
      BY <3>1, TcpAssumption DEF NetTypeOK, ClientSends
    <3>2. CASE ClientFinishes(c) \/ ClientVanishes(c)
      BY <3>2 DEF NetTypeOK, ClientFinishes, ClientVanishes
    <3>3. CASE ClientReads(c)
      <4>1. Len(echo[c]) \in Nat
        BY LenProperties DEF NetTypeOK
      <4>. QED  BY <3>3, <4>1 DEF NetTypeOK, ClientReads
    <3>4. CASE ResetArrives(c)
      BY <3>4 DEF NetTypeOK, ResetArrives
    <3>. QED  BY <1>3, <3>1, <3>2, <3>3, <3>4
  <2>3. QueueAgrees'
    BY <2>1 DEF QueueAgrees
  <2>. QED  BY <2>1, <2>2, <2>3
<1>. QED  BY <1>1, <1>2, <1>3 DEF ClientStep

\* No client step opens a connection, or makes one new.
LEMMA ClientStepLives ==
  ASSUME NetTypeOK, QueueAgrees, NEW c \in Conns, ClientStep(c), NEW d \in Conns
  PROVE  /\ life'[d] = "open" <=> life[d] = "open"
         /\ life'[d] \in {"new", "queued"} => life[d] \in {"new", "queued"}
<1>1. life \in [Conns -> {"new", "queued", "open", "shut"}]
  BY DEF NetTypeOK
<1>2. \/ life[c] = "new" /\ life' = [life EXCEPT ![c] = "queued"]
      \/ life[c] = "queued" /\ life' = [life EXCEPT ![c] = "shut"]
      \/ life' = life
  BY DEF ClientStep, Connect, ClientSends, ClientFinishes, ClientReads,
         ClientVanishes, ResetArrives, Evict, QueueAgrees
<1>. QED  BY <1>1, <1>2

\* accept() takes the connection at the head of the queue; those behind it
\* are different from it.
LEMMA TakeKeeps ==
  ASSUME NetTypeOK, QueueAgrees, backlog # << >>, TakeFromBacklog(Head(backlog))
  PROVE  /\ NetTypeOK' /\ QueueAgrees'
         /\ Head(backlog) \in Conns /\ life[Head(backlog)] = "queued"
         /\ life' = [life EXCEPT ![Head(backlog)] = "open"]
<1>1. /\ backlog \in Seq(Conns) /\ Len(backlog) \in Nat /\ Len(backlog) <= Backlog
      /\ life \in [Conns -> {"new", "queued", "open", "shut"}]
      /\ \A l \in 1 .. Len(backlog) : backlog[l] \in Conns
  BY ElementOfSeq, LenProperties DEF NetTypeOK
<1>2. /\ Head(backlog) = backlog[1] /\ 1 \in 1 .. Len(backlog)
  BY <1>1, EmptySeq
<1>3. /\ Tail(backlog) \in Seq(Conns) /\ Len(Tail(backlog)) = Len(backlog) - 1
      /\ \A l \in 1 .. Len(backlog) - 1 : Tail(backlog)[l] = backlog[l + 1]
  BY <1>1, HeadTailProperties
<1>4. /\ backlog' = Tail(backlog)
      /\ life' = [life EXCEPT ![Head(backlog)] = "open"]
      /\ UNCHANGED <<sent, half, rst, got, echo, drained>>
  BY DEF TakeFromBacklog
<1>5. Head(backlog) \in Conns /\ life[Head(backlog)] = "queued"
  BY <1>1, <1>2 DEF QueueAgrees
<1>6. NetTypeOK'
  BY <1>1, <1>3, <1>4, <1>5, TcpAssumption DEF NetTypeOK
<1>7. QueueAgrees'
  BY <1>1, <1>2, <1>3, <1>4 DEF QueueAgrees
<1>. QED  BY <1>4, <1>5, <1>6, <1>7

\* Clients add data, end of file and errors; they take none of it away.
LEMMA ReadableStays ==
  ASSUME NetTypeOK, NEW c \in Conns, ClientStep(c), NEW d \in Conns, Readable(d)
  PROVE  Readable(d)'
<1>1. /\ got' = got
      /\ sent' = sent \/ (sent[c] < MaxBytes /\ sent' = [sent EXCEPT ![c] = @ + 1])
      /\ half' = half \/ \E h \in {"fin", "gone"} : half' = [half EXCEPT ![c] = h]
      /\ rst' = rst \/ rst' = [rst EXCEPT ![c] = TRUE]
  BY DEF ClientStep, Connect, ClientSends, ClientFinishes, ClientReads,
         ClientVanishes, ResetArrives, Evict
<1>2. /\ sent \in [Conns -> 0 .. MaxBytes] /\ got \in [Conns -> 0 .. MaxBytes]
      /\ half \in [Conns -> {"open", "fin", "gone"}] /\ rst \in [Conns -> BOOLEAN]
  BY DEF NetTypeOK
<1>3. half[d] # "open" => half'[d] # "open"
  BY <1>1, <1>2
<1>4. rst[d] => rst'[d]
  BY <1>1, <1>2
<1>5. Unread(d) > 0 => Unread(d)' > 0
  BY <1>1, <1>2, TcpAssumption DEF Unread
<1>. QED  BY <1>3, <1>4, <1>5 DEF Readable

-----------------------------------------------------------------------------
\* Numbers of bytes are numbers.
LEMMA ByteCounts ==
  ASSUME NetTypeOK, NEW c \in Conns
  PROVE  Unread(c) \in Int /\ Room(c) \in Int
<1>1. Len(echo[c]) \in Nat
  BY LenProperties DEF NetTypeOK
<1>. QED  BY <1>1, TcpAssumption DEF NetTypeOK, Unread, Room

\* What read() stores is a piece of what the client sent.
LEMMA ChunkType ==
  ASSUME NetTypeOK, NEW c \in Conns, NEW size \in Nat \ {0}, Unread(c) > 0
  PROVE  /\ Chunk(c, size) \in Seq(Byte)
         /\ Len(Chunk(c, size)) \in 1 .. Unread(c)
         /\ got[c] + Len(Chunk(c, size)) \in 0 .. MaxBytes
         /\ Chunk(c, size) = [k \in 1 .. Len(Chunk(c, size)) |-> <<c, got[c] + k>>]
<1>. DEFINE n == Smaller(size, Unread(c))
<1>1. /\ got[c] \in 0 .. MaxBytes /\ sent[c] \in 0 .. MaxBytes
      /\ Unread(c) = sent[c] - got[c] /\ MaxBytes \in Nat
  BY TcpAssumption DEF NetTypeOK, Unread
<1>2. n \in 1 .. Unread(c) /\ n \in Nat /\ got[c] + n \in 0 .. MaxBytes
  BY <1>1 DEF Smaller
<1>3. \A k \in 1 .. n : <<c, got[c] + k>> \in Byte
  BY <1>1, <1>2 DEF Byte
<1>. HIDE DEF n
<1>4. Chunk(c, size) = [k \in 1 .. n |-> <<c, got[c] + k>>]
  BY DEF Chunk, n
<1>5. Chunk(c, size) \in Seq(Byte) /\ Len(Chunk(c, size)) = n
  BY <1>2, <1>3, <1>4
<1>. QED  BY <1>2, <1>4, <1>5

\* The two parts write() makes of what it is given are sequences of bytes.
LEMMA SplitType ==
  ASSUME NEW b \in Seq(Byte), NEW n \in 1 .. Len(b)
  PROVE  /\ SubSeq(b, 1, n) \in Seq(Byte) /\ Len(SubSeq(b, 1, n)) = n
         /\ \A k \in 1 .. n : SubSeq(b, 1, n)[k] = b[k]
         /\ SubSeq(b, n + 1, Len(b)) \in Seq(Byte)
         /\ Len(SubSeq(b, n + 1, Len(b))) = Len(b) - n
         /\ \A k \in 1 .. Len(b) - n : SubSeq(b, n + 1, Len(b))[k] = b[n + k]
<1>1. Len(b) \in Nat /\ \A k \in 1 .. Len(b) : b[k] \in Byte
  BY ElementOfSeq, LenProperties
<1>. DEFINE m == Len(b)
<1>2. /\ n \in Int /\ n + 1 \in Int /\ 1 \in Int /\ m \in Int /\ n >= 1 /\ n <= m
      /\ \A k \in 1 .. n : b[k] \in Byte
      /\ \A k \in n + 1 .. m : b[k] \in Byte
  BY <1>1
<1>. HIDE DEF m
<1>3. /\ SubSeq(b, 1, n) \in Seq(Byte)
      /\ Len(SubSeq(b, 1, n)) = IF 1 <= n THEN n - 1 + 1 ELSE 0
      /\ \A k \in 1 .. n - 1 + 1 : SubSeq(b, 1, n)[k] = b[1 + k - 1]
  BY ONLY <1>2, SubSeqProperties
<1>4. /\ SubSeq(b, n + 1, m) \in Seq(Byte)
      /\ Len(SubSeq(b, n + 1, m)) = IF n + 1 <= m THEN m - (n + 1) + 1 ELSE 0
      /\ \A k \in 1 .. m - (n + 1) + 1 : SubSeq(b, n + 1, m)[k] = b[n + 1 + k - 1]
  BY ONLY <1>2, SubSeqProperties
<1>5. /\ Len(SubSeq(b, 1, n)) = n
      /\ \A k \in 1 .. n : SubSeq(b, 1, n)[k] = b[k]
  BY ONLY <1>2, <1>3
<1>6. /\ Len(SubSeq(b, n + 1, m)) = m - n
      /\ \A k \in 1 .. m - n : SubSeq(b, n + 1, m)[k] = b[n + k]
  <2>1. m - (n + 1) + 1 = m - n /\ \A k \in Int : n + 1 + k - 1 = n + k
    BY ONLY <1>2
  <2>. QED  BY ONLY <1>2, <1>4, <2>1
<1>. QED  BY <1>3, <1>4, <1>5, <1>6 DEF m

\* The server's calls keep the types, and leave the queue as it is: what they
\* act on is open, and what is queued is not.
LEMMA ConsumeKeeps ==
  ASSUME NetTypeOK, QueueAgrees, NEW c \in Conns, NEW size \in Nat \ {0},
         Unread(c) > 0, Consume(c, Len(Chunk(c, size)))
  PROVE  NetTypeOK' /\ QueueAgrees'
<1>1. got[c] + Len(Chunk(c, size)) \in 0 .. MaxBytes
  BY ChunkType
<1>. QED  BY <1>1 DEF Consume, NetTypeOK, QueueAgrees

LEMMA DeliverKeeps ==
  ASSUME NetTypeOK, QueueAgrees, NEW c \in Conns, NEW b \in Seq(Byte), Deliver(c, b)
  PROVE  NetTypeOK' /\ QueueAgrees'
<1>1. echo[c] \o b \in Seq(Byte)
  BY ConcatProperties DEF NetTypeOK
<1>. QED  BY <1>1 DEF Deliver, NetTypeOK, QueueAgrees

LEMMA CloseKeeps ==
  ASSUME NetTypeOK, QueueAgrees, NEW c \in Conns, life[c] = "open", ServerCloses(c)
  PROVE  /\ NetTypeOK' /\ QueueAgrees'
         /\ life' = [life EXCEPT ![c] = "shut"]
<1>1. \A k \in 1 .. Len(backlog) : life[backlog[k]] = "queued" /\ backlog[k] \in Conns
  BY ElementOfSeq DEF NetTypeOK, QueueAgrees
<1>2. life \in [Conns -> {"new", "queued", "open", "shut"}]
  BY DEF NetTypeOK
<1>3. life' = [life EXCEPT ![c] = "shut"]
      /\ UNCHANGED <<backlog, sent, half, rst, got, echo, drained>>
  BY DEF ServerCloses
<1>4. \A k \in 1 .. Len(backlog) : life'[backlog[k]] = "queued"
  BY <1>1, <1>2, <1>3
<1>5. NetTypeOK'
  BY <1>2, <1>3 DEF NetTypeOK
<1>. QED  BY <1>3, <1>4, <1>5 DEF QueueAgrees

\* When nobody listens any more the queue is empty and what was open stays so.
LEMMA RefuseKeeps ==
  ASSUME NetTypeOK, ServerDies \/ ListeningEnds
  PROVE  NetTypeOK' /\ QueueAgrees'
<1>1. /\ backlog' = << >> /\ UNCHANGED <<sent, half, rst, got, echo, drained>>
      /\ life' \in [Conns -> {"new", "queued", "open", "shut"}]
  BY DEF ServerDies, ListeningEnds, NetTypeOK
<1>2. backlog' \in Seq(Conns) /\ Len(backlog') = 0
  BY <1>1
<1>. QED  BY <1>1, <1>2, TcpAssumption DEF NetTypeOK, QueueAgrees

-----------------------------------------------------------------------------
(* The bytes.                                                              *)

\* Clients leave what was read and sent back alone, and never take back a
\* byte, an end or a reset; after an end they send nothing.
LEMMA ClientStepBytes ==
  ASSUME NetTypeOK, CountsAgree, NEW c \in Conns, ClientStep(c)
  PROVE  /\ UNCHANGED <<got, echo>>
         /\ CountsAgree'
         /\ \A d \in Conns :
              /\ rst[d] => rst'[d]
              /\ half[d] # "open" => half'[d] # "open" /\ sent'[d] = sent[d]
<1>1. /\ sent \in [Conns -> 0 .. MaxBytes] /\ MaxBytes \in Nat
      /\ half \in [Conns -> {"open", "fin", "gone"}] /\ rst \in [Conns -> BOOLEAN]
      /\ got \in [Conns -> 0 .. MaxBytes]
      /\ \A d \in Conns : Len(echo[d]) \in Nat
  BY TcpAssumption, LenProperties DEF NetTypeOK
<1>2. /\ UNCHANGED <<got, echo>>
      /\ \/ half[c] = "open" /\ sent' = [sent EXCEPT ![c] = @ + 1] /\ UNCHANGED <<half, rst>>
         \/ \E h \in {"fin", "gone"} :
              /\ half[c] = "open" \/ h = "gone"
              /\ half' = [half EXCEPT ![c] = h]
              /\ UNCHANGED <<sent, rst>>
         \/ half[c] = "gone" /\ rst' = [rst EXCEPT ![c] = TRUE] /\ UNCHANGED <<sent, half>>
         \/ UNCHANGED <<sent, half, rst>>
  BY <1>1 DEF ClientStep, Connect, ClientSends, ClientFinishes, ClientReads,
              ClientVanishes, ResetArrives, Evict
<1>3. \A d \in Conns :
        /\ sent'[d] \in Nat /\ sent'[d] >= sent[d]
        /\ rst[d] => rst'[d]
        /\ half[d] # "open" => half'[d] # "open" /\ sent'[d] = sent[d]
        /\ rst'[d] /\ (rst[d] => half[d] = "gone") => half'[d] = "gone"
  BY ONLY <1>1, <1>2
<1>4. \A d \in Conns :
        /\ got[d] \in Nat /\ got[d] <= sent[d] /\ sent[d] \in Nat
        /\ Len(echo[d]) <= got[d] /\ (rst[d] => half[d] = "gone")
  BY <1>1 DEF CountsAgree
<1>5. CountsAgree'
  BY ONLY <1>2, <1>3, <1>4 DEF CountsAgree
<1>. QED  BY <1>2, <1>3, <1>5

LEMMA InitBytes ==
  NetInit => CountsAgree /\ \A c \in Conns : InOrder(c) /\ Rest(c) = << >>
BY DEF NetInit, CountsAgree, InOrder, Rest

\* Nothing is left to be sent back exactly when all that was read has been.
LEMMA RestEmpty ==
  ASSUME NetTypeOK, CountsAgree, NEW c \in Conns
  PROVE  Rest(c) = << >> <=> got[c] = Len(echo[c])
<1>. DEFINE m == got[c] - Len(echo[c])
<1>1. m \in Nat
  BY LenProperties, TcpAssumption DEF NetTypeOK, CountsAgree
<1>2. m = 0 <=> got[c] = Len(echo[c])
  BY LenProperties, TcpAssumption DEF NetTypeOK, CountsAgree
<1>3. Rest(c) = [k \in 1 .. m |-> <<c, Len(echo[c]) + k>>]
  BY DEF Rest
<1>. HIDE DEF m
<1>4. DOMAIN Rest(c) = 1 .. m
  BY <1>3
<1>5. CASE m = 0
  BY <1>2, <1>3, <1>5
<1>6. CASE m # 0
  <2>1. 1 \in DOMAIN Rest(c)
    BY <1>1, <1>4, <1>6
  <2>. QED  BY <1>2, <1>6, <2>1
<1>. QED  BY <1>5, <1>6

\* A read() into an empty buffer leaves in it exactly what is still to be
\* sent back.
LEMMA ReadRest ==
  ASSUME NetTypeOK, CountsAgree, NEW c \in Conns, NEW size \in Nat \ {0},
         Unread(c) > 0, Consume(c, Len(Chunk(c, size)))
  PROVE  /\ CountsAgree'
         /\ UNCHANGED <<life, sent, half, rst, echo>>
         /\ \A d \in Conns \ {c} : got'[d] = got[d] /\ Rest(d)' = Rest(d)
         /\ got[c] = Len(echo[c]) => Chunk(c, size) = Rest(c)'
<1>. DEFINE n == Len(Chunk(c, size))
<1>1. /\ n \in 1 .. Unread(c) /\ Unread(c) = sent[c] - got[c]
      /\ Chunk(c, size) = [k \in 1 .. n |-> <<c, got[c] + k>>]
  BY ChunkType DEF Unread
<1>2. /\ got' = [got EXCEPT ![c] = @ + n]
      /\ UNCHANGED <<life, sent, half, rst, echo>>
  BY DEF Consume
<1>3. /\ got \in [Conns -> 0 .. MaxBytes] /\ sent \in [Conns -> 0 .. MaxBytes]
      /\ \A d \in Conns : Len(echo[d]) \in Nat
      /\ MaxBytes \in Nat
  BY LenProperties, TcpAssumption DEF NetTypeOK
<1>. HIDE DEF n
<1>4. /\ got'[c] = got[c] + n
      /\ \A d \in Conns \ {c} : got'[d] = got[d]
  BY ONLY <1>2, <1>3, c \in Conns
<1>5. CountsAgree'
  BY <1>1, <1>2, <1>3, <1>4 DEF CountsAgree
<1>6. \A d \in Conns \ {c} : Rest(d)' = Rest(d)
  BY <1>2, <1>4 DEF Rest
<1>7. ASSUME got[c] = Len(echo[c])
      PROVE  Chunk(c, size) = Rest(c)'
  <2>1. got'[c] - Len(echo'[c]) = n /\ Len(echo'[c]) = got[c]
    BY <1>1, <1>2, <1>3, <1>4, <1>7
  <2>. QED  BY <1>1, <2>1 DEF Rest
<1>. QED  BY <1>2, <1>4, <1>5, <1>6, <1>7

\* write() of the first n bytes that are to be sent back keeps the order, and
\* the others remain to be sent back.
LEMMA DeliverRest ==
  ASSUME NetTypeOK, CountsAgree, NEW c \in Conns, InOrder(c),
         NEW b \in Seq(Byte), b = Rest(c), NEW n \in 1 .. Len(b),
         Deliver(c, SubSeq(b, 1, n))
  PROVE  /\ CountsAgree' /\ InOrder(c)'
         /\ UNCHANGED <<life, sent, half, rst, got>>
         /\ SubSeq(b, n + 1, Len(b)) = Rest(c)'
         /\ SubSeq(b, n + 1, Len(b)) = << >> => got'[c] = Len(echo'[c])
         /\ echo'[c] = echo[c] \o Service!Segment(c, Len(echo[c]) + 1, Len(echo[c]) + n)
         /\ Len(echo'[c]) = Len(echo[c]) + n
         /\ \A d \in Conns \ {c} : echo'[d] = echo[d] /\ Rest(d)' = Rest(d)
<1>. DEFINE e == Len(echo[c])
            s == SubSeq(b, 1, n)
            t == SubSeq(b, n + 1, Len(b))
<1>1. /\ echo' = [echo EXCEPT ![c] = @ \o s]
      /\ UNCHANGED <<life, sent, half, rst, got>>
  BY DEF Deliver
<1>2. /\ e \in Nat /\ echo[c] \in Seq(Byte) /\ echo \in [Conns -> Seq(Byte)]
      /\ got \in [Conns -> 0 .. MaxBytes] /\ MaxBytes \in Nat /\ e <= got[c]
      /\ \A k \in 1 .. e : echo[c][k] = <<c, k>>
  BY LenProperties, TcpAssumption DEF NetTypeOK, CountsAgree, InOrder
<1>3. /\ Len(b) = got[c] - e /\ got[c] - e \in Nat
      /\ \A k \in 1 .. got[c] - e : b[k] = <<c, e + k>>
  <2>1. got[c] - e \in Nat
    BY <1>2
  <2>. DEFINE m == got[c] - e
  <2>2. b = [k \in 1 .. m |-> <<c, e + k>>] /\ m \in Nat
    BY <2>1 DEF Rest
  <2>. HIDE DEF m
  <2>3. DOMAIN b = 1 .. m /\ \A k \in 1 .. m : b[k] = <<c, e + k>>
    BY ONLY <2>2
  <2>4. Len(b) = m
    BY ONLY <2>2, <2>3, LenProperties, b \in Seq(Byte)
  <2>. QED  BY <2>1, <2>3, <2>4 DEF m
<1>4. n \in 1 .. got[c] - e
  BY <1>3
<1>5. /\ s \in Seq(Byte) /\ Len(s) = n
      /\ \A k \in 1 .. n : s[k] = b[k]
      /\ t \in Seq(Byte) /\ Len(t) = Len(b) - n
      /\ \A k \in 1 .. Len(b) - n : t[k] = b[n + k]
  BY SplitType
<1>. HIDE DEF s, t
<1>6. /\ echo[c] \o s \in Seq(Byte) /\ Len(echo[c] \o s) = e + n
      /\ \A k \in 1 .. e + n : (echo[c] \o s)[k] = IF k <= e THEN echo[c][k] ELSE s[k - e]
  <2>1. echo[c] \in Seq(Byte) /\ s \in Seq(Byte)
    BY <1>2, <1>5
  <2>2. /\ echo[c] \o s \in Seq(Byte) /\ Len(echo[c] \o s) = e + Len(s)
        /\ \A k \in 1 .. e + Len(s) :
             (echo[c] \o s)[k] = IF k <= e THEN echo[c][k] ELSE s[k - e]
    BY ONLY <2>1, ConcatProperties
  <2>. QED  BY ONLY <2>2, <1>5
<1>7. echo'[c] = echo[c] \o s
  BY ONLY <1>1, <1>2, c \in Conns
<1>8. \A d \in Conns \ {c} : echo'[d] = echo[d]
  BY ONLY <1>1, <1>2, c \in Conns
<1>. HIDE DEF e
<1>9. Len(echo'[c]) = e + n /\ e + n \in Nat /\ echo'[c] \in Seq(Byte)
  BY <1>2, <1>4, <1>6, <1>7
<1>10. InOrder(c)'
  <2>1. ASSUME NEW k \in 1 .. e + n
        PROVE  echo'[c][k] = <<c, k>>
    <3>1. CASE k <= e
      BY ONLY <1>2, <1>6, <1>7, <3>1, k \in 1 .. e + n, e \in Nat, n \in Int
    <3>2. CASE k > e
      <4>1. k - e \in 1 .. n /\ ~(k <= e) /\ e + (k - e) = k
        BY <1>2, <1>4, <3>2
      <4>2. echo'[c][k] = b[k - e]
        BY ONLY <1>5, <1>6, <1>7, <4>1, k \in 1 .. e + n
      <4>3. k - e \in 1 .. got[c] - e
        BY <1>2, <1>4, <4>1
      <4>. QED  BY ONLY <1>3, <4>1, <4>2, <4>3
    <3>. QED  BY <1>2, <1>4, <3>1, <3>2
  <2>2. DOMAIN echo'[c] = 1 .. e + n
    BY <1>9, LenProperties
  <2>3. echo'[c] = [k \in 1 .. e + n |-> <<c, k>>]
    BY ONLY <1>9, <2>1, <2>2, LenProperties
  <2>. QED  BY <1>9, <2>3 DEF InOrder
<1>11. t = Rest(c)'
  <2>. DEFINE m == got[c] - (e + n)
  <2>1. /\ Len(t) = m /\ m \in Nat /\ got'[c] = got[c]
        /\ \A k \in 1 .. m : t[k] = <<c, e + n + k>>
    <3>1. Len(b) - n = m /\ m \in Nat
      BY <1>2, <1>3, <1>4
    <3>2. \A k \in 1 .. m : n + k \in 1 .. got[c] - e /\ e + (n + k) = e + n + k
      BY <1>2, <1>4
    <3>. QED  BY <1>1, <1>3, <1>5, <3>1, <3>2
  <2>. HIDE DEF m
  <2>2. t = [k \in 1 .. m |-> <<c, e + n + k>>]
    BY ONLY <1>5, <2>1, LenProperties
  <2>. QED  BY <1>9, <2>1, <2>2 DEF Rest, m
<1>12. s = Service!Segment(c, e + 1, e + n)
  <2>1. /\ e + n + 1 - (e + 1) = n
        /\ \A k \in 1 .. n : s[k] = <<c, e + 1 + k - 1>>
    <3>1. \A k \in 1 .. n : k \in 1 .. got[c] - e /\ e + 1 + k - 1 = e + k
      BY <1>2, <1>4
    <3>2. e + n + 1 - (e + 1) = n
      BY <1>2, <1>4
    <3>. QED  BY <1>3, <1>5, <3>1, <3>2
  <2>2. s = [k \in 1 .. n |-> <<c, e + 1 + k - 1>>]
    BY ONLY <1>5, <2>1, LenProperties, n \in 1 .. Len(b)
  <2>. QED  BY <2>1, <2>2 DEF Service!Segment
<1>13. CountsAgree'
  <2>. SUFFICES ASSUME NEW d \in Conns
                PROVE  /\ Len(echo'[d]) <= got'[d] /\ got'[d] <= sent'[d]
                       /\ rst'[d] => half'[d] = "gone"
    BY DEF CountsAgree
  <2>1. CASE d = c
    BY <1>1, <1>2, <1>4, <1>9, <2>1 DEF CountsAgree
  <2>2. CASE d # c
    BY <1>1, <1>8, <2>2 DEF CountsAgree
  <2>. QED  BY <2>1, <2>2
<1>14. \A d \in Conns \ {c} : Rest(d)' = Rest(d)
  BY <1>1, <1>8 DEF Rest
<1>15. t = << >> => got'[c] = Len(echo'[c])
  BY <1>1, <1>2, <1>3, <1>5, <1>9
<1>. QED  BY <1>1, <1>7, <1>8, <1>9, <1>10, <1>11, <1>12, <1>13, <1>14, <1>15 DEF e, s, t

-----------------------------------------------------------------------------
(* The abstract service: what each step of the network or the server is a  *)
(* step of.                                                                *)

LEMMA ClientStepServes ==
  ASSUME ~Evicts, NEW c \in Conns, ClientStep(c)
  PROVE  Service!Next \/ UNCHANGED Service!vars
<1>1. CASE Connect(c)
  BY <1>1 DEF Connect, Service!Next, Service!Connect
<1>2. CASE ClientSends(c)
  BY <1>2 DEF ClientSends, Service!Next, Service!Send
<1>3. CASE ClientFinishes(c)
  BY <1>3 DEF ClientFinishes, Service!Next, Service!Finish
<1>4. CASE ClientReads(c)
  BY <1>4 DEF ClientReads, Service!vars
<1>5. CASE ClientVanishes(c)
  BY <1>5 DEF ClientVanishes, Service!Next, Service!Finish
<1>6. CASE ResetArrives(c)
  BY <1>6 DEF ResetArrives, Service!Next, Service!Reset
<1>7. CASE Evict(c)
  BY <1>7 DEF Evict
<1>. QED  BY <1>1, <1>2, <1>3, <1>4, <1>5, <1>6, <1>7 DEF ClientStep

LEMMA AdmitServes ==
  ASSUME NEW c \in Conns, life[c] = "queued", TakeFromBacklog(c)
  PROVE  Service!Next
BY DEF TakeFromBacklog, Service!Next, Service!Admit

LEMMA ReplyServes ==
  ASSUME NetTypeOK, CountsAgree, NEW c \in Conns, life[c] = "open", ~rst[c],
         InOrder(c), NEW b \in Seq(Byte), b = Rest(c), NEW n \in 1 .. Len(b),
         Deliver(c, SubSeq(b, 1, n))
  PROVE  Service!Next
<1>. DEFINE e == Len(echo[c])
<1>1. /\ UNCHANGED <<life, sent, half, rst, got>> /\ CountsAgree'
      /\ echo'[c] = echo[c] \o Service!Segment(c, e + 1, e + n)
      /\ Len(echo'[c]) = e + n
  BY DeliverRest
<1>2. /\ e \in Nat /\ sent[c] \in Nat /\ n \in Int /\ n >= 1 /\ e + n <= sent[c]
  <2>1. e \in Nat /\ sent[c] \in Nat /\ got[c] \in Nat /\ n \in Int /\ n >= 1
    BY LenProperties, TcpAssumption DEF NetTypeOK
  <2>2. got'[c] = got[c] /\ sent'[c] = sent[c] /\ e + n <= got'[c] /\ got'[c] <= sent'[c]
    BY <1>1 DEF CountsAgree
  <2>. QED  BY ONLY <2>1, <2>2
<1>3. echo' = [echo EXCEPT ![c] = @ \o Service!Segment(c, e + 1, e + n)]
  <2>1. echo' = [echo EXCEPT ![c] = @ \o SubSeq(b, 1, n)] /\ echo \in [Conns -> Seq(Byte)]
    BY DEF Deliver, NetTypeOK
  <2>2. echo'[c] = echo[c] \o SubSeq(b, 1, n)
    BY <2>1
  <2>. QED  BY ONLY <1>1, <2>1, <2>2, c \in Conns
<1>4. e + n \in e + 1 .. sent[c]
  BY <1>2
<1>5. Service!Reply(c)
  BY <1>1, <1>3, <1>4 DEF Service!Reply
<1>. QED  BY <1>5 DEF Service!Next

LEMMA CloseServes ==
  ASSUME NEW c \in Conns, life[c] = "open", half[c] # "open",
         rst[c] \/ Len(echo[c]) = sent[c], ServerCloses(c)
  PROVE  Service!Next
BY DEF ServerCloses, Service!Next, Service!Close

-----------------------------------------------------------------------------
(* What the service promises, whichever server provides it.                *)

ServiceTypeOK ==
  /\ life \in [Conns -> {"new", "queued", "open", "shut"}]
  /\ sent \in [Conns -> Nat]
  /\ half \in [Conns -> {"open", "fin", "gone"}]
  /\ rst \in [Conns -> BOOLEAN]
  /\ echo \in [Conns -> Seq(Conns \X Int)]

\* The bytes sent back on a connection are those sent, in order and once, and
\* a closed connection got them all, or was reset.
Served(c) ==
  /\ InOrder(c) /\ Len(echo[c]) <= sent[c]
  /\ life[c] = "shut" => half[c] # "open" /\ (rst[c] \/ Len(echo[c]) = sent[c])

ServiceInv == ServiceTypeOK /\ \A c \in Conns : Served(c)

\* s is the first bytes of connection c.
FirstBytes(c, s) == s = [k \in 1 .. Len(s) |-> <<c, k>>]

\* t carries on from s up to byte last.
GoesOn(c, s, last, t) ==
  Len(s) < last /\ t = s \o Service!Segment(c, Len(s) + 1, last)

\* A reply carries on where the last one stopped.
LEMMA ReplyInOrder ==
  ASSUME NEW c \in Conns, NEW s \in Seq(Conns \X Int), NEW last \in Nat,
         FirstBytes(c, s), NEW t, GoesOn(c, s, last, t)
  PROVE  t \in Seq(Conns \X Int) /\ Len(t) = last /\ FirstBytes(c, t)
<1>. DEFINE m == Len(s)
            g == Service!Segment(c, m + 1, last)
<1>1. m \in Nat /\ last \in Nat /\ m < last /\ last + 1 - (m + 1) = last - m
  BY LenProperties DEF GoesOn
<1>2. g = [k \in 1 .. last - m |-> <<c, m + k>>]
  <2>1. g = [k \in 1 .. last + 1 - (m + 1) |-> <<c, m + 1 + k - 1>>]
    BY DEF Service!Segment
  <2>2. \A k \in 1 .. last - m : m + 1 + k - 1 = m + k
    BY ONLY <1>1
  <2>. QED  BY ONLY <1>1, <2>1, <2>2
<1>3. s = [k \in 1 .. m |-> <<c, k>>] /\ s \in Seq(Conns \X Int)
  BY DEF FirstBytes
<1>4. t = s \o g
  BY DEF GoesOn
<1>. HIDE DEF m, g
<1>5. g \in Seq(Conns \X Int) /\ Len(g) = last - m
  <2>1. last - m \in Nat /\ \A k \in 1 .. last - m : <<c, m + k>> \in Conns \X Int
    BY ONLY <1>1, c \in Conns
  <2>. QED  BY ONLY <1>2, <2>1
<1>6. Len(s) = m
  BY DEF m
<1>7. /\ t \in Seq(Conns \X Int) /\ Len(t) = m + (last - m)
      /\ \A k \in 1 .. m + (last - m) : t[k] = IF k <= m THEN s[k] ELSE g[k - m]
  <2>1. s \in Seq(Conns \X Int) /\ g \in Seq(Conns \X Int)
    BY ONLY <1>3, <1>5
  <2>2. /\ s \o g \in Seq(Conns \X Int) /\ Len(s \o g) = Len(s) + Len(g)
        /\ \A k \in 1 .. Len(s) + Len(g) :
             (s \o g)[k] = IF k <= Len(s) THEN s[k] ELSE g[k - Len(s)]
    BY ONLY <2>1, ConcatProperties
  <2>. QED  BY ONLY <2>2, <1>4, <1>5, <1>6
<1>8. Len(t) = last
  BY ONLY <1>1, <1>7
<1>9. \A k \in 1 .. last : t[k] = <<c, k>>
  <2>. TAKE k \in 1 .. last
  <2>1. t[k] = IF k <= m THEN s[k] ELSE g[k - m]
    BY ONLY <1>1, <1>7, k \in 1 .. last
  <2>2. CASE k <= m
    BY ONLY <1>1, <1>3, <2>1, <2>2, k \in 1 .. last
  <2>3. CASE ~(k <= m)
    <3>1. k - m \in 1 .. last - m /\ m + (k - m) = k
      BY ONLY <1>1, <2>3, k \in 1 .. last
    <3>2. g[k - m] = <<c, m + (k - m)>>
      BY ONLY <1>2, <3>1
    <3>. QED  BY ONLY <2>1, <2>3, <3>1, <3>2
  <2>. QED  BY ONLY <2>2, <2>3
<1>10. t = [k \in 1 .. last |-> <<c, k>>]
  <2>1. t = [k \in 1 .. Len(t) |-> t[k]]
    BY ONLY <1>7
  <2>. QED  BY ONLY <1>8, <1>9, <2>1
<1>. QED  BY ONLY <1>7, <1>8, <1>10 DEF FirstBytes

\* One step of the service keeps the promise.
LEMMA ServiceStepKeeps ==
  ServiceInv /\ [Service!Next]_(Service!vars) => ServiceInv'
<1>. SUFFICES ASSUME ServiceInv, [Service!Next]_(Service!vars) PROVE ServiceInv'
  OBVIOUS
<1>. USE DEF ServiceInv, ServiceTypeOK, Served, InOrder
<1>1. CASE UNCHANGED Service!vars
  BY <1>1 DEF Service!vars
<1>2. ASSUME NEW c \in Conns,
             \/ Service!Connect(c) \/ Service!Admit(c) \/ Service!Reset(c)
      PROVE  ServiceInv'
  BY <1>2 DEF Service!Connect, Service!Admit, Service!Reset
<1>3. ASSUME NEW c \in Conns, Service!Send(c)
      PROVE  ServiceInv'
  <2>1. \A d \in Conns : Len(echo[d]) \in Nat
    BY LenProperties
  <2>2. /\ sent' = [sent EXCEPT ![c] = @ + 1]
        /\ UNCHANGED <<life, half, rst, echo>> /\ life[c] # "shut"
    BY <1>3 DEF Service!Send
  <2>. QED  BY <2>1, <2>2
<1>4. ASSUME NEW c \in Conns, Service!Finish(c, "fin") \/ Service!Finish(c, "gone")
      PROVE  ServiceInv'
  BY <1>4 DEF Service!Finish
<1>5. ASSUME NEW c \in Conns, Service!Close(c)
      PROVE  ServiceInv'
  BY <1>5 DEF Service!Close
<1>6. ASSUME NEW c \in Conns, Service!Reply(c)
      PROVE  ServiceInv'
  <2>. DEFINE e == Len(echo[c])
  <2>1. PICK last \in e + 1 .. sent[c] :
          echo' = [echo EXCEPT ![c] = @ \o Service!Segment(c, Len(@) + 1, last)]
    BY <1>6 DEF Service!Reply
  <2>2. life[c] = "open" /\ UNCHANGED <<life, sent, half, rst>>
    BY <1>6 DEF Service!Reply
  <2>3. e \in Nat /\ sent[c] \in Nat /\ last \in Nat /\ e < last /\ last <= sent[c]
    BY LenProperties
  <2>4. echo[c] \in Seq(Conns \X Int) /\ echo[c] = [k \in 1 .. Len(echo[c]) |-> <<c, k>>]
    OBVIOUS
  <2>5. echo'[c] = echo[c] \o Service!Segment(c, Len(echo[c]) + 1, last)
    BY <2>1
  <2>6. /\ echo'[c] \in Seq(Conns \X Int) /\ Len(echo'[c]) = last
        /\ echo'[c] = [k \in 1 .. Len(echo'[c]) |-> <<c, k>>]
    <3>. PICK s, t : s = echo[c] /\ t = echo'[c]
      OBVIOUS
    <3>1. /\ s \in Seq(Conns \X Int) /\ FirstBytes(c, s)
          /\ last \in Nat /\ GoesOn(c, s, last, t)
      BY <2>3, <2>4, <2>5 DEF FirstBytes, GoesOn
    <3>2. t \in Seq(Conns \X Int) /\ Len(t) = last /\ FirstBytes(c, t)
      BY ONLY <3>1, c \in Conns, ReplyInOrder
    <3>. QED  BY <3>2 DEF FirstBytes
  <2>7. echo' \in [Conns -> Seq(Conns \X Int)] /\ \A d \in Conns \ {c} : echo'[d] = echo[d]
    BY <2>1, <2>6
  <2>. QED  BY <2>2, <2>3, <2>6, <2>7
<1>. QED  BY <1>1, <1>2, <1>3, <1>4, <1>5, <1>6 DEF Service!Next

\* The echo service sends back what was sent, in order and once, and closes a
\* connection only when that is done or the connection was reset; and so does
\* every server that implements it.
THEOREM ServicePromises == Service!SafeSpec => [](\A c \in Conns : Served(c))
<1>1. Service!Init => ServiceInv
  BY DEF Service!Init, ServiceInv, ServiceTypeOK, Served, InOrder
<1>2. ServiceInv /\ [Service!Next]_(Service!vars) => ServiceInv'
  BY ServiceStepKeeps
<1>3. ServiceInv => \A c \in Conns : Served(c)
  BY DEF ServiceInv
<1>. QED  BY <1>1, <1>2, <1>3, PTL DEF Service!SafeSpec
=============================================================================
