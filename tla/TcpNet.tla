------------------------------- MODULE TcpNet -------------------------------
(***************************************************************************)
(* The TCP connections between a set of clients and one listening server,  *)
(* as the programs of the repository see them through socket calls.  The   *)
(* kernel and the remote clients are not part of the repository: this      *)
(* module is the external environment of every server module.              *)
(*                                                                         *)
(* A connection is used once.  The bytes a client sends are numbered, so   *)
(* byte k of connection c is the pair <<c, k>> and a byte that turns up on *)
(* the wrong connection, twice or out of order can be told from the one    *)
(* that belongs there.                                                     *)
(***************************************************************************)
EXTENDS Integers, Sequences, FiniteSets

CONSTANTS
  Conns,     \* the connections clients may open
  Backlog,   \* second argument of listen()
  MaxBytes,  \* bound: bytes a client sends on one connection
  Window,    \* bytes the server may have written and the client not yet read
  Abortive,  \* TRUE: a client may close without reading all it was sent
  Evicts     \* TRUE: a reset takes a connection out of the accept queue

ASSUME TcpAssumption ==
  /\ Backlog \in Nat \ {0}
  /\ MaxBytes \in Nat
  /\ Window \in Nat \ {0}
  /\ Abortive \in BOOLEAN
  /\ Evicts \in BOOLEAN

VARIABLES
  backlog,  \* the accept queue: connections complete but not yet accepted
  life,     \* what the server has done with each connection
  sent,     \* how many bytes the client has sent
  half,     \* the client's end: sending, only reading, or closed
  rst,      \* whether a reset has reached the server's end
  got,      \* how many bytes the server has read
  echo,     \* the bytes the server has written back
  drained   \* how many of those the client has read

netVars == <<backlog, life, sent, half, rst, got, echo, drained>>

Byte == Conns \X (1 .. MaxBytes)

NetTypeOK ==
  /\ backlog \in Seq(Conns) /\ Len(backlog) <= Backlog
  /\ life \in [Conns -> {"new", "queued", "open", "shut"}]
  /\ sent \in [Conns -> 0 .. MaxBytes]
  /\ half \in [Conns -> {"open", "fin", "gone"}]
  /\ rst \in [Conns -> BOOLEAN]
  /\ got \in [Conns -> 0 .. MaxBytes]
  /\ echo \in [Conns -> Seq(Byte)]
  /\ drained \in [Conns -> Nat]

NetInit ==
  /\ backlog = << >>
  /\ life = [c \in Conns |-> "new"]
  /\ sent = [c \in Conns |-> 0]
  /\ half = [c \in Conns |-> "open"]
  /\ rst = [c \in Conns |-> FALSE]
  /\ got = [c \in Conns |-> 0]
  /\ echo = [c \in Conns |-> << >>]
  /\ drained = [c \in Conns |-> 0]

Smaller(a, b) == IF a < b THEN a ELSE b

-----------------------------------------------------------------------------
(* What the server's system calls observe.                                 *)

\* Bytes that arrived and were not read.
Unread(c) == sent[c] - got[c]

\* read() would not block: data, end of file or a pending error.
Readable(c) == Unread(c) > 0 \/ half[c] # "open" \/ rst[c]

\* What read(fd, buf, size) stores when there is data.
Chunk(c, size) ==
  [k \in 1 .. Smaller(size, Unread(c)) |-> <<c, got[c] + k>>]

\* How many more bytes write() can hand to the connection without blocking.
\* A client that is gone reads nothing, but its kernel still takes segments
\* (and answers them with a reset), so they never fill the window.
Room(c) == IF half[c] = "gone" THEN Window
                               ELSE Window - (Len(echo[c]) - drained[c])

-----------------------------------------------------------------------------
(* The effect of the server's system calls on the connections.             *)

TakeFromBacklog(c) ==
  /\ backlog # << >> /\ c = Head(backlog)
  /\ backlog' = Tail(backlog)
  /\ life' = [life EXCEPT ![c] = "open"]
  /\ UNCHANGED <<sent, half, rst, got, echo, drained>>

Consume(c, n) ==
  /\ got' = [got EXCEPT ![c] = @ + n]
  /\ UNCHANGED <<backlog, life, sent, half, rst, echo, drained>>

Deliver(c, bytes) ==
  /\ echo' = [echo EXCEPT ![c] = @ \o bytes]
  /\ UNCHANGED <<backlog, life, sent, half, rst, got, drained>>

ServerCloses(c) ==
  /\ life' = [life EXCEPT ![c] = "shut"]
  /\ UNCHANGED <<backlog, sent, half, rst, got, echo, drained>>

\* The server process dies: the kernel closes every descriptor it had and
\* refuses new connections.
ServerDies ==
  /\ backlog' = << >>
  /\ life' = [c \in Conns |-> "shut"]
  /\ UNCHANGED <<sent, half, rst, got, echo, drained>>

\* The last descriptor of the listening socket is closed: connections not yet
\* accepted are refused from now on.
ListeningEnds ==
  /\ backlog' = << >>
  /\ life' = [c \in Conns |-> IF life[c] \in {"new", "queued"} THEN "shut" ELSE life[c]]
  /\ UNCHANGED <<sent, half, rst, got, echo, drained>>

-----------------------------------------------------------------------------
(* The clients and the network.                                            *)

Connect(c) ==
  /\ life[c] = "new" /\ Len(backlog) < Backlog
  /\ life' = [life EXCEPT ![c] = "queued"]
  /\ backlog' = Append(backlog, c)
  /\ UNCHANGED <<sent, half, rst, got, echo, drained>>

ClientSends(c) ==
  /\ life[c] \in {"queued", "open"} /\ half[c] = "open" /\ sent[c] < MaxBytes
  /\ sent' = [sent EXCEPT ![c] = @ + 1]
  /\ UNCHANGED <<backlog, life, half, rst, got, echo, drained>>

\* shutdown(SHUT_WR): the server will read end of file after the data.
ClientFinishes(c) ==
  /\ life[c] \in {"queued", "open"} /\ half[c] = "open"
  /\ half' = [half EXCEPT ![c] = "fin"]
  /\ UNCHANGED <<backlog, life, sent, rst, got, echo, drained>>

ClientReads(c) ==
  /\ half[c] # "gone" /\ drained[c] < Len(echo[c])
  /\ drained' = [drained EXCEPT ![c] = Len(echo[c])]
  /\ UNCHANGED <<backlog, life, sent, half, rst, got, echo>>

\* close() or the end of the client process, echoes outstanding or not.
ClientVanishes(c) ==
  /\ Abortive
  /\ life[c] \in {"queued", "open"} /\ half[c] # "gone"
  /\ half' = [half EXCEPT ![c] = "gone"]
  /\ UNCHANGED <<backlog, life, sent, rst, got, echo, drained>>

\* A byte the vanished client had not read, or that reached it after its
\* close, makes its kernel answer with a reset.
ResetArrives(c) ==
  /\ life[c] = "open" /\ half[c] = "gone" /\ ~rst[c]
  /\ drained[c] < Len(echo[c])
  /\ rst' = [rst EXCEPT ![c] = TRUE]
  /\ UNCHANGED <<backlog, life, sent, half, got, echo, drained>>

\* Some kernels drop a reset connection from the accept queue.
Evict(c) ==
  /\ Evicts
  /\ \E k \in 1 .. Len(backlog) :
       /\ backlog[k] = c
       /\ backlog' = SubSeq(backlog, 1, k - 1) \o SubSeq(backlog, k + 1, Len(backlog))
  /\ life' = [life EXCEPT ![c] = "shut"]
  /\ half' = [half EXCEPT ![c] = "gone"]
  /\ UNCHANGED <<sent, rst, got, echo, drained>>

ClientStep(c) ==
  \/ Connect(c)
  \/ ClientSends(c)
  \/ ClientFinishes(c)
  \/ ClientReads(c)
  \/ ClientVanishes(c)
  \/ ResetArrives(c)
  \/ Evict(c)
=============================================================================
