---------------------------- MODULE EchoService ----------------------------
(***************************************************************************)
(* What every echo server of the repository promises, whatever its         *)
(* structure (select with a slot table, select over a descriptor range,    *)
(* one process per client): on each connection the bytes sent come back,   *)
(* each once and in order, and the server ends a connection only after the *)
(* client stopped sending and got everything back, or was reset.           *)
(***************************************************************************)
EXTENDS Integers, Sequences

CONSTANTS
  Conns,     \* the connections clients may open
  MaxBytes   \* bound: bytes a client sends on one connection

VARIABLES
  life,   \* what the server has done with each connection
  sent,   \* how many bytes the client has sent
  half,   \* the client's end: sending, only reading, or closed
  rst,    \* whether the connection was reset
  echo    \* the bytes sent back

vars == <<life, sent, half, rst, echo>>

Init ==
  /\ life = [c \in Conns |-> "new"]
  /\ sent = [c \in Conns |-> 0]
  /\ half = [c \in Conns |-> "open"]
  /\ rst = [c \in Conns |-> FALSE]
  /\ echo = [c \in Conns |-> << >>]

\* Bytes first .. last of connection c.
Segment(c, first, last) == [k \in 1 .. last + 1 - first |-> <<c, first + k - 1>>]

Connect(c) ==
  /\ life[c] = "new"
  /\ life' = [life EXCEPT ![c] = "queued"]
  /\ UNCHANGED <<sent, half, rst, echo>>

Send(c) ==
  /\ life[c] \in {"queued", "open"} /\ half[c] = "open" /\ sent[c] < MaxBytes
  /\ sent' = [sent EXCEPT ![c] = @ + 1]
  /\ UNCHANGED <<life, half, rst, echo>>

Finish(c, how) ==
  /\ life[c] \in {"queued", "open"} /\ half[c] # "gone" /\ how # half[c]
  /\ half' = [half EXCEPT ![c] = how]
  /\ UNCHANGED <<life, sent, rst, echo>>

Reset(c) ==
  /\ life[c] = "open" /\ half[c] = "gone" /\ ~rst[c]
  /\ rst' = [rst EXCEPT ![c] = TRUE]
  /\ UNCHANGED <<life, sent, half, echo>>

Admit(c) ==
  /\ life[c] = "queued"
  /\ life' = [life EXCEPT ![c] = "open"]
  /\ UNCHANGED <<sent, half, rst, echo>>

Reply(c) ==
  /\ life[c] = "open" /\ ~rst[c]
  /\ \E last \in Len(echo[c]) + 1 .. sent[c] :
       echo' = [echo EXCEPT ![c] = @ \o Segment(c, Len(@) + 1, last)]
  /\ UNCHANGED <<life, sent, half, rst>>

Close(c) ==
  /\ life[c] = "open" /\ half[c] # "open"
  /\ rst[c] \/ Len(echo[c]) = sent[c]
  /\ life' = [life EXCEPT ![c] = "shut"]
  /\ UNCHANGED <<sent, half, rst, echo>>

Next ==
  \E c \in Conns :
    \/ Connect(c) \/ Send(c) \/ Finish(c, "fin") \/ Finish(c, "gone")
    \/ Reset(c) \/ Admit(c) \/ Reply(c) \/ Close(c)

\* The service owes every client admission, its echoes and the final close;
\* clients owe nothing.
Fairness ==
  \A c \in Conns : WF_vars(Admit(c)) /\ WF_vars(Reply(c)) /\ WF_vars(Close(c))

SafeSpec == Init /\ [][Next]_vars

Spec == SafeSpec /\ Fairness
=============================================================================
