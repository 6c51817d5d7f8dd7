------------------------------- MODULE UdpEcho -------------------------------
(***************************************************************************)
(* The UDP echo programs: dlg_cli() of src/08/udp-client.c with dlg_echo() *)
(* of src/08/udp-server.c, and src/06/udp-client.c, whose socket is        *)
(* connected, with src/06/poll-server.c, which answers one datagram and    *)
(* ends.  A client sends a line and waits for its echo without any time    *)
(* limit; the datagrams between may be lost, doubled and reordered.        *)
(***************************************************************************)
EXTENDS Integers, Sequences

CONSTANTS
  Clients,
  Lines,     \* bound: lines a client sends
  MaxLine,   \* bytes of the longest piece of input fgets() returns
  SendLine,  \* sizeof(sendline) of the server of src/08
  Buffer,    \* sizeof(buf) of the server of src/06
  Doubling   \* the clients whose datagrams the network may double

ASSUME UdpAssumption ==
  /\ Lines \in Nat
  /\ MaxLine \in Nat \ {0}
  /\ SendLine \in Nat \ {0}
  /\ Buffer \in Nat /\ Buffer > MaxLine
  /\ Doubling \subseteq Clients

VARIABLES
  chapter,  \* which pair of programs is running: 6 or 8
  pc,       \* the call each client is at, or "ended"
  asked,    \* history: the lengths of the lines each client has sent
  answers,  \* history: what each client took for the answers
  net,      \* the datagrams sent and not received
  server,   \* whether the server still receives
  error,    \* the pending error of a client's socket
  lost,     \* history: the clients that lost a datagram
  doubled   \* history: the clients of which a datagram arrived twice

clientVars == <<pc, asked, answers>>
history == <<lost, doubled>>
vars == <<chapter, clientVars, net, server, error, history>>

Smaller(a, b) == IF a < b THEN a ELSE b

Request(c, k, n) == [kind |-> "request", of |-> c, line |-> k, len |-> n]
Reply(c, k, n) == [kind |-> "reply", of |-> c, line |-> k, len |-> n]

\* What a client shows for a reply, and for read() returning -1.
Text(k, n) == <<k, n>>
Refused == <<0, 0>>

Datagram == [kind : {"request", "reply"}, of : Clients, line : 1 .. Lines, len : 0 .. MaxLine]

TypeOK ==
  /\ chapter \in {6, 8}
  /\ pc \in [Clients -> {"fgets", "receive", "ended"}]
  /\ asked \in [Clients -> Seq(0 .. MaxLine)]
  /\ answers \in [Clients -> Seq((0 .. Lines) \X (0 .. MaxLine))]
  /\ \A c \in Clients : Len(asked[c]) <= Lines
  /\ net \in SUBSET Datagram
  /\ server \in {"receives", "answered", "closed"}
  /\ error \in [Clients -> BOOLEAN]
  /\ lost \in SUBSET Clients /\ doubled \in SUBSET Clients

Init ==
  /\ chapter \in {6, 8}
  /\ pc = [c \in Clients |-> "fgets"]
  /\ asked = [c \in Clients |-> << >>]
  /\ answers = [c \in Clients |-> << >>]
  /\ net = {}
  /\ server = "receives"
  /\ error = [c \in Clients |-> FALSE]
  /\ lost = {} /\ doubled = {}

-----------------------------------------------------------------------------
(* The clients.                                                            *)

\* At the end of its input the client of src/06 goes on with empty lines,
\* because the result of fgets() is not looked at.
AtEof(c) == asked[c] # << >> /\ asked[c][Len(asked[c])] = 0

NextLine(c) ==
  IF chapter = 8 THEN 1 .. MaxLine
                 ELSE IF AtEof(c) THEN {0} ELSE 0 .. MaxLine

\* Mutant: fgets() fills the buffer and leaves no room for the zero.
AsksTooMuch(c) ==
  /\ pc[c] = "fgets" /\ Len(asked[c]) < Lines /\ ~error[c]
  /\ \E n \in NextLine(c) \cup {MaxLine + 1} :
       /\ asked' = [asked EXCEPT ![c] = Append(@, n)]
       /\ net' = net \cup {Request(c, Len(asked[c]) + 1, n)}
  /\ pc' = [pc EXCEPT ![c] = "receive"]
  /\ UNCHANGED <<chapter, answers, server, error, history>>

\* fgets() returns and the line is sent.
Asks(c) ==
  /\ pc[c] = "fgets" /\ Len(asked[c]) < Lines /\ ~error[c]
  /\ \E n \in NextLine(c) :
       /\ asked' = [asked EXCEPT ![c] = Append(@, n)]
       /\ net' = net \cup {Request(c, Len(asked[c]) + 1, n)}
  /\ pc' = [pc EXCEPT ![c] = "receive"]
  /\ UNCHANGED <<chapter, answers, server, error, history>>

\* write() on the connected socket returns an error that was pending, and
\* nothing is sent; the client waits for an answer all the same.
AskFails(c) ==
  /\ pc[c] = "fgets" /\ Len(asked[c]) < Lines /\ error[c]
  /\ \E n \in NextLine(c) : asked' = [asked EXCEPT ![c] = Append(@, n)]
  /\ error' = [error EXCEPT ![c] = FALSE]
  /\ pc' = [pc EXCEPT ![c] = "receive"]
  /\ UNCHANGED <<chapter, answers, net, server, history>>

\* The loop of dlg_cli() ends with its input.
Ends(c) ==
  /\ chapter = 8 /\ pc[c] = "fgets"
  /\ pc' = [pc EXCEPT ![c] = "ended"]
  /\ UNCHANGED <<chapter, asked, answers, net, server, error, history>>

\* A datagram is received; a copy of it may follow.
Receive(d, out) ==
  \/ /\ net' = (net \ {d}) \cup out
     /\ UNCHANGED doubled
  \/ /\ d.of \in Doubling
     /\ net' = net \cup out
     /\ doubled' = doubled \cup {d.of}

\* recvfrom() or read() returns a reply, whichever of the client's arrived
\* first; the client of src/06 would end at an empty one.
Shows(c) ==
  /\ pc[c] = "receive" /\ ~error[c]
  /\ \E d \in net :
       /\ d.kind = "reply" /\ d.of = c
       /\ Receive(d, {})
       /\ answers' = [answers EXCEPT ![c] = Append(@, Text(d.line, d.len))]
       /\ pc' = [pc EXCEPT ![c] = IF chapter = 6 /\ d.len = 0 THEN "ended" ELSE "fgets"]
  /\ UNCHANGED <<chapter, asked, server, error, lost>>

\* read() returns -1 with ECONNREFUSED: the emptied buffer is shown.
ShowsNothing(c) ==
  /\ pc[c] = "receive" /\ error[c]
  /\ answers' = [answers EXCEPT ![c] = Append(@, Refused)]
  /\ error' = [error EXCEPT ![c] = FALSE]
  /\ pc' = [pc EXCEPT ![c] = "fgets"]
  /\ UNCHANGED <<chapter, asked, net, server, history>>

ClientStep(c) == Asks(c) \/ AskFails(c) \/ Ends(c) \/ Shows(c) \/ ShowsNothing(c)

-----------------------------------------------------------------------------
(* The servers.                                                            *)

ServerBuffer == IF chapter = 8 THEN SendLine ELSE Buffer

\* Mutant: sizeof(sendline) bytes are sent, not n.
AnswerWhole(d) ==
  IF chapter = 6 /\ d.len = 0 THEN {}
  ELSE {Reply(d.of, d.line, Smaller(MaxLine, ServerBuffer))}

\* Mutant: a full buffer is taken for an error.
AnswerShort(d) ==
  IF d.len = 0 \/ d.len >= ServerBuffer THEN {}
  ELSE {Reply(d.of, d.line, d.len)}

\* What is sent back for a request; recvfrom() cuts what the buffer cannot
\* take, and src/06 sends nothing for an empty datagram.
Answer(d) ==
  IF chapter = 6 /\ d.len = 0 THEN {}
  ELSE {Reply(d.of, d.line, Smaller(d.len, ServerBuffer))}

Serves(c) ==
  /\ server = "receives"
  /\ \E d \in net :
       /\ d.kind = "request" /\ d.of = c
       /\ Receive(d, Answer(d))
  /\ server' = IF chapter = 6 THEN "answered" ELSE "receives"
  /\ UNCHANGED <<chapter, clientVars, error, lost>>

\* close(): requests that had arrived are dropped with the socket, and nobody
\* is told.
Closes ==
  /\ server = "answered"
  /\ server' = "closed"
  /\ \E dropped \in SUBSET {d \in net : d.kind = "request"} :
       /\ net' = net \ dropped
       /\ lost' = lost \cup {d.of : d \in dropped}
  /\ UNCHANGED <<chapter, clientVars, error, doubled>>

-----------------------------------------------------------------------------
(* The network.                                                            *)

Loses ==
  /\ \E d \in net : net' = net \ {d} /\ lost' = lost \cup {d.of}
  /\ UNCHANGED <<chapter, clientVars, server, error, doubled>>

\* A request finds the port closed; a connected socket is told.
Bounces(c) ==
  /\ server = "closed"
  /\ \E d \in net : d.kind = "request" /\ d.of = c /\ Receive(d, {})
  /\ error' = [error EXCEPT ![c] = TRUE]
  /\ UNCHANGED <<chapter, clientVars, server, lost>>

Next ==
  \/ \E c \in Clients : ClientStep(c) \/ Serves(c) \/ Bounces(c)
  \/ Closes \/ Loses

\* The programs run and datagrams that are not lost arrive; a socket's queue
\* is served in order, so that no client's request is passed over for ever.
\* No user has to type.
Fairness ==
  /\ WF_vars(Closes)
  /\ \A c \in Clients :
       WF_vars(Shows(c)) /\ WF_vars(ShowsNothing(c)) /\ WF_vars(Serves(c)) /\ WF_vars(Bounces(c))

Spec == Init /\ [][Next]_vars /\ Fairness

-----------------------------------------------------------------------------
(* Properties.                                                             *)

\* Unless one of its datagrams was doubled, a client takes for the answer to a
\* line only the echo of that line, cut to the server's buffer, or the news
\* that there is no server, whatever is lost and whatever happens to the
\* others: the lines carry no number, and waiting is all that keeps questions
\* and answers together (08/udp-client.c:14-17, 06/udp-client.c:33-41).
AnswersMatch ==
  \A c \in Clients \ doubled : \A k \in 1 .. Len(answers[c]) :
    \/ answers[c][k] = Refused /\ server = "closed"
    \/ answers[c][k] = Text(k, Smaller(asked[c][k], ServerBuffer))

\* A client that waits gets an answer or a refusal, unless a datagram of its
\* was lost or doubled, or it sent the empty line poll-server.c ignores.
Answered ==
  \A c \in Clients :
    pc[c] = "receive" ~> pc[c] # "receive" \/ c \in lost \cup doubled \/ AtEof(c)
=============================================================================
