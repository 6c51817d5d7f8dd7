---------------------------- MODULE UdpEchoProofs ----------------------------
(***************************************************************************)
(* For every number of clients and lines and every size of the buffers: a  *)
(* client whose datagrams are not doubled never mistakes one answer for    *)
(* another.  The invariant behind it is that such a client has at most one *)
(* datagram under way, of the line it waits for, and none while an error   *)
(* is pending or while it does not wait.                                   *)
(***************************************************************************)
EXTENDS UdpEcho, TLAPS

\* Questions and answers alternate.
InStep ==
  \A c \in Clients :
    /\ pc[c] = "receive" => Len(asked[c]) = Len(answers[c]) + 1
    /\ pc[c] # "receive" => Len(asked[c]) = Len(answers[c])

\* The length datagram d must have if it belongs to the last line of its client.
LengthOf(d) ==
  LET n == asked[d.of][Len(asked[d.of])]
  IN  IF d.kind = "request" THEN n ELSE Smaller(n, ServerBuffer)

\* What is under way for a client is one datagram, of the line it waits for.
Alone ==
  \A d \in net : d.of \notin doubled =>
    /\ pc[d.of] = "receive" /\ ~error[d.of]
    /\ d.line = Len(asked[d.of]) /\ d.len = LengthOf(d)
    /\ \A e \in net : e.of = d.of => e = d

\* An error is pending only while the client waits, and comes from a closed
\* server.
Told ==
  \A c \in Clients \ doubled : error[c] => pc[c] = "receive" /\ server = "closed"

IInv == TypeOK /\ InStep /\ Alone /\ Told /\ AnswersMatch

-----------------------------------------------------------------------------
LEMMA InitIInv == ASSUME Init PROVE IInv
<1> USE UdpAssumption DEF Init
<1>1. TypeOK
  BY DEF TypeOK
<1>2. InStep /\ Told /\ AnswersMatch
  BY DEF InStep, Told, AnswersMatch
<1>3. Alone
  BY DEF Alone
<1> QED BY <1>1, <1>2, <1>3 DEF IInv

LEMMA AsksIInv == ASSUME IInv, NEW c \in Clients, Asks(c) PROVE IInv'
<1> USE UdpAssumption
<1>1. TypeOK /\ InStep /\ Alone /\ Told /\ AnswersMatch
  BY DEF IInv
<1>2. PICK n \in NextLine(c) :
        /\ asked' = [asked EXCEPT ![c] = Append(@, n)]
        /\ net' = net \cup {Request(c, Len(asked[c]) + 1, n)}
  BY DEF Asks
<1>3. n \in 0 .. MaxLine
  BY DEF NextLine
<1>4. /\ pc[c] = "fgets" /\ Len(asked[c]) < Lines /\ ~error[c]
      /\ pc' = [pc EXCEPT ![c] = "receive"]
      /\ UNCHANGED <<chapter, answers, server, error, doubled, lost>>
  BY DEF Asks, history
<1>5. /\ asked[c] \in Seq(0 .. MaxLine) /\ Len(asked[c]) \in Nat
      /\ asked'[c] = Append(asked[c], n)
      /\ \A a \in Clients \ {c} : asked'[a] = asked[a] /\ pc'[a] = pc[a]
      /\ pc'[c] = "receive"
  BY <1>1, <1>2, <1>4 DEF TypeOK
<1>6. /\ Append(asked[c], n) \in Seq(0 .. MaxLine)
      /\ Len(Append(asked[c], n)) = Len(asked[c]) + 1
      /\ Append(asked[c], n)[Len(asked[c]) + 1] = n
      /\ \A k \in 1 .. Len(asked[c]) : Append(asked[c], n)[k] = asked[c][k]
  BY <1>3, <1>5
<1>7. TypeOK'
  <2>1. Request(c, Len(asked[c]) + 1, n) \in Datagram
    BY <1>3, <1>4, <1>5 DEF Request, Datagram
  <2>2. asked' \in [Clients -> Seq(0 .. MaxLine)] /\ \A a \in Clients : Len(asked'[a]) <= Lines
    BY <1>1, <1>2, <1>4, <1>5, <1>6 DEF TypeOK
  <2> QED BY <1>1, <1>2, <1>4, <2>1, <2>2 DEF TypeOK
<1>8. InStep'
  <2>1. pc[c] # "receive" /\ answers' = answers
    BY <1>4
  <2>2. Len(asked'[c]) = Len(answers[c]) + 1
    BY <1>1, <1>5, <1>6, <2>1 DEF InStep
  <2> QED BY <1>1, <1>5, <2>1, <2>2 DEF InStep
<1>9. Alone'
  <2>1. c \notin doubled => \A d \in net : d.of # c
    BY <1>1, <1>4 DEF Alone
  <2>2. SUFFICES ASSUME NEW d \in net', d.of \notin doubled
                 PROVE  /\ pc'[d.of] = "receive" /\ ~error'[d.of]
                        /\ d.line = Len(asked'[d.of]) /\ d.len = LengthOf(d)'
                        /\ \A e \in net' : e.of = d.of => e = d
    BY <1>4 DEF Alone
  <2>3. CASE d.of = c
    BY <1>2, <1>4, <1>5, <1>6, <2>1, <2>2, <2>3 DEF Request, LengthOf
  <2>4. CASE d.of # c
    <3>1. d \in net /\ d.of \in Clients
      BY <1>1, <1>2, <2>4 DEF Request, TypeOK, Datagram
    <3>2. LengthOf(d)' = LengthOf(d) /\ asked'[d.of] = asked[d.of] /\ pc'[d.of] = pc[d.of]
      BY <1>4, <1>5, <2>4, <3>1 DEF LengthOf, ServerBuffer
    <3> QED BY <1>1, <1>2, <1>4, <2>2, <2>4, <3>1, <3>2 DEF Alone, Request
  <2> QED BY <2>3, <2>4
<1>10. Told'
  BY <1>1, <1>4, <1>5 DEF Told
<1>11. AnswersMatch'
  <2>1. \A a \in Clients : \A k \in 1 .. Len(answers[a]) : asked'[a][k] = asked[a][k]
    <3>1. Len(answers[c]) = Len(asked[c])
      BY <1>1, <1>4 DEF InStep
    <3>2. \A k \in 1 .. Len(answers[c]) : asked'[c][k] = asked[c][k]
      BY <1>5, <1>6, <3>1
    <3> QED BY <1>5, <3>2
  <2> QED BY <1>1, <1>4, <2>1 DEF AnswersMatch, ServerBuffer
<1> QED BY <1>7, <1>8, <1>9, <1>10, <1>11 DEF IInv

LEMMA AskFailsIInv == ASSUME IInv, NEW c \in Clients, AskFails(c) PROVE IInv'
<1> USE UdpAssumption
<1>1. TypeOK /\ InStep /\ Alone /\ Told /\ AnswersMatch
  BY DEF IInv
<1>2. PICK n \in NextLine(c) : asked' = [asked EXCEPT ![c] = Append(@, n)]
  BY DEF AskFails
<1>3. n \in 0 .. MaxLine
  BY DEF NextLine
<1>4. /\ pc[c] = "fgets" /\ Len(asked[c]) < Lines /\ error[c]
      /\ pc' = [pc EXCEPT ![c] = "receive"]
      /\ error' = [error EXCEPT ![c] = FALSE]
      /\ UNCHANGED <<chapter, answers, net, server, doubled, lost>>
  BY DEF AskFails, history
<1>5. c \in doubled
  BY <1>1, <1>4 DEF Told
<1>6. /\ asked[c] \in Seq(0 .. MaxLine) /\ Len(asked[c]) \in Nat
      /\ asked'[c] = Append(asked[c], n)
      /\ \A a \in Clients \ {c} :
           asked'[a] = asked[a] /\ pc'[a] = pc[a] /\ error'[a] = error[a]
      /\ pc'[c] = "receive"
  BY <1>1, <1>2, <1>4 DEF TypeOK
<1>7. /\ Append(asked[c], n) \in Seq(0 .. MaxLine)
      /\ Len(Append(asked[c], n)) = Len(asked[c]) + 1
  BY <1>3, <1>6
<1>8. TypeOK'
  <2>1. asked' \in [Clients -> Seq(0 .. MaxLine)] /\ \A a \in Clients : Len(asked'[a]) <= Lines
    BY <1>1, <1>2, <1>4, <1>6, <1>7 DEF TypeOK
  <2> QED BY <1>1, <1>4, <2>1 DEF TypeOK
<1>9. InStep'
  <2>1. Len(asked'[c]) = Len(answers[c]) + 1
    BY <1>1, <1>4, <1>6, <1>7 DEF InStep
  <2> QED BY <1>1, <1>4, <1>6, <2>1 DEF InStep
<1>10. Alone'
  <2>1. \A d \in net : d.of \notin doubled => d.of \in Clients \ {c}
    BY <1>1, <1>5 DEF TypeOK, Datagram
  <2>2. \A d \in net : d.of \notin doubled => LengthOf(d)' = LengthOf(d)
    BY <1>4, <1>6, <2>1 DEF LengthOf, ServerBuffer
  <2> QED BY <1>1, <1>4, <1>6, <2>1, <2>2 DEF Alone
<1>11. Told'
  BY <1>1, <1>4, <1>5, <1>6 DEF Told
<1>12. AnswersMatch'
  <2>1. \A a \in Clients \ doubled : asked'[a] = asked[a]
    BY <1>5, <1>6
  <2>2. UNCHANGED <<answers, server, ServerBuffer, doubled>>
    BY <1>4 DEF ServerBuffer
  <2> QED BY <1>1, <2>1, <2>2 DEF AnswersMatch
<1> QED BY <1>8, <1>9, <1>10, <1>11, <1>12 DEF IInv

LEMMA EndsIInv == ASSUME IInv, NEW c \in Clients, Ends(c) PROVE IInv'
<1> USE UdpAssumption
<1>1. TypeOK /\ InStep /\ Alone /\ Told /\ AnswersMatch
  BY DEF IInv
<1>2. /\ pc[c] = "fgets" /\ pc' = [pc EXCEPT ![c] = "ended"]
      /\ UNCHANGED <<chapter, asked, answers, net, server, error, doubled, lost>>
  BY DEF Ends, history
<1>3. pc'[c] = "ended" /\ \A a \in Clients \ {c} : pc'[a] = pc[a]
  BY <1>1, <1>2 DEF TypeOK
<1>4. TypeOK' /\ InStep' /\ AnswersMatch'
  BY <1>1, <1>2, <1>3 DEF TypeOK, InStep, AnswersMatch, ServerBuffer
<1>5. Told'
  BY <1>1, <1>2, <1>3 DEF Told
<1>6. Alone'
  <2>1. \A d \in net : LengthOf(d)' = LengthOf(d) /\ d.of \in Clients
    BY <1>1, <1>2 DEF LengthOf, ServerBuffer, TypeOK, Datagram
  <2> QED BY <1>1, <1>2, <1>3, <2>1 DEF Alone
<1> QED BY <1>4, <1>5, <1>6 DEF IInv

\* What is true of an answer appended to the others.
LEMMA AnswerAppended ==
  ASSUME TypeOK, InStep, AnswersMatch, NEW c \in Clients, pc[c] = "receive",
         NEW a \in (0 .. Lines) \X (0 .. MaxLine),
         answers' = [answers EXCEPT ![c] = Append(@, a)],
         UNCHANGED <<chapter, asked, server>>,
         doubled \subseteq doubled',
         c \notin doubled' =>
           \/ a = Refused /\ server = "closed"
           \/ a = Text(Len(asked[c]), Smaller(asked[c][Len(asked[c])], ServerBuffer))
  PROVE  /\ answers' \in [Clients -> Seq((0 .. Lines) \X (0 .. MaxLine))]
         /\ Len(answers'[c]) = Len(asked[c])
         /\ \A b \in Clients \ {c} : answers'[b] = answers[b]
         /\ AnswersMatch'
<1>1. /\ answers[c] \in Seq((0 .. Lines) \X (0 .. MaxLine)) /\ Len(answers[c]) \in Nat
      /\ answers'[c] = Append(answers[c], a)
      /\ \A b \in Clients \ {c} : answers'[b] = answers[b]
      /\ Len(asked[c]) = Len(answers[c]) + 1
  BY DEF TypeOK, InStep
<1>2. /\ Append(answers[c], a) \in Seq((0 .. Lines) \X (0 .. MaxLine))
      /\ Len(Append(answers[c], a)) = Len(answers[c]) + 1
      /\ Append(answers[c], a)[Len(answers[c]) + 1] = a
      /\ \A k \in 1 .. Len(answers[c]) : Append(answers[c], a)[k] = answers[c][k]
  BY <1>1
<1>3. answers' \in [Clients -> Seq((0 .. Lines) \X (0 .. MaxLine))]
  BY <1>1, <1>2 DEF TypeOK
<1>4. AnswersMatch'
  <2>1. SUFFICES ASSUME NEW b \in Clients, b \notin doubled', NEW k \in 1 .. Len(answers'[b])
                 PROVE  \/ answers'[b][k] = Refused /\ server' = "closed"
                        \/ answers'[b][k] = Text(k, Smaller(asked'[b][k], ServerBuffer'))
    BY DEF AnswersMatch
  <2>2. CASE b # c
    BY <1>1, <2>1, <2>2 DEF AnswersMatch, ServerBuffer
  <2>3. CASE b = c /\ k = Len(asked[c])
    BY <1>1, <1>2, <2>1, <2>3 DEF ServerBuffer
  <2>4. CASE b = c /\ k # Len(asked[c])
    <3>1. k \in 1 .. Len(answers[c]) /\ answers'[c][k] = answers[c][k]
      BY <1>1, <1>2, <2>1, <2>4
    <3> QED BY <2>1, <2>4, <3>1 DEF AnswersMatch, ServerBuffer
  <2> QED BY <2>2, <2>3, <2>4
<1> QED BY <1>1, <1>2, <1>3, <1>4

LEMMA ShowsIInv == ASSUME IInv, NEW c \in Clients, Shows(c) PROVE IInv'
<1> USE UdpAssumption
<1>1. TypeOK /\ InStep /\ Alone /\ Told /\ AnswersMatch
  BY DEF IInv
<1>2. PICK d \in net :
        /\ d.kind = "reply" /\ d.of = c
        /\ Receive(d, {})
        /\ answers' = [answers EXCEPT ![c] = Append(@, Text(d.line, d.len))]
        /\ pc' = [pc EXCEPT ![c] = IF chapter = 6 /\ d.len = 0 THEN "ended" ELSE "fgets"]
  BY DEF Shows
<1>3. /\ pc[c] = "receive" /\ ~error[c]
      /\ UNCHANGED <<chapter, asked, server, error, lost>>
  BY DEF Shows
<1>4. /\ net' \subseteq net /\ doubled \subseteq doubled' /\ doubled' \subseteq Clients
      /\ c \notin doubled' => net' = net \ {d}
  BY <1>1, <1>2 DEF Receive, TypeOK
<1>5. Text(d.line, d.len) \in (0 .. Lines) \X (0 .. MaxLine)
  BY <1>1 DEF TypeOK, Datagram, Text
<1>6. c \notin doubled' => Text(d.line, d.len)
                             = Text(Len(asked[c]), Smaller(asked[c][Len(asked[c])], ServerBuffer))
  BY <1>1, <1>2, <1>4 DEF Alone, LengthOf
<1>7. /\ answers' \in [Clients -> Seq((0 .. Lines) \X (0 .. MaxLine))]
      /\ Len(answers'[c]) = Len(asked[c])
      /\ \A b \in Clients \ {c} : answers'[b] = answers[b]
      /\ AnswersMatch'
  BY <1>1, <1>2, <1>3, <1>4, <1>5, <1>6, AnswerAppended
<1>8. pc'[c] \in {"fgets", "ended"} /\ \A b \in Clients \ {c} : pc'[b] = pc[b]
  BY <1>1, <1>2 DEF TypeOK
<1>9. TypeOK'
  BY <1>1, <1>2, <1>3, <1>4, <1>7 DEF TypeOK
<1>10. InStep'
  BY <1>1, <1>3, <1>7, <1>8 DEF InStep
<1>11. Alone'
  <2>1. \A e \in net' : e.of \notin doubled' => e.of # c /\ e.of \in Clients
    BY <1>1, <1>2, <1>4 DEF Alone, TypeOK, Datagram
  <2>2. \A e \in net : LengthOf(e)' = LengthOf(e)
    BY <1>3 DEF LengthOf, ServerBuffer
  <2> QED BY <1>1, <1>3, <1>4, <1>8, <2>1, <2>2 DEF Alone
<1>12. Told'
  BY <1>1, <1>3, <1>4, <1>8 DEF Told
<1> QED BY <1>7, <1>9, <1>10, <1>11, <1>12 DEF IInv

LEMMA ShowsNothingIInv == ASSUME IInv, NEW c \in Clients, ShowsNothing(c) PROVE IInv'
<1> USE UdpAssumption
<1>1. TypeOK /\ InStep /\ Alone /\ Told /\ AnswersMatch
  BY DEF IInv
<1>2. /\ pc[c] = "receive" /\ error[c]
      /\ answers' = [answers EXCEPT ![c] = Append(@, Refused)]
      /\ error' = [error EXCEPT ![c] = FALSE]
      /\ pc' = [pc EXCEPT ![c] = "fgets"]
      /\ UNCHANGED <<chapter, asked, net, server, lost, doubled>>
  BY DEF ShowsNothing, history
<1>3. Refused \in (0 .. Lines) \X (0 .. MaxLine)
  BY DEF Refused
<1>4. c \notin doubled => server = "closed" /\ \A d \in net : d.of # c
  BY <1>1, <1>2 DEF Told, Alone
<1>5. /\ answers' \in [Clients -> Seq((0 .. Lines) \X (0 .. MaxLine))]
      /\ Len(answers'[c]) = Len(asked[c])
      /\ \A b \in Clients \ {c} : answers'[b] = answers[b]
      /\ AnswersMatch'
  BY <1>1, <1>2, <1>3, <1>4, AnswerAppended
<1>6. /\ pc'[c] = "fgets" /\ ~error'[c]
      /\ \A b \in Clients \ {c} : pc'[b] = pc[b] /\ error'[b] = error[b]
  BY <1>1, <1>2 DEF TypeOK
<1>7. TypeOK'
  BY <1>1, <1>2, <1>5 DEF TypeOK
<1>8. InStep'
  BY <1>1, <1>2, <1>5, <1>6 DEF InStep
<1>9. Alone'
  <2>1. \A e \in net : e.of \in Clients /\ LengthOf(e)' = LengthOf(e)
    BY <1>1, <1>2 DEF LengthOf, ServerBuffer, TypeOK, Datagram
  <2> QED BY <1>1, <1>2, <1>4, <1>6, <2>1 DEF Alone
<1>10. Told'
  BY <1>1, <1>2, <1>6 DEF Told
<1> QED BY <1>5, <1>7, <1>8, <1>9, <1>10 DEF IInv

\* A step that only takes datagrams from the network, and none it adds to.
LEMMA NetShrinks ==
  ASSUME IInv, net' \subseteq net, doubled \subseteq doubled', doubled' \subseteq Clients,
         lost' \subseteq Clients, server' \in {"receives", "answered", "closed"},
         server = "closed" => server' = "closed",
         UNCHANGED <<chapter, clientVars, error>>
  PROVE  IInv'
<1>1. TypeOK /\ InStep /\ Alone /\ Told /\ AnswersMatch
  BY DEF IInv
<1>2. UNCHANGED <<chapter, pc, asked, answers, error>>
  BY DEF clientVars
<1>3. TypeOK' /\ InStep' /\ Told'
  BY <1>1, <1>2 DEF TypeOK, InStep, Told
<1>4. AnswersMatch'
  BY <1>1, <1>2 DEF AnswersMatch, ServerBuffer
<1>5. Alone'
  <2>1. \A d \in net : LengthOf(d)' = LengthOf(d)
    BY <1>2 DEF LengthOf, ServerBuffer
  <2> QED BY <1>1, <1>2, <2>1 DEF Alone
<1> QED BY <1>3, <1>4, <1>5 DEF IInv

LEMMA ServesIInv == ASSUME IInv, NEW c \in Clients, Serves(c) PROVE IInv'
<1> USE UdpAssumption
<1>1. TypeOK /\ InStep /\ Alone /\ Told /\ AnswersMatch
  BY DEF IInv
<1>2. PICK d \in net : d.kind = "request" /\ d.of = c /\ Receive(d, Answer(d))
  BY DEF Serves
<1>3. /\ server = "receives" /\ server' \in {"receives", "answered"}
      /\ UNCHANGED <<chapter, pc, asked, answers, error, lost>>
  BY DEF Serves, clientVars
<1> DEFINE r == Reply(c, d.line, Smaller(d.len, ServerBuffer))
<1>4. Answer(d) \subseteq {r}
  BY <1>2 DEF Answer
<1>5. /\ net' \subseteq net \cup {r}
      /\ doubled \subseteq doubled' /\ doubled' \subseteq Clients
      /\ c \notin doubled' => net' \subseteq (net \ {d}) \cup {r}
  BY <1>1, <1>2, <1>4 DEF Receive, TypeOK
<1>6. r \in Datagram
  <2>1. d.line \in 1 .. Lines /\ d.len \in 0 .. MaxLine /\ ServerBuffer \in Nat
    BY <1>1 DEF TypeOK, Datagram, ServerBuffer
  <2> QED BY <2>1 DEF Reply, Datagram, Smaller
<1>7. TypeOK'
  BY <1>1, <1>3, <1>5, <1>6 DEF TypeOK
<1>8. InStep' /\ Told'
  BY <1>1, <1>3, <1>5 DEF InStep, Told
<1>9. AnswersMatch'
  BY <1>1, <1>3, <1>5 DEF AnswersMatch, ServerBuffer
<1>10. Alone'
  <2>1. SUFFICES ASSUME NEW e \in net', e.of \notin doubled'
                 PROVE  /\ pc[e.of] = "receive" /\ ~error[e.of]
                        /\ e.line = Len(asked[e.of]) /\ e.len = LengthOf(e)
                        /\ \A f \in net' : f.of = e.of => f = e
    BY <1>3 DEF Alone, LengthOf, ServerBuffer
  <2>2. r.of = c /\ r.kind = "reply" /\ r.line = d.line /\ r.len = Smaller(d.len, ServerBuffer)
    BY DEF Reply
  <2>3. CASE e.of = c
    <3>1. \A f \in net : f.of = c => f = d
      BY <1>1, <1>2, <1>5, <2>1, <2>3 DEF Alone
    <3>2. \A f \in net' : f.of = c => f = r
      BY <1>5, <2>1, <2>3, <3>1
    <3>3. /\ pc[c] = "receive" /\ ~error[c]
          /\ d.line = Len(asked[c]) /\ d.len = asked[c][Len(asked[c])]
      BY <1>1, <1>2, <1>5, <2>1, <2>3 DEF Alone, LengthOf
    <3> QED BY <2>1, <2>2, <2>3, <3>2, <3>3 DEF LengthOf
  <2>4. CASE e.of # c
    BY <1>1, <1>5, <2>1, <2>2, <2>4 DEF Alone
  <2> QED BY <2>3, <2>4
<1> QED BY <1>7, <1>8, <1>9, <1>10 DEF IInv

LEMMA ClosesIInv == ASSUME IInv, Closes PROVE IInv'
<1>1. TypeOK
  BY DEF IInv
<1>2. PICK dropped \in SUBSET {d \in net : d.kind = "request"} :
        net' = net \ dropped /\ lost' = lost \cup {d.of : d \in dropped}
  BY DEF Closes
<1>3. lost' \subseteq Clients
  BY <1>1, <1>2 DEF TypeOK, Datagram
<1> QED BY <1>1, <1>2, <1>3, NetShrinks DEF Closes, TypeOK

LEMMA LosesIInv == ASSUME IInv, Loses PROVE IInv'
<1>1. TypeOK
  BY DEF IInv
<1>2. net' \subseteq net /\ lost' \subseteq Clients
  BY <1>1 DEF Loses, TypeOK, Datagram
<1> QED BY <1>1, <1>2, NetShrinks DEF Loses, TypeOK

LEMMA BouncesIInv == ASSUME IInv, NEW c \in Clients, Bounces(c) PROVE IInv'
<1>1. TypeOK /\ InStep /\ Alone /\ Told /\ AnswersMatch
  BY DEF IInv
<1>2. PICK d \in net : d.kind = "request" /\ d.of = c /\ Receive(d, {})
  BY DEF Bounces
<1>3. /\ server = "closed"
      /\ error' = [error EXCEPT ![c] = TRUE]
      /\ UNCHANGED <<chapter, pc, asked, answers, server, lost>>
  BY DEF Bounces, clientVars
<1>4. /\ net' \subseteq net /\ doubled \subseteq doubled' /\ doubled' \subseteq Clients
      /\ c \notin doubled' => net' = net \ {d} /\ pc[c] = "receive"
  BY <1>1, <1>2 DEF Receive, TypeOK, Alone
<1>5. \A a \in Clients \ {c} : error'[a] = error[a]
  BY <1>1, <1>3 DEF TypeOK
<1>6. TypeOK' /\ InStep'
  BY <1>1, <1>3, <1>4 DEF TypeOK, InStep
<1>7. AnswersMatch'
  BY <1>1, <1>3, <1>4 DEF AnswersMatch, ServerBuffer
<1>8. Told'
  BY <1>1, <1>3, <1>4, <1>5 DEF Told
<1>9. Alone'
  <2>1. \A e \in net' : e.of \notin doubled' => e.of \in Clients \ {c}
    BY <1>1, <1>2, <1>4 DEF Alone, TypeOK, Datagram
  <2>2. \A e \in net : LengthOf(e)' = LengthOf(e)
    BY <1>3 DEF LengthOf, ServerBuffer
  <2> QED BY <1>1, <1>3, <1>4, <1>5, <2>1, <2>2 DEF Alone
<1> QED BY <1>6, <1>7, <1>8, <1>9 DEF IInv

-----------------------------------------------------------------------------
LEMMA NextIInv == ASSUME IInv, [Next]_vars PROVE IInv'
<1>1. CASE \E c \in Clients : ClientStep(c)
  BY <1>1, AsksIInv, AskFailsIInv, EndsIInv, ShowsIInv, ShowsNothingIInv DEF ClientStep
<1>2. CASE \E c \in Clients : Serves(c) \/ Bounces(c)
  BY <1>2, ServesIInv, BouncesIInv
<1>3. CASE Closes \/ Loses
  BY <1>3, ClosesIInv, LosesIInv
<1>4. CASE UNCHANGED vars
  BY <1>4 DEF vars, clientVars, history, IInv, TypeOK, InStep, Alone, LengthOf, Told,
              AnswersMatch, ServerBuffer
<1> QED BY <1>1, <1>2, <1>3, <1>4 DEF Next

LEMMA Invariance == Spec => []IInv
<1> QED BY InitIInv, NextIInv, PTL DEF Spec

\* In every reachable state the variables have their types: no line is longer
\* than fgets() returns and no answer longer than the question.
THEOREM TypeCorrect == Spec => []TypeOK
<1>1. IInv => TypeOK
  BY DEF IInv
<1> QED BY <1>1, Invariance, PTL

\* The clients of 08/ and 06/ match answers to lines by waiting alone, and as
\* long as no datagram of a client is doubled this is right, however many
\* clients there are and whatever is lost.
THEOREM AnswerSafety == Spec => []AnswersMatch
<1>1. IInv => AnswersMatch
  BY DEF IInv
<1> QED BY <1>1, Invariance, PTL
=============================================================================
