-------------------------------- MODULE Daytime --------------------------------
(***************************************************************************)
(* src/01: the server writes the time to one client after the other and    *)
(* closes; the client reads to the end and cuts each piece it has read at  *)
(* the first colon of it.                                                  *)
(***************************************************************************)
EXTENDS Naturals, Sequences

CONSTANT Watchers   \* the clients

VARIABLES
  hostAt,    \* the server's next call
  visitor,   \* the client it works for
  conn,      \* each client's connection, as far as the server has come
  got,       \* the fields of the time each client has read
  display,   \* those it has put out
  pieces,    \* history: the pieces they came in
  over       \* how each client ended, if it did

daytimeVars == <<hostAt, visitor, conn, got, display, pieces, over>>

\* The time, "Thu Nov 24 18:22:48 1986", in fields.
Text == <<"date and hour", ":", "minute", ":", "second and year">>

TypesOK ==
  /\ hostAt \in {"accept", "write", "close"}
  /\ visitor \in Watchers
  /\ conn \in [Watchers -> {"none", "waiting", "open", "written", "closed"}]
  /\ got \in [Watchers -> 0 .. Len(Text)]
  /\ \A w \in Watchers : \A i \in 1 .. Len(display[w]) : \E j \in 1 .. Len(Text) : display[w][i] = Text[j]
  /\ pieces \in [Watchers -> 0 .. Len(Text)]
  /\ over \in [Watchers -> {"no", "end", "error"}]

Init ==
  /\ hostAt = "accept" /\ visitor = CHOOSE w \in Watchers : TRUE
  /\ conn = [w \in Watchers |-> "none"]
  /\ got = [w \in Watchers |-> 0] /\ display = [w \in Watchers |-> << >>]
  /\ pieces = [w \in Watchers |-> 0]
  /\ over = [w \in Watchers |-> "no"]

\* socket() or connect() may fail, which ends the client.
Connects(w) ==
  /\ conn[w] = "none" /\ over[w] = "no"
  /\ \/ conn' = [conn EXCEPT ![w] = "waiting"] /\ UNCHANGED over
     \/ over' = [over EXCEPT ![w] = "error"] /\ UNCHANGED conn
  /\ UNCHANGED <<hostAt, visitor, got, display, pieces>>

\* An accept() that fails leaves -1: write() and close() refuse it, unseen.
Accepts(w) ==
  /\ hostAt = "accept" /\ conn[w] = "waiting"
  /\ conn' = [conn EXCEPT ![w] = "open"] /\ visitor' = w
  /\ hostAt' = "write"
  /\ UNCHANGED <<got, display, pieces, over>>

Writes ==
  /\ hostAt = "write"
  /\ conn' = [conn EXCEPT ![visitor] = "written"]
  /\ hostAt' = "close"
  /\ UNCHANGED <<visitor, got, display, pieces, over>>

\* Mutant: the connection is left open.
CloseMissing ==
  /\ hostAt = "close"
  /\ hostAt' = "accept"
  /\ UNCHANGED <<visitor, conn, got, display, pieces, over>>

Closes ==
  /\ hostAt = "close"
  /\ conn' = [conn EXCEPT ![visitor] = "closed"]
  /\ hostAt' = "accept"
  /\ UNCHANGED <<visitor, got, display, pieces, over>>

\* Mutant: one colon of the whole text is looked for, and pieces are not cut.
Whole(piece) == piece

\* strchr() finds the first colon of the piece, if it has one.
UpToColon(piece) ==
  LET uncut == {n \in 0 .. Len(piece) : \A i \in 1 .. n : piece[i] # ":"}
  IN  SubSeq(piece, 1, CHOOSE n \in uncut : \A k \in uncut : k <= n)

\* read() returns any part of what is there, and MAXLINE is never reached.
Reads(w) ==
  /\ conn[w] \in {"written", "closed"} /\ over[w] = "no"
  /\ \E n \in got[w] + 1 .. Len(Text) :
       /\ display' = [display EXCEPT ![w] = @ \o UpToColon(SubSeq(Text, got[w] + 1, n))]
       /\ got' = [got EXCEPT ![w] = n]
  /\ pieces' = [pieces EXCEPT ![w] = @ + 1]
  /\ UNCHANGED <<hostAt, visitor, conn, over>>

ReadsEnd(w) ==
  /\ conn[w] = "closed" /\ got[w] = Len(Text) /\ over[w] = "no"
  /\ over' = [over EXCEPT ![w] = "end"]
  /\ UNCHANGED <<hostAt, visitor, conn, got, display, pieces>>

Step == Writes \/ Closes \/ \E w \in Watchers : Accepts(w) \/ Reads(w) \/ ReadsEnd(w)

Next == Step \/ \E w \in Watchers : Connects(w)

Spec == Init /\ [][Next]_daytimeVars /\ WF_daytimeVars(Step)

-----------------------------------------------------------------------------
(* Properties.                                                             *)

\* What is put out depends on how TCP cuts the text: the date and the hour
\* always are, each further field needs a piece that begins behind a colon,
\* and one read() of the whole text loses minutes, seconds and year.
OneFieldAPiece ==
  \A w \in Watchers :
    /\ Len(display[w]) <= pieces[w]
    /\ got[w] > 0 => Head(display[w]) = Text[1]

\* Every client that has a connection comes to the end, one after the other.
AllServed == \A w \in Watchers : conn[w] = "waiting" ~> over[w] = "end"
=============================================================================
