-------------------------------- MODULE SumEcho --------------------------------
(***************************************************************************)
(* One request, one answer, over a stream: str_cli_01() with str_echo_sum()*)
(* of src/07, which exchange the structs of src/sum.h, and the client and  *)
(* server of src/05, which exchange lines.  Nothing marks the end of a     *)
(* message, and each side takes what one read() returns for a whole one.   *)
(***************************************************************************)
EXTENDS Integers, Sequences

CONSTANT Requests   \* bound: requests of a client

VARIABLES
  pair,      \* which programs run: "sum" or "echo"
  askAt,     \* the client's next call, or how it ended
  asks,      \* the requests it has sent
  requests,  \* the bytes on the way to the server, in halves of messages
  replies,   \* the bytes on the way back
  args,      \* the halves the server's struct holds
  result,    \* the halves the client's struct holds
  sums,      \* history: what the client took for each answer
  serveAt,   \* what the server does
  cut        \* history: a read() returned a part of a message, or an error

sumVars == <<pair, askAt, asks, requests, replies, args, result, sums, serveAt, cut>>

Halves(m) == << <<m, 1>>, <<m, 2>> >>
Unset == << <<>>, <<>> >>

TypesOK ==
  /\ pair \in {"sum", "echo"}
  /\ askAt \in {"fgets", "read", "readAtEof", "returned", "closed", "SIGPIPE", "SIGINT"}
  /\ asks \in 0 .. Requests
  /\ \A i \in 1 .. Len(requests) : requests[i] \in (1 .. Requests) \X {1, 2}
  /\ \A i \in 1 .. Len(replies) : replies[i][2] \in {1, 2}
  /\ Len(args) = 2 /\ Len(result) = 2
  /\ serveAt \in {"serves", "ended", "spins", "killed"}
  /\ cut \in BOOLEAN

Init ==
  /\ pair \in {"sum", "echo"}
  /\ askAt = "fgets" /\ asks = 0
  /\ requests = << >> /\ replies = << >>
  /\ args = Unset /\ result = Unset
  /\ sums = << >>
  /\ serveAt = "serves"
  /\ cut = FALSE

\* How many halves a read() may return: a struct takes two.
Counts(s) == 1 .. IF pair = "sum" /\ Len(s) > 2 THEN 2 ELSE Len(s)

\* A struct after n halves were read over it.
Over(struct, s, n) == [i \in 1 .. 2 |-> IF i <= n THEN s[i] ELSE struct[i]]

Drop(s, n) == SubSeq(s, n + 1, Len(s))

-----------------------------------------------------------------------------
(* The client.                                                             *)

\* An input that is no pair of numbers is not sent.  A server that was killed
\* with bytes unread, or got some after that, has answered with a reset.
Asks ==
  /\ askAt = "fgets" /\ asks < Requests
  /\ \/ askAt' = "read" /\ asks' = asks + 1 /\ requests' = requests \o Halves(asks + 1)
     \/ /\ serveAt = "killed" /\ requests # << >>
        /\ askAt' = "SIGPIPE"
        /\ UNCHANGED <<asks, requests>>
  /\ UNCHANGED <<pair, replies, args, result, sums, serveAt, cut>>

\* At the end of its input str_cli_01() returns; the client of src/05 writes
\* nothing and waits for the answer.
InputEnds ==
  /\ askAt = "fgets"
  /\ askAt' = IF pair = "sum" THEN "returned" ELSE "readAtEof"
  /\ UNCHANGED <<pair, asks, requests, replies, args, result, sums, serveAt, cut>>

AfterRead == IF askAt = "read" THEN "fgets" ELSE "readAtEof"

Reads ==
  /\ askAt \in {"read", "readAtEof"} /\ replies # << >>
  /\ \E n \in Counts(replies) :
       /\ replies' = Drop(replies, n)
       /\ result' = IF pair = "sum" THEN Over(result, replies, n) ELSE result
       /\ sums' = Append(sums, IF pair = "sum" THEN result' ELSE SubSeq(replies, 1, n))
       /\ cut' = (cut \/ n < 2)
  /\ askAt' = AfterRead
  /\ UNCHANGED <<pair, asks, requests, args, serveAt>>

\* read() returns 0, or -1 after a reset: the struct is printed as it is, and
\* of the buffer of src/05, which was cleared, nothing.
ReadsEnd ==
  /\ askAt \in {"read", "readAtEof"} /\ replies = << >> /\ serveAt \in {"ended", "killed"}
  /\ \/ askAt' = "closed" /\ UNCHANGED <<sums, cut>>
     \/ /\ serveAt = "killed" /\ requests # << >> /\ ~cut
        /\ sums' = Append(sums, IF pair = "sum" THEN result ELSE << >>)
        /\ cut' = TRUE
        /\ askAt' = AfterRead
  /\ UNCHANGED <<pair, asks, requests, replies, args, result, serveAt>>

-----------------------------------------------------------------------------
(* The servers.                                                            *)

\* Mutants: the sum is written before it is computed; a part of a request is
\* not answered; bzero() is missing, and a short line is followed by the rest
\* of the line before.
WritesFirst ==
  /\ serveAt = "serves" /\ requests # << >>
  /\ \E n \in Counts(requests) :
       /\ requests' = Drop(requests, n)
       /\ args' = Over(args, requests, n)
       /\ replies' = replies \o (IF pair = "sum" THEN Halves(args) ELSE SubSeq(requests, 1, n))
       /\ cut' = (cut \/ n < 2)
  /\ UNCHANGED <<pair, askAt, asks, result, sums, serveAt>>

WholeOnly ==
  /\ serveAt = "serves" /\ requests # << >>
  /\ \E n \in Counts(requests) :
       /\ requests' = Drop(requests, n)
       /\ args' = Over(args, requests, n)
       /\ replies' = replies \o (IF n < 2 THEN << >> ELSE Halves(args'))
       /\ cut' = (cut \/ n < 2)
  /\ UNCHANGED <<pair, askAt, asks, result, sums, serveAt>>

KeepsBuffer ==
  /\ serveAt = "serves" /\ requests # << >>
  /\ \E n \in Counts(requests) :
       /\ requests' = Drop(requests, n)
       /\ args' = Over(args, requests, n)
       /\ replies' = replies \o (IF pair = "sum" THEN Halves(args')
                                  ELSE SelectSeq(args', LAMBDA half : half # << >>))
       /\ cut' = (cut \/ n < 2)
  /\ UNCHANGED <<pair, askAt, asks, result, sums, serveAt>>

\* str_echo_sum() adds what its struct holds; the server of src/05 writes back
\* what it has read.
Serves ==
  /\ serveAt = "serves" /\ requests # << >>
  /\ \E n \in Counts(requests) :
       /\ requests' = Drop(requests, n)
       /\ args' = IF pair = "sum" THEN Over(args, requests, n) ELSE args
       /\ replies' = replies \o (IF pair = "sum" THEN Halves(args') ELSE SubSeq(requests, 1, n))
       /\ cut' = (cut \/ n < 2)
  /\ UNCHANGED <<pair, askAt, asks, result, sums, serveAt>>

\* At the client's end str_echo_sum() returns; the server of src/05 does not
\* look at what read() returned, and reads on for ever.
ServeEnds ==
  /\ serveAt = "serves" /\ requests = << >> /\ askAt \in {"returned", "closed", "SIGPIPE", "SIGINT"}
  /\ serveAt' = IF pair = "sum" THEN "ended" ELSE "spins"
  /\ UNCHANGED <<pair, askAt, asks, requests, replies, args, result, sums, cut>>

\* The user ends the client.
Interrupts ==
  /\ askAt \in {"fgets", "read", "readAtEof"}
  /\ askAt' = "SIGINT"
  /\ UNCHANGED <<pair, asks, requests, replies, args, result, sums, serveAt, cut>>

IsKilled ==
  /\ serveAt = "serves"
  /\ serveAt' = "killed"
  /\ UNCHANGED <<pair, askAt, asks, requests, replies, args, result, sums, cut>>

Step == Reads \/ ReadsEnd \/ Serves \/ ServeEnds

Next == Step \/ Asks \/ InputEnds \/ Interrupts \/ IsKilled

\* Client and server run; the user need not type.
Spec == Init /\ [][Next]_sumVars /\ WF_sumVars(Step)

-----------------------------------------------------------------------------
(* Properties.                                                             *)

\* As long as no read() has returned a part of a message or an error, the
\* k-th answer belongs to the k-th request; after one it may be any.
AnswersRight ==
  ~cut => \A k \in 1 .. Len(sums) :
            sums[k] = IF pair = "sum" THEN Halves(Halves(k)) ELSE Halves(k)

\* Where a half stands in the stream of requests.
Place(half) == 2 * (half[1] - 1) + half[2]

Before(k) == IF k = 1 THEN 0 ELSE Place(sums[k - 1][Len(sums[k - 1])])

\* However TCP cuts the lines of src/05, and whenever the server is killed:
\* what the client shows goes on where it stopped before, with nothing lost,
\* doubled or out of order (05/client.c:34, 05/server.c:35-38).
LinesInOrder ==
  pair = "echo" =>
    \A k \in 1 .. Len(sums) : \A j \in 1 .. Len(sums[k]) :
      Place(sums[k][j]) = Before(k) + j

\* A request is answered, or the client learns of the server's end; only the
\* client of src/05 that has come to the end of its input waits for ever.
AskAnswered == askAt = "read" ~> askAt # "read"
=============================================================================
