------------------------------ MODULE RouteDump ------------------------------
(***************************************************************************)
(* src/18/my_route.c: query_route_table() asks for the routes over netlink *)
(* and walks over the messages it receives.  The request is addressed to   *)
(* `local`, which is the program's own socket, so that the kernel never    *)
(* sees it: all that can arrive is the request itself.                     *)
(***************************************************************************)
EXTENDS Integers

VARIABLES
  queryAt,   \* the next call of query_route_table()
  queued,    \* the datagrams in its socket
  left,      \* the bytes from nlh to the end of what was received
  arrived,   \* history: the messages received
  handled    \* history: the messages handle_route_message() was given

routeVars == <<queryAt, queued, left, arrived, handled>>

\* The lengths of a header and of the request, which follows it.
Header == 16
Request == 28

\* Mutant: the length of the header alone.
IovHeader == Header

\* iov_len is that of the request, also for what is received.
IovLen == Request

TypesOK ==
  /\ queryAt \in {"socket", "bind", "sendmsg", "recvmsg", "walk", "returned"}
  /\ queued \in 0 .. 1 /\ arrived \in 0 .. 1 /\ handled \in 0 .. 1
  /\ left \in 0 .. Request

Init ==
  /\ queryAt = "socket"
  /\ queued = 0 /\ left = 0 /\ arrived = 0 /\ handled = 0

\* socket() and bind(), each of which may fail.
Sets ==
  /\ queryAt \in {"socket", "bind"}
  /\ queryAt' \in {IF queryAt = "socket" THEN "bind" ELSE "sendmsg", "returned"}
  /\ UNCHANGED <<queued, left, arrived, handled>>

\* Without CAP_NET_ADMIN nothing can be sent to a process, and three members
\* of msg were never set: sendmsg() may fail.  If not, it fills its own queue.
Sends ==
  /\ queryAt = "sendmsg"
  /\ \/ queryAt' = "returned" /\ UNCHANGED queued
     \/ queryAt' = "recvmsg" /\ queued' = queued + 1
  /\ UNCHANGED <<left, arrived, handled>>

\* With the queue empty recvmsg() blocks for ever.  What does not fit into
\* iov_len bytes is lost.
Receives ==
  /\ queryAt = "recvmsg" /\ queued > 0
  /\ queued' = queued - 1 /\ arrived' = arrived + 1
  /\ left' = IF Request < IovLen THEN Request ELSE IovLen
  /\ queryAt' = "walk"
  /\ UNCHANGED handled

ReceiveFails ==
  /\ queryAt = "recvmsg"
  /\ queryAt' = "returned"
  /\ UNCHANGED <<queued, left, arrived, handled>>

\* Mutant: the end of what was received is not seen.
AnyRoom == left >= 0

NLMSG_OK == left >= Header /\ Request <= left

\* handle_route_message() prints routes; a request it ignores.
Walks ==
  /\ queryAt = "walk" /\ NLMSG_OK
  /\ handled' = handled + 1
  /\ left' = left - Request
  /\ UNCHANGED <<queryAt, queued, arrived>>

\* The type of the message the walk stopped at is looked at: behind the request
\* lie bytes nothing was ever written to, which may be those of NLMSG_DONE.
WalkEnds ==
  /\ queryAt = "walk" /\ ~NLMSG_OK
  /\ queryAt' \in {"recvmsg"} \cup {x \in {"returned"} : left = 0}
  /\ UNCHANGED <<queued, left, arrived, handled>>

Next == Sets \/ Sends \/ Receives \/ ReceiveFails \/ Walks \/ WalkEnds

Spec == Init /\ [][Next]_routeVars

-----------------------------------------------------------------------------
(* Properties.                                                             *)

\* handle_route_message() is given nothing that was not received, and the
\* query waits for more only when it was given all of it (18/my_route.c:107).
AllHandled ==
  /\ handled <= arrived
  /\ queryAt = "recvmsg" => handled = arrived
=============================================================================
