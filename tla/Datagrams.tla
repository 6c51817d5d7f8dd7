------------------------------ MODULE Datagrams ------------------------------
(***************************************************************************)
(* The programs that send or receive single datagrams on port 12345: the   *)
(* broadcast pair of src/20, the multicast pair of src/21, the unicast     *)
(* pair of src/22, recvmsg-server.c and recvmsg-client.c of src/14 and     *)
(* src/31/msg.c.  Any few of them run at once, each on some host; programs *)
(* of one host share its port, which one socket at a time can be bound to. *)
(***************************************************************************)
EXTENDS Integers, Sequences, FiniteSets

CONSTANTS
  Hosts,
  Together   \* bound: programs that run in one behaviour

VARIABLES
  place,    \* where each of the programs that run is
  doing,    \* the next call of each, or its exit status
  bound,    \* the program bound to the port of each host, if any
  joined,   \* whether its socket is a member of the multicast group
  queue,    \* the datagrams in its socket: the programs that sent them
  told,     \* the programs with ECONNREFUSED pending on their socket
  heard     \* history: the datagrams each program has received

dgramVars == <<place, doing, bound, joined, queue, told, heard>>

Receivers == {"20/receive", "21/receive", "22/s", "14/server"}
Askers == {"31/msg", "14/client"}
Senders == {"20/send", "21/send", "22/c"} \cup Askers
Programs == Receivers \cup Senders
Free == "free"

TypesOK ==
  /\ DOMAIN place \subseteq Programs
  /\ \A p \in DOMAIN place : place[p] \in Hosts
  /\ doing \in [DOMAIN place -> {"bind", "join", "receive", "close", "send", "connect", "again",
                              "answer", "nosocket", "exit0", "exit1"}]
  /\ bound \in [Hosts -> Receivers \cup {Free}] /\ joined \in [Hosts -> BOOLEAN]
  /\ queue \in [Hosts -> Seq(Senders)]
  /\ told \subseteq Askers
  /\ heard \in [DOMAIN place -> Seq(Senders)]

Init ==
  /\ \E S \in SUBSET Programs : Cardinality(S) \in 1 .. Together /\ place \in [S -> Hosts]
  /\ doing = [p \in DOMAIN place |-> IF p \in Receivers THEN "bind" ELSE "send"]
  /\ bound = [h \in Hosts |-> Free] /\ joined = [h \in Hosts |-> FALSE]
  /\ queue = [h \in Hosts |-> << >>]
  /\ told = {}
  /\ heard = [p \in DOMAIN place |-> << >>]

Go(p, call) == doing' = [doing EXCEPT ![p] = call]

\* Without a socket every one of them ends at once.
NoSocket(p) ==
  /\ doing[p] \in {"bind", "send"}
  /\ Go(p, "nosocket")
  /\ UNCHANGED <<place, bound, joined, queue, told, heard>>

-----------------------------------------------------------------------------
(* The receivers.                                                          *)

Binds(p) ==
  /\ doing[p] = "bind"
  /\ IF bound[place[p]] = Free
       THEN /\ bound' = [bound EXCEPT ![place[p]] = p]
            /\ Go(p, IF p = "21/receive" THEN "join" ELSE "receive")
       ELSE Go(p, "exit1") /\ UNCHANGED bound
  /\ UNCHANGED <<place, joined, queue, told, heard>>

\* Closing the socket leaves the group and drops what it still holds.
Close(p) ==
  /\ bound' = [bound EXCEPT ![place[p]] = Free]
  /\ joined' = [joined EXCEPT ![place[p]] = FALSE]
  /\ queue' = [queue EXCEPT ![place[p]] = << >>]

\* Without a route for the group the membership is refused.
Joins(p) ==
  /\ doing[p] = "join"
  /\ \/ Go(p, "receive") /\ joined' = [joined EXCEPT ![place[p]] = TRUE] /\ UNCHANGED <<bound, queue>>
     \/ Go(p, "exit1") /\ Close(p)
  /\ UNCHANGED <<place, told, heard>>

Hears(p) ==
  /\ doing[p] = "receive" /\ queue[place[p]] # << >>
  /\ heard' = [heard EXCEPT ![p] = Append(@, Head(queue[place[p]]))]
  /\ queue' = [queue EXCEPT ![place[p]] = Tail(@)]
  /\ UNCHANGED <<place, bound, joined, told>>

\* Mutant: every receiver loops.
ReceivesOn(p) == p # "14/server" /\ Hears(p) /\ UNCHANGED doing

\* One recvfrom(), and then the end.
Receives(p) == p # "14/server" /\ Hears(p) /\ Go(p, "close")

\* recvmsg-server.c receives for ever.
Loops(p) == p = "14/server" /\ Hears(p) /\ UNCHANGED doing

Ends(p) ==
  /\ doing[p] = "close"
  /\ Close(p)
  /\ Go(p, "exit0")
  /\ UNCHANGED <<place, told, heard>>

-----------------------------------------------------------------------------
(* The senders.                                                            *)

\* Mutant: the kernel delivers a group's datagrams to any bound socket.
ReachesAll(p, h) ==
  /\ bound[h] # Free
  /\ p \in {"20/send", "21/send"} \/ h = place[p]

\* A broadcast reaches every host, a multicast the sockets in the group, and
\* the other programs send to their own host.
Reaches(p, h) ==
  /\ bound[h] # Free
  /\ \/ p = "20/send"
     \/ p = "21/send" /\ joined[h]
     \/ p \notin {"20/send", "21/send"} /\ h = place[p]

\* Between hosts a datagram may be lost; within one it is not.
Deliver(p) ==
  \E H \in SUBSET {h \in Hosts : Reaches(p, h)} :
    /\ Reaches(p, place[p]) => place[p] \in H
    /\ queue' = [h \in Hosts |-> IF h \in H THEN Append(queue[h], p) ELSE queue[h]]

\* Only a connected socket learns that the port is closed.
Told(p) == p = "14/client" /\ doing[p] # "send" /\ bound[place[p]] = Free

AfterSend(p) == CASE p = "14/client" -> "connect" [] p = "31/msg" -> "answer" [] OTHER -> "exit0"

Sends(p) ==
  /\ doing[p] = "send"
  /\ Deliver(p)
  /\ told' = IF Told(p) THEN told \cup {p} ELSE told
  /\ Go(p, AfterSend(p))
  /\ UNCHANGED <<place, bound, joined, heard>>

\* setsockopt() or sendto() fails; the askers do not look at what
\* sendto() returned.
SendFails(p) ==
  /\ doing[p] = "send"
  /\ Go(p, IF p \in Askers THEN AfterSend(p) ELSE "exit1")
  /\ UNCHANGED <<place, bound, joined, queue, told, heard>>

Connects(p) ==
  /\ doing[p] = "connect"
  /\ Go(p, "again")
  /\ UNCHANGED <<place, bound, joined, queue, told, heard>>

\* sendmsg() is given a text for its header and fails; send() does not.
SendsAgain(p) ==
  /\ doing[p] = "again"
  /\ Deliver(p)
  /\ told' = IF Told(p) THEN told \cup {p} ELSE told
  /\ Go(p, "answer")
  /\ UNCHANGED <<place, bound, joined, heard>>

\* recvfrom() or read() returns -1; the client of src/14 does not look at it.
GetsError(p) ==
  /\ doing[p] = "answer" /\ p \in told
  /\ told' = told \ {p}
  /\ Go(p, IF p = "31/msg" THEN "exit1" ELSE "exit0")
  /\ UNCHANGED <<place, bound, joined, queue, heard>>

Step(p) ==
  \/ NoSocket(p) \/ Binds(p) \/ Joins(p) \/ Receives(p) \/ Loops(p) \/ Ends(p)
  \/ Sends(p) \/ SendFails(p) \/ Connects(p) \/ SendsAgain(p) \/ GetsError(p)

Next == \E p \in DOMAIN place : Step(p)

\* Every program takes a bounded number of steps, and is scheduled.
Spec == Init /\ [][Next]_dgramVars /\ WF_dgramVars(Next)

-----------------------------------------------------------------------------
(* Properties.                                                             *)

\* A program that receives one datagram ends, takes no other, and hears only
\* what was addressed to its host or to a group it is in.
HeardRight ==
  \A p \in DOMAIN place : \A i \in 1 .. Len(heard[p]) :
    /\ i = 1 \/ p = "14/server"
    /\ heard[p][i] = "21/send" => p = "21/receive"
    /\ heard[p][i] \notin {"20/send", "21/send"} => place[p] = place[heard[p][i]]

\* A receiver that a datagram has reached ends, and frees the port, whatever
\* the others do; only recvmsg-server.c stays.
OneShot ==
  \A p \in Receivers \ {"14/server"} :
    (p \in DOMAIN place /\ doing[p] = "receive" /\ queue[place[p]] # << >>)
      ~> (p \in DOMAIN place /\ doing[p] = "exit0" /\ bound[place[p]] # p)
=============================================================================
