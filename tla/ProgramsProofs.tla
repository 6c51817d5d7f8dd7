---------------------------- MODULE ProgramsProofs ----------------------------
(***************************************************************************)
(* What holds of the programs of datagrams, time limits, processes and     *)
(* threads for every number of hosts, programs and ticks.  Each program    *)
(* has an inductive invariant of its own; a step of one leaves the         *)
(* variables of the others alone.                                          *)
(***************************************************************************)
EXTENDS MCPrograms, SequenceTheorems, FiniteSetTheorems, TLAPS

-----------------------------------------------------------------------------
(* The inductive invariants.                                               *)

\* A socket is told only of the connected client, and what lies in the queue
\* of a host reached whoever is bound to its port: of the group's datagrams,
\* the program that joined.
DgramInv ==
  /\ Dgram!TypesOK /\ Dgram!HeardRight
  /\ told \subseteq {"14/client"}
  /\ \A p \in DOMAIN place :
       /\ doing[p] \in {"bind", "join", "receive", "close"} => p \in Dgram!Receivers
       /\ doing[p] \in {"send", "connect", "again", "answer"} => p \in Dgram!Senders
       /\ doing[p] \in {"join", "receive", "close"} => bound[place[p]] = p
       /\ doing[p] = "join" => p = "21/receive"
       /\ doing[p] \in {"bind", "join", "receive"} /\ p # "14/server" => heard[p] = << >>
  /\ \A h \in Hosts :
       /\ joined[h] => bound[h] = "21/receive"
       /\ \A k \in 1 .. Len(queue[h]) :
            /\ queue[h][k] = "21/send" => bound[h] = "21/receive"
            /\ queue[h][k] \notin {"20/send", "21/send"} =>
                 queue[h][k] \in DOMAIN place /\ place[queue[h][k]] = h

\* Where each of the two programs can be, and what it knows there.
TimedInv ==
  /\ Timed!TypesOK /\ Timed!SuccessMeansPeer
  /\ limited = "timeout" => at \notin {"select", "getsockopt"}
  /\ limited = "connect_timeout" => at \in {"connect", "select", "getsockopt", "ended"}
  /\ verdict = "none" <=> at # "ended"
  /\ at = "ended" => ~armed
  /\ at = "cancel" => received = "error" \/ (link = "up" /\ data = received /\ data # "none")
  /\ at = "select" => link # "none"
  /\ at = "getsockopt" => link \in {"up", "failed"}

\* At most one request is on its way, and before the walk has reached its end
\* it was received but not handled.
RouteInv ==
  /\ Route!TypesOK /\ Route!AllHandled
  /\ queued + arrived <= 1
  /\ queryAt \in {"socket", "bind", "sendmsg"} => queued + arrived = 0
  /\ queryAt = "walk" =>
       \/ left = Route!Request /\ arrived = 1 /\ handled = 0
       \/ left = 0 /\ handled = arrived

\* Nothing of its own is in the table before the program put it there.
ArpInv ==
  /\ Arp!TypesOK /\ Arp!ArpUndone
  /\ arpAt[1] = "add" => entry # "ours" /\ refused = "none"

\* Each process exists once the one before it forked; the daemon's session is
\* that of the leader after setsid(), and open() takes the descriptors in
\* order.
DaemonInv ==
  /\ Demon!TypesOK /\ Demon!Detached
  /\ process["launcher"] = "fork" => process["leader"] = "none"
  /\ process["leader"] \in {"none", "setsid", "fork"} => process["daemon"] = "none"
  /\ process["leader"] = "fork" => session["leader"] = "new"
  /\ process["daemon"] \in {"close", "open", "log"} => session["daemon"] = "new"
  /\ process["daemon"] \in {"none", "close"} => opened = 0
  /\ process["daemon"] = "open" =>
       /\ opened < 3
       /\ \A d \in 0 .. 2 :
            /\ fds[d] # "terminal"
            /\ ~broken => fds[d] = IF d < opened THEN "null" ELSE "closed"

\* Who owns which block of the heap when.
ThreadInv ==
  /\ Threads!TypesOK /\ Threads!BlocksHandedOver
  /\ mainAt = "malloc" => heap["data"] = "none"
  /\ mainAt \in {"malloc", "create"} => threadAt = "none" /\ heap["res"] = "none"
  /\ mainAt = "create" => heap["data"] = "live"
  /\ threadAt \in {"malloc", "add", "free"} => heap["data"] = "live" /\ mainAt \in {"join", "crashed"}
  /\ threadAt = "malloc" => heap["res"] = "none"
  /\ threadAt = "free" => heap["res"] = "live" /\ sum = "right"
  /\ threadAt = "returned" /\ mainAt # "exit0" =>
       heap["data"] = "freed" /\ heap["res"] = "live" /\ sum = "right"
  /\ mainAt \in {"print", "free", "exit0"} => threadAt = "returned"

\* The second child comes last.
ReapInv ==
  /\ Reap!TypesOK /\ Reap!ParentOutlives
  /\ parentAt \in {"fork1", "fork2"} => child["child2"] = "none"

-----------------------------------------------------------------------------
(* The ARP entry, the daemon, the threads and the two children.            *)

LEMMA InitArp == Arp!Init => ArpInv
<1>. SUFFICES ASSUME Arp!Init PROVE ArpInv
  OBVIOUS
<1>1. Arp!TypesOK
  <2>1. arpFd \in BOOLEAN
    BY Zenon DEF Arp!Init
  <2>. QED  BY <2>1 DEF Arp!Init, Arp!TypesOK
<1>. QED  BY <1>1 DEF Arp!Init, ArpInv, Arp!ArpUndone

LEMMA NextArp == ArpInv /\ [Arp!Next]_arpVars => ArpInv'
<1>. SUFFICES ASSUME ArpInv, [Arp!Next]_arpVars PROVE ArpInv'
  OBVIOUS
<1>. USE DEF ArpInv, Arp!TypesOK, Arp!ArpUndone
<1>1. ASSUME NEW f \in {"add", "delete"}, Arp!Opens(f) PROVE ArpInv'
  BY <1>1 DEF Arp!Opens
<1>2. ASSUME NEW f \in {"add", "delete"}, Arp!Fails(f) PROVE ArpInv'
  BY <1>2 DEF Arp!Fails
<1>3. CASE Arp!add_arp_entry
  BY <1>3 DEF Arp!add_arp_entry
<1>4. CASE Arp!delete_arp_entry
  BY <1>4 DEF Arp!delete_arp_entry
<1>5. CASE Arp!OthersChange
  BY <1>5 DEF Arp!OthersChange
<1>6. CASE UNCHANGED arpVars
  BY <1>6 DEF arpVars
<1>. QED  BY <1>1, <1>2, <1>3, <1>4, <1>5, <1>6 DEF Arp!Next

LEMMA InitReap == Reap!Init => ReapInv
BY DEF Reap!Init, ReapInv, Reap!TypesOK, Reap!ParentOutlives

LEMMA NextReap == ReapInv /\ [Reap!Next]_reapVars => ReapInv'
<1>. SUFFICES ASSUME ReapInv, [Reap!Next]_reapVars PROVE ReapInv'
  OBVIOUS
<1>. USE DEF ReapInv, Reap!TypesOK, Reap!ParentOutlives
<1>1. CASE Reap!Forks("fork1", "child1", "fork2") \/ Reap!Forks("fork2", "child2", "waitpid")
  BY <1>1 DEF Reap!Forks
<1>2. CASE Reap!Waits
  BY <1>2 DEF Reap!Waits
<1>3. ASSUME NEW c \in {"child1", "child2"}, Reap!ChildExits(c) \/ Reap!InitReaps(c)
      PROVE  ReapInv'
  BY <1>3 DEF Reap!ChildExits, Reap!InitReaps
<1>4. CASE UNCHANGED reapVars
  BY <1>4 DEF reapVars
<1>. QED  BY <1>1, <1>2, <1>3, <1>4 DEF Reap!Next

LEMMA InitThreads == Threads!Init => ThreadInv
BY DEF Threads!Init, ThreadInv, Threads!TypesOK, Threads!BlocksHandedOver

LEMMA NextThreads == ThreadInv /\ [Threads!Next]_threadVars => ThreadInv'
<1>. SUFFICES ASSUME ThreadInv, [Threads!Next]_threadVars PROVE ThreadInv'
  OBVIOUS
<1>. USE DEF ThreadInv, Threads!TypesOK, Threads!BlocksHandedOver
<1>1. CASE Threads!Allocates \/ Threads!Creates
  BY <1>1 DEF Threads!Allocates, Threads!Creates
<1>2. CASE Threads!Joins \/ Threads!Prints
  BY <1>2 DEF Threads!Joins, Threads!Prints
<1>3. CASE Threads!MainFrees
  BY <1>3 DEF Threads!MainFrees, Threads!Free
<1>4. CASE Threads!ThreadAllocates
  BY <1>4 DEF Threads!ThreadAllocates
<1>5. CASE Threads!Adds
  BY <1>5 DEF Threads!Adds, Threads!Running
<1>6. CASE Threads!ThreadFrees
  BY <1>6 DEF Threads!ThreadFrees, Threads!Free
<1>7. CASE UNCHANGED threadVars
  BY <1>7 DEF threadVars
<1>. QED  BY <1>1, <1>2, <1>3, <1>4, <1>5, <1>6, <1>7 DEF Threads!Next

LEMMA InitDaemon == Demon!Init => DaemonInv
<1>. SUFFICES ASSUME Demon!Init PROVE DaemonInv
  OBVIOUS
<1>1. Demon!TypesOK
  <2>1. broken \in BOOLEAN
    BY Zenon DEF Demon!Init
  <2>. QED  BY <2>1 DEF Demon!Init, Demon!TypesOK, Demon!Processes
<1>. QED  BY <1>1 DEF Demon!Init, DaemonInv, Demon!Detached, Demon!Processes

LEMMA NextDaemon == DaemonInv /\ [Demon!Next]_daemonVars => DaemonInv'
<1>. SUFFICES ASSUME DaemonInv, [Demon!Next]_daemonVars PROVE DaemonInv'
  OBVIOUS
<1>. USE DEF DaemonInv, Demon!TypesOK, Demon!Detached, Demon!Processes
<1>1. CASE Demon!Forks("launcher")
  BY <1>1 DEF Demon!Forks, Demon!Child
<1>2. CASE Demon!Forks("leader")
  BY <1>2 DEF Demon!Forks, Demon!Child
<1>3. ASSUME NEW p \in {"launcher", "leader"}, Demon!Exits(p) PROVE DaemonInv'
  BY <1>3 DEF Demon!Exits
<1>9. ASSUME NEW p \in {"launcher", "leader"}, Demon!ForkFails(p) PROVE DaemonInv'
  <2>1. broken' \in BOOLEAN /\ broken'
    BY <1>9, Zenon DEF Demon!ForkFails
  <2>. QED  BY <1>9, <2>1 DEF Demon!ForkFails
<1>4. CASE Demon!SetsSession
  BY <1>4 DEF Demon!SetsSession
<1>5. CASE Demon!Closes
  BY <1>5 DEF Demon!Closes
<1>6. CASE Demon!Opens
  <2>1. /\ process["daemon"] = "open" /\ opened' = opened + 1 /\ opened \in 0 .. 2
        /\ process' = [process EXCEPT !["daemon"] = IF opened = 2 THEN "log" ELSE "open"]
        /\ UNCHANGED session
    BY <1>6 DEF Demon!Opens
  <2>2. CASE UNCHANGED fds /\ broken' = TRUE
    <3>1. broken' \in BOOLEAN /\ broken'
      BY <2>2, Zenon
    <3>. QED  BY <2>1, <2>2, <3>1
  <2>3. CASE ~(UNCHANGED fds /\ broken' = TRUE)
    <3>1. /\ broken' = broken
          /\ fds' = [d \in 0 .. 2 |->
                       IF fds[d] = "closed" /\ \A e \in 0 .. 2 : fds[e] = "closed" => d <= e
                         THEN "null" ELSE fds[d]]
      BY <1>6, <2>3 DEF Demon!Opens
    <3>2. ASSUME ~broken
          PROVE  \A d \in 0 .. 2 : fds'[d] = IF d < opened' THEN "null" ELSE "closed"
      BY <2>1, <3>1, <3>2
    <3>. QED  BY <2>1, <3>1, <3>2
  <2>. QED  BY <2>2, <2>3
<1>7. CASE Demon!HangsUp
  BY <1>7 DEF Demon!HangsUp
<1>8. CASE UNCHANGED daemonVars
  BY <1>8 DEF daemonVars
<1>. QED  BY <1>1, <1>2, <1>3, <1>4, <1>5, <1>6, <1>7, <1>8, <1>9
          DEF Demon!Next, Demon!Step, Demon!Child

-----------------------------------------------------------------------------
(* The time limits and the route query.                                    *)

LEMMA InitTimed == Timed!Init => TimedInv
<1>. SUFFICES ASSUME Timed!Init PROVE TimedInv
  OBVIOUS
<1>1. Timed!TypesOK
  <2>1. soError \in BOOLEAN /\ armed \in BOOLEAN
    BY Zenon DEF Timed!Init
  <2>. QED  BY <2>1, ProgramsAssumption DEF Timed!Init, Timed!TypesOK
<1>2. ~armed
  BY Zenon DEF Timed!Init
<1>. QED  BY <1>1, <1>2 DEF Timed!Init, TimedInv, Timed!SuccessMeansPeer

LEMMA NextTimed == TimedInv /\ [Timed!Next]_timeoutVars => TimedInv'
<1>. SUFFICES ASSUME TimedInv, [Timed!Next]_timeoutVars PROVE TimedInv'
  OBVIOUS
<1>. USE DEF TimedInv, Timed!TypesOK, Timed!SuccessMeansPeer
<1>1. CASE Timed!Connects \/ Timed!Receives
  BY <1>1 DEF Timed!Connects, Timed!Receives
<1>8. CASE Timed!SetsAlarm
  <2>1. armed' \in BOOLEAN /\ timer' \in 0 .. Limit
    BY <1>8, ProgramsAssumption DEF Timed!SetsAlarm
  <2>. QED  BY <1>8, <2>1 DEF Timed!SetsAlarm
<1>2. CASE Timed!CancelsAlarm \/ Timed!AlarmRings
  BY <1>2 DEF Timed!CancelsAlarm, Timed!AlarmRings, Timed!End
<1>3. CASE Timed!StartsConnect \/ Timed!SelectReturns
  BY <1>3 DEF Timed!StartsConnect, Timed!SelectReturns
<1>4. CASE Timed!SelectTimesOut \/ Timed!SelectFails
  BY <1>4 DEF Timed!SelectTimesOut, Timed!SelectFails, Timed!End
<1>10. CASE Timed!GetsError
  <2>1. /\ at = "getsockopt" /\ at' = "ended" /\ ~armed' /\ armed' \in BOOLEAN
        /\ verdict' \in {"success", "failure"} /\ (verdict' = "success" => ~soError)
        /\ UNCHANGED <<limited, link, soError, data, received, timer>>
    BY <1>10 DEF Timed!GetsError, Timed!End
  <2>. QED  BY <2>1
<1>5. CASE Timed!Tick
  <2>1. timer' \in 0 .. Limit
    BY <1>5, ProgramsAssumption DEF Timed!Tick
  <2>. QED  BY <1>5, <2>1 DEF Timed!Tick
<1>6. CASE Timed!HandshakeEnds
  <2>1. soError' \in BOOLEAN
    BY <1>6 DEF Timed!HandshakeEnds
  <2>2. link = "pending" /\ link' \in {"up", "failed"}
    BY <1>6 DEF Timed!HandshakeEnds
  <2>3. UNCHANGED <<limited, at, data, received, timer, armed, verdict>>
    BY <1>6 DEF Timed!HandshakeEnds
  <2>. QED  BY <2>1, <2>2, <2>3
<1>9. CASE Timed!PeerSends
  BY <1>9 DEF Timed!PeerSends
<1>7. CASE UNCHANGED timeoutVars
  BY <1>7 DEF timeoutVars
<1>. QED  BY <1>1, <1>2, <1>3, <1>4, <1>5, <1>6, <1>7, <1>8, <1>9, <1>10
          DEF Timed!Next, Timed!ProgramStep

LEMMA InitRoute == Route!Init => RouteInv
BY DEF Route!Init, RouteInv, Route!TypesOK, Route!AllHandled, Route!Request

LEMMA NextRoute == RouteInv /\ [Route!Next]_routeVars => RouteInv'
<1>. SUFFICES ASSUME RouteInv, [Route!Next]_routeVars PROVE RouteInv'
  OBVIOUS
<1>. USE DEF RouteInv, Route!TypesOK, Route!AllHandled, Route!Request
<1>1. CASE Route!Sets \/ Route!Sends
  BY <1>1 DEF Route!Sets, Route!Sends
<1>2. CASE Route!Receives
  BY <1>2 DEF Route!Receives, Route!IovLen
<1>3. CASE Route!ReceiveFails
  BY <1>3 DEF Route!ReceiveFails
<1>4. CASE Route!Walks \/ Route!WalkEnds
  BY <1>4 DEF Route!Walks, Route!WalkEnds, Route!NLMSG_OK, Route!Header
<1>5. CASE UNCHANGED routeVars
  BY <1>5 DEF routeVars
<1>. QED  BY <1>1, <1>2, <1>3, <1>4, <1>5 DEF Route!Next

-----------------------------------------------------------------------------
(* The datagrams.                                                          *)

LEMMA InitDgram == Dgram!Init => DgramInv
<1>. SUFFICES ASSUME Dgram!Init PROVE DgramInv
  OBVIOUS
<1>1. PICK S \in SUBSET Dgram!Programs : place \in [S -> Hosts]
  BY DEF Dgram!Init
<1>2. /\ DOMAIN place = S /\ S \subseteq Dgram!Programs /\ \A p \in S : place[p] \in Hosts
      /\ doing = [p \in S |-> IF p \in Dgram!Receivers THEN "bind" ELSE "send"]
      /\ heard = [p \in S |-> << >>] /\ told = {}
      /\ bound = [h \in Hosts |-> "free"] /\ joined = [h \in Hosts |-> FALSE]
      /\ queue = [h \in Hosts |-> << >>]
  BY <1>1 DEF Dgram!Init, Dgram!Free
<1>3. joined \in [Hosts -> BOOLEAN] /\ \A h \in Hosts : ~joined[h]
  BY ONLY <1>2, Zenon
<1>4. \A S1 : << >> \in Seq(S1) /\ Len(<< >>) = 0
  OBVIOUS
<1>5. \A p \in S : p \notin Dgram!Receivers => p \in Dgram!Senders
  BY <1>2 DEF Dgram!Programs
<1>6. Dgram!TypesOK
  BY <1>2, <1>3, <1>4, <1>5 DEF Dgram!TypesOK, Dgram!Free
<1>7. Dgram!HeardRight
  BY <1>2, <1>4 DEF Dgram!HeardRight
<1>. QED  BY <1>2, <1>3, <1>4, <1>5, <1>6, <1>7 DEF DgramInv

\* A step to a call that holds no socket, or keeps the one it had.
LEMMA GoKeeps ==
  ASSUME DgramInv, NEW p \in DOMAIN place, NEW call,
         Dgram!Go(p, call), UNCHANGED <<place, bound, joined, queue, heard>>,
         told' \subseteq told \cup {"14/client"},
         \/ call \in {"nosocket", "exit0", "exit1"}
         \/ call \in {"connect", "again", "answer"} /\ p \in Dgram!Senders
  PROVE  DgramInv'
<1>1. /\ doing' = [doing EXCEPT ![p] = call] /\ Dgram!TypesOK
      /\ "14/client" \in Dgram!Askers
  BY DEF Dgram!Go, DgramInv, Dgram!Askers, Dgram!Senders
<1>2. Dgram!TypesOK' /\ told' \subseteq {"14/client"}
  BY <1>1 DEF Dgram!TypesOK, DgramInv
<1>3. Dgram!HeardRight'
  BY <1>1 DEF Dgram!HeardRight, DgramInv, Dgram!TypesOK
<1>. QED  BY <1>1, <1>2, <1>3 DEF DgramInv, Dgram!TypesOK

LEMMA BindsKeeps ==
  ASSUME DgramInv, NEW p \in DOMAIN place, Dgram!Binds(p)
  PROVE  DgramInv'
<1>1. /\ doing[p] = "bind" /\ p \in Dgram!Receivers /\ place[p] \in Hosts
      /\ UNCHANGED <<place, joined, queue, told, heard>>
      /\ "free" \notin Dgram!Receivers /\ Dgram!TypesOK
  BY DEF Dgram!Binds, DgramInv, Dgram!TypesOK, Dgram!Receivers
<1>2. CASE bound[place[p]] = "free"
  <2>1. /\ bound' = [bound EXCEPT ![place[p]] = p]
        /\ doing' = [doing EXCEPT ![p] = IF p = "21/receive" THEN "join" ELSE "receive"]
    BY <1>2 DEF Dgram!Binds, Dgram!Go, Dgram!Free
  <2>2. Dgram!TypesOK'
    BY <1>1, <2>1 DEF Dgram!TypesOK
  <2>3. Dgram!HeardRight'
    BY <1>1, <2>1 DEF Dgram!HeardRight, DgramInv, Dgram!TypesOK
  <2>4. \A q \in DOMAIN place' :
          /\ doing'[q] \in {"bind", "join", "receive", "close"} => q \in Dgram!Receivers
          /\ doing'[q] \in {"send", "connect", "again", "answer"} => q \in Dgram!Senders
          /\ doing'[q] \in {"join", "receive", "close"} => bound'[place'[q]] = q
          /\ doing'[q] = "join" => q = "21/receive"
          /\ doing'[q] \in {"bind", "join", "receive"} /\ q # "14/server" => heard'[q] = << >>
    BY <1>1, <1>2, <2>1 DEF DgramInv, Dgram!TypesOK
  <2>5. \A h \in Hosts :
          /\ joined'[h] => bound'[h] = "21/receive"
          /\ \A k \in 1 .. Len(queue'[h]) :
               /\ queue'[h][k] = "21/send" => bound'[h] = "21/receive"
               /\ queue'[h][k] \notin {"20/send", "21/send"} =>
                    queue'[h][k] \in DOMAIN place' /\ place'[queue'[h][k]] = h
    BY <1>1, <1>2, <2>1 DEF DgramInv, Dgram!TypesOK
  <2>. QED  BY <1>1, <2>2, <2>3, <2>4, <2>5 DEF DgramInv
<1>3. CASE bound[place[p]] # "free"
  BY <1>1, <1>3, GoKeeps DEF Dgram!Binds, Dgram!Free
<1>. QED  BY <1>2, <1>3

\* What closes its socket leaves nothing behind on its host.
LEMMA CloseKeepsDgrams ==
  ASSUME DgramInv, NEW p \in DOMAIN place, doing[p] \in {"join", "close"}, Dgram!Close(p),
         NEW call \in {"exit0", "exit1"}, Dgram!Go(p, call),
         UNCHANGED <<place, told, heard>>
  PROVE  DgramInv'
<1>. DEFINE host == place[p]
<1>1. /\ p \in Dgram!Receivers /\ host \in Hosts /\ bound[host] = p
      /\ Dgram!TypesOK
  BY DEF DgramInv, Dgram!TypesOK, Dgram!Receivers
<1>2. /\ bound' = [bound EXCEPT ![host] = "free"]
      /\ joined' = [joined EXCEPT ![host] = FALSE]
      /\ queue' = [queue EXCEPT ![host] = << >>]
      /\ doing' = [doing EXCEPT ![p] = call]
  BY DEF Dgram!Close, Dgram!Go, Dgram!Free
<1>3. joined' \in [Hosts -> BOOLEAN] /\ \A h \in Hosts : joined'[h] => joined[h] /\ h # host
  BY <1>1, <1>2 DEF Dgram!TypesOK
<1>4. Dgram!TypesOK'
  BY <1>1, <1>2, <1>3 DEF Dgram!TypesOK, Dgram!Free
<1>5. Dgram!HeardRight'
  BY <1>1, <1>2 DEF Dgram!HeardRight, DgramInv, Dgram!TypesOK
<1>6. \A q \in DOMAIN place' :
        /\ doing'[q] \in {"bind", "join", "receive", "close"} => q \in Dgram!Receivers
        /\ doing'[q] \in {"send", "connect", "again", "answer"} => q \in Dgram!Senders
        /\ doing'[q] \in {"join", "receive", "close"} => bound'[place'[q]] = q
        /\ doing'[q] = "join" => q = "21/receive"
        /\ doing'[q] \in {"bind", "join", "receive"} /\ q # "14/server" => heard'[q] = << >>
  BY <1>1, <1>2 DEF DgramInv, Dgram!TypesOK
<1>7. \A h \in Hosts :
        /\ joined'[h] => bound'[h] = "21/receive"
        /\ \A k \in 1 .. Len(queue'[h]) :
             /\ queue'[h][k] = "21/send" => bound'[h] = "21/receive"
             /\ queue'[h][k] \notin {"20/send", "21/send"} =>
                  queue'[h][k] \in DOMAIN place' /\ place'[queue'[h][k]] = h
  <2>. SUFFICES ASSUME NEW h \in Hosts
                PROVE  /\ joined'[h] => bound'[h] = "21/receive"
                       /\ \A k \in 1 .. Len(queue'[h]) :
                            /\ queue'[h][k] = "21/send" => bound'[h] = "21/receive"
                            /\ queue'[h][k] \notin {"20/send", "21/send"} =>
                                 queue'[h][k] \in DOMAIN place' /\ place'[queue'[h][k]] = h
    OBVIOUS
  <2>1. CASE h = host
    BY <1>1, <1>2, <1>3, <2>1 DEF Dgram!TypesOK
  <2>2. CASE h # host
    BY <1>1, <1>2, <1>3, <2>2 DEF DgramInv, Dgram!TypesOK
  <2>. QED  BY <2>1, <2>2
<1>. QED  BY <1>4, <1>5, <1>6, <1>7 DEF DgramInv

LEMMA JoinsKeeps ==
  ASSUME DgramInv, NEW p \in DOMAIN place, Dgram!Joins(p)
  PROVE  DgramInv'
<1>1. /\ doing[p] = "join" /\ p = "21/receive" /\ place[p] \in Hosts /\ bound[place[p]] = p
      /\ UNCHANGED <<place, told, heard>> /\ Dgram!TypesOK /\ p \in Dgram!Receivers
  BY DEF Dgram!Joins, DgramInv, Dgram!TypesOK, Dgram!Receivers
<1>2. CASE Dgram!Go(p, "exit1") /\ Dgram!Close(p)
  BY <1>1, <1>2, CloseKeepsDgrams
<1>3. CASE /\ Dgram!Go(p, "receive") /\ joined' = [joined EXCEPT ![place[p]] = TRUE]
           /\ UNCHANGED <<bound, queue>>
  <2>1. doing' = [doing EXCEPT ![p] = "receive"]
    BY <1>3 DEF Dgram!Go
  <2>2. joined' \in [Hosts -> BOOLEAN] /\ \A h \in Hosts : joined'[h] => joined[h] \/ h = place[p]
    BY <1>1, <1>3 DEF Dgram!TypesOK
  <2>3. Dgram!TypesOK'
    BY <1>1, <1>3, <2>1, <2>2 DEF Dgram!TypesOK
  <2>4. Dgram!HeardRight'
    BY <1>1, <2>1 DEF Dgram!HeardRight, DgramInv, Dgram!TypesOK
  <2>. QED  BY <1>1, <1>3, <2>1, <2>2, <2>3, <2>4 DEF DgramInv, Dgram!TypesOK
<1>. QED  BY <1>2, <1>3 DEF Dgram!Joins

\* What a receiver hears is the first datagram of its own host's queue; those
\* behind it stay in order.
LEMMA HearsKeeps ==
  ASSUME DgramInv, NEW p \in DOMAIN place, Dgram!Receives(p) \/ Dgram!Loops(p)
  PROVE  DgramInv'
<1>. DEFINE host == place[p]
            q == queue[host]
<1>1. /\ doing[p] = "receive" /\ q # << >> /\ host \in Hosts /\ bound[host] = p
      /\ p \in Dgram!Receivers /\ Dgram!TypesOK
      /\ heard' = [heard EXCEPT ![p] = Append(@, Head(q))]
      /\ queue' = [queue EXCEPT ![host] = Tail(q)]
      /\ UNCHANGED <<place, bound, joined, told>>
  BY DEF Dgram!Receives, Dgram!Loops, Dgram!Hears, DgramInv, Dgram!TypesOK, Dgram!Receivers
<1>2. \/ p = "14/server" /\ doing' = doing
      \/ p # "14/server" /\ doing' = [doing EXCEPT ![p] = "close"]
  BY DEF Dgram!Receives, Dgram!Loops, Dgram!Go
<1>3. /\ q \in Seq(Dgram!Senders) /\ heard[p] \in Seq(Dgram!Senders)
      /\ Len(q) \in Nat /\ Len(heard[p]) \in Nat /\ heard \in [DOMAIN place -> Seq(Dgram!Senders)]
      /\ queue \in [Hosts -> Seq(Dgram!Senders)]
      /\ doing \in [DOMAIN place -> {"bind", "join", "receive", "close", "send", "connect",
                                     "again", "answer", "nosocket", "exit0", "exit1"}]
  BY <1>1, LenProperties DEF Dgram!TypesOK
<1>4. /\ \A k \in 1 .. Len(q) :
           /\ q[k] = "21/send" => p = "21/receive"
           /\ q[k] \notin {"20/send", "21/send"} => q[k] \in DOMAIN place /\ place[q[k]] = host
      /\ p # "14/server" => heard[p] = << >>
  BY <1>1 DEF DgramInv
<1>. HIDE DEF q
<1>5. /\ Head(q) = q[1] /\ Head(q) \in Dgram!Senders /\ 1 \in 1 .. Len(q)
      /\ Tail(q) \in Seq(Dgram!Senders) /\ Len(Tail(q)) = Len(q) - 1
      /\ \A k \in 1 .. Len(q) - 1 : Tail(q)[k] = q[k + 1]
  BY ONLY <1>1, <1>3, HeadTailProperties, EmptySeq
<1>6. /\ Append(heard[p], Head(q)) \in Seq(Dgram!Senders)
      /\ Len(Append(heard[p], Head(q))) = Len(heard[p]) + 1
      /\ \A k \in 1 .. Len(heard[p]) : Append(heard[p], Head(q))[k] = heard[p][k]
      /\ Append(heard[p], Head(q))[Len(heard[p]) + 1] = Head(q)
  BY ONLY <1>3, <1>5, AppendProperties
<1>7. Dgram!TypesOK'
  <2>1. heard' \in [DOMAIN place -> Seq(Dgram!Senders)] /\ queue' \in [Hosts -> Seq(Dgram!Senders)]
    BY ONLY <1>1, <1>3, <1>5, <1>6, p \in DOMAIN place
  <2>. QED  BY <1>1, <1>2, <1>3, <2>1 DEF Dgram!TypesOK
<1>8. Dgram!HeardRight'
  <2>. SUFFICES ASSUME NEW r \in DOMAIN place, NEW k \in 1 .. Len(heard'[r])
                PROVE  /\ k = 1 \/ r = "14/server"
                       /\ heard'[r][k] = "21/send" => r = "21/receive"
                       /\ heard'[r][k] \notin {"20/send", "21/send"} =>
                            place[r] = place[heard'[r][k]]
    BY <1>1 DEF Dgram!HeardRight
  <2>1. CASE r # p
    <3>1. heard'[r] = heard[r]
      BY <1>1, <1>3, <2>1
    <3>. QED  BY <3>1 DEF DgramInv, Dgram!HeardRight
  <2>2. CASE r = p
    <3>1. heard'[p] = Append(heard[p], Head(q))
      BY <1>1, <1>3
    <3>2. CASE k \in 1 .. Len(heard[p])
      <4>1. heard'[r][k] = heard[p][k] /\ p = "14/server"
        <5>1. heard[p] # << >>
          BY <3>2
        <5>. QED  BY <1>4, <1>6, <2>2, <3>1, <3>2, <5>1
      <4>. QED  BY <2>2, <3>2, <4>1 DEF DgramInv, Dgram!HeardRight
    <3>3. CASE k = Len(heard[p]) + 1
      <4>1. heard'[r][k] = q[1]
        BY <1>5, <1>6, <2>2, <3>1, <3>3
      <4>2. p # "14/server" => k = 1
        BY <1>4, <3>3
      <4>. QED  BY <1>4, <1>5, <2>2, <4>1, <4>2
    <3>. QED  BY <1>3, <1>6, <2>2, <3>1, <3>2, <3>3
  <2>. QED  BY <2>1, <2>2
<1>9. \A r \in DOMAIN place' :
        /\ doing'[r] \in {"bind", "join", "receive", "close"} => r \in Dgram!Receivers
        /\ doing'[r] \in {"send", "connect", "again", "answer"} => r \in Dgram!Senders
        /\ doing'[r] \in {"join", "receive", "close"} => bound'[place'[r]] = r
        /\ doing'[r] = "join" => r = "21/receive"
        /\ doing'[r] \in {"bind", "join", "receive"} /\ r # "14/server" => heard'[r] = << >>
  BY <1>1, <1>2, <1>3 DEF DgramInv
<1>10. \A h \in Hosts :
         /\ joined'[h] => bound'[h] = "21/receive"
         /\ \A k \in 1 .. Len(queue'[h]) :
              /\ queue'[h][k] = "21/send" => bound'[h] = "21/receive"
              /\ queue'[h][k] \notin {"20/send", "21/send"} =>
                   queue'[h][k] \in DOMAIN place' /\ place'[queue'[h][k]] = h
  <2>1. ASSUME NEW h \in Hosts, h # host
        PROVE  queue'[h] = queue[h]
    BY <1>1, <1>3, <2>1
  <2>2. queue'[host] = Tail(q)
    BY <1>1, <1>3
  <2>3. \A k \in 1 .. Len(Tail(q)) : k + 1 \in 1 .. Len(q) /\ Tail(q)[k] = q[k + 1]
    BY <1>3, <1>5
  <2>. QED  BY <1>1, <1>4, <2>1, <2>2, <2>3 DEF DgramInv
<1>. QED  BY <1>1, <1>7, <1>8, <1>9, <1>10 DEF DgramInv

\* What a sender puts into queues arrives where somebody is bound: the group's
\* datagrams where the membership is, the others on the sender's own host.
LEMMA DeliverKeepsDgrams ==
  ASSUME DgramInv, NEW p \in DOMAIN place, p \in Dgram!Senders, Dgram!Deliver(p),
         NEW call \in {"connect", "answer", "exit0"}, Dgram!Go(p, call),
         told' \subseteq told \cup {"14/client"}, UNCHANGED <<place, bound, joined, heard>>
  PROVE  DgramInv'
<1>1. PICK H \in SUBSET {h \in Hosts : Dgram!Reaches(p, h)} :
        queue' = [h \in Hosts |-> IF h \in H THEN Append(queue[h], p) ELSE queue[h]]
  BY DEF Dgram!Deliver
<1>2. /\ doing' = [doing EXCEPT ![p] = call] /\ Dgram!TypesOK
      /\ UNCHANGED <<place, bound, joined, heard>>
  BY DEF Dgram!Go, DgramInv
<1>3. ASSUME NEW h \in Hosts
      PROVE  /\ queue[h] \in Seq(Dgram!Senders) /\ Len(queue[h]) \in Nat
             /\ Append(queue[h], p) \in Seq(Dgram!Senders)
             /\ Len(Append(queue[h], p)) = Len(queue[h]) + 1
             /\ \A k \in 1 .. Len(queue[h]) : Append(queue[h], p)[k] = queue[h][k]
             /\ Append(queue[h], p)[Len(queue[h]) + 1] = p
  BY <1>2, AppendProperties, LenProperties DEF Dgram!TypesOK
<1>4. Dgram!TypesOK'
  <2>1. queue' \in [Hosts -> Seq(Dgram!Senders)]
    BY <1>1, <1>3
  <2>2. told' \subseteq Dgram!Askers
    BY <1>2 DEF Dgram!TypesOK, Dgram!Askers
  <2>. QED  BY <1>2, <2>1, <2>2 DEF Dgram!TypesOK
<1>5. Dgram!HeardRight'
  BY <1>2 DEF Dgram!HeardRight, DgramInv, Dgram!TypesOK
<1>6. \A q \in DOMAIN place' :
        /\ doing'[q] \in {"bind", "join", "receive", "close"} => q \in Dgram!Receivers
        /\ doing'[q] \in {"send", "connect", "again", "answer"} => q \in Dgram!Senders
        /\ doing'[q] \in {"join", "receive", "close"} => bound'[place'[q]] = q
        /\ doing'[q] = "join" => q = "21/receive"
        /\ doing'[q] \in {"bind", "join", "receive"} /\ q # "14/server" => heard'[q] = << >>
  BY <1>2 DEF DgramInv, Dgram!TypesOK
<1>7. ASSUME NEW h \in Hosts
      PROVE  /\ joined'[h] => bound'[h] = "21/receive"
             /\ \A k \in 1 .. Len(queue'[h]) :
                  /\ queue'[h][k] = "21/send" => bound'[h] = "21/receive"
                  /\ queue'[h][k] \notin {"20/send", "21/send"} =>
                       queue'[h][k] \in DOMAIN place' /\ place'[queue'[h][k]] = h
  <2>1. CASE h \notin H
    BY <1>1, <1>2, <2>1 DEF DgramInv
  <2>2. CASE h \in H
    <3>1. Dgram!Reaches(p, h) /\ queue'[h] = Append(queue[h], p)
      BY <1>1, <2>2
    <3>2. /\ p = "21/send" => bound[h] = "21/receive"
          /\ p \notin {"20/send", "21/send"} => place[p] = h
      BY <3>1 DEF Dgram!Reaches, DgramInv
    <3>. QED  BY <1>2, <1>3, <3>1, <3>2 DEF DgramInv
  <2>. QED  BY <2>1, <2>2
<1>. QED  BY <1>2, <1>4, <1>5, <1>6, <1>7 DEF DgramInv

LEMMA NextDgram == DgramInv /\ [Dgram!Next]_dgramVars => DgramInv'
<1>. SUFFICES ASSUME DgramInv, [Dgram!Next]_dgramVars PROVE DgramInv'
  OBVIOUS
<1>1. CASE UNCHANGED dgramVars
  BY <1>1 DEF dgramVars, DgramInv, Dgram!TypesOK, Dgram!HeardRight
<1>2. ASSUME NEW p \in DOMAIN place, Dgram!Step(p) PROVE DgramInv'
  <2>1. CASE Dgram!Binds(p) \/ Dgram!Joins(p) \/ Dgram!Receives(p) \/ Dgram!Loops(p)
    BY <2>1, BindsKeeps, JoinsKeeps, HearsKeeps
  <2>2. CASE Dgram!Ends(p)
    BY <2>2, CloseKeepsDgrams DEF Dgram!Ends
  <2>3. CASE Dgram!NoSocket(p)
    BY <2>3, GoKeeps DEF Dgram!NoSocket
  <2>4. CASE Dgram!Sends(p)
    <3>1. p \in Dgram!Senders
      BY <2>4 DEF Dgram!Sends, DgramInv
    <3>2. told' \subseteq told \cup {"14/client"}
      BY <2>4 DEF Dgram!Sends, Dgram!Told
    <3>3. Dgram!AfterSend(p) \in {"connect", "answer", "exit0"}
      BY DEF Dgram!AfterSend
    <3>. QED  BY <2>4, <3>1, <3>2, <3>3, DeliverKeepsDgrams DEF Dgram!Sends
  <2>5. CASE Dgram!SendsAgain(p)
    <3>1. p \in Dgram!Senders
      BY <2>5 DEF Dgram!SendsAgain, DgramInv
    <3>2. told' \subseteq told \cup {"14/client"}
      BY <2>5 DEF Dgram!SendsAgain, Dgram!Told
    <3>. QED  BY <2>5, <3>1, <3>2, DeliverKeepsDgrams DEF Dgram!SendsAgain
  <2>6. CASE Dgram!SendFails(p)
    <3>1. PICK call \in {"connect", "answer", "exit1"} :
            Dgram!Go(p, call)
      BY <2>6 DEF Dgram!SendFails, Dgram!AfterSend, Dgram!Askers
    <3>2. p \in Dgram!Senders
      BY <2>6 DEF Dgram!SendFails, DgramInv
    <3>. QED  BY <2>6, <3>1, <3>2, GoKeeps DEF Dgram!SendFails
  <2>7. CASE Dgram!Connects(p)
    <3>1. p \in Dgram!Senders
      BY <2>7 DEF Dgram!Connects, DgramInv
    <3>. QED  BY <2>7, <3>1, GoKeeps DEF Dgram!Connects
  <2>8. CASE Dgram!GetsError(p)
    <3>1. p = "14/client" /\ told' \subseteq told
      BY <2>8 DEF Dgram!GetsError, DgramInv
    <3>. QED  BY <2>8, <3>1, GoKeeps DEF Dgram!GetsError
  <2>. QED  BY <1>2, <2>1, <2>2, <2>3, <2>4, <2>5, <2>6, <2>7, <2>8 DEF Dgram!Step
<1>. QED  BY <1>1, <1>2 DEF Dgram!Next

-----------------------------------------------------------------------------
(* The programs together.                                                  *)

\* A step of one program is a stutter of all the others.
LEMMA StepOfOne ==
  [AllNext]_allVars =>
    /\ [Dgram!Next]_dgramVars /\ [Timed!Next]_timeoutVars /\ [Route!Next]_routeVars
    /\ [Arp!Next]_arpVars /\ [Demon!Next]_daemonVars /\ [Threads!Next]_threadVars
    /\ [Reap!Next]_reapVars
<1>. SUFFICES ASSUME [AllNext]_allVars
              PROVE  /\ [Dgram!Next]_dgramVars /\ [Timed!Next]_timeoutVars
                     /\ [Route!Next]_routeVars /\ [Arp!Next]_arpVars /\ [Demon!Next]_daemonVars
                     /\ [Threads!Next]_threadVars /\ [Reap!Next]_reapVars
  OBVIOUS
<1>1. CASE UNCHANGED allVars
  BY <1>1 DEF allVars
<1>2. CASE AllNext
  BY <1>2 DEF AllNext, Runs
<1>. QED  BY <1>1, <1>2

\* Whatever programs share the port, a receiver of one datagram takes no
\* other and only what was meant for it: what lies in a queue reached the
\* socket that is bound now.
THEOREM DatagramsSafety == AllSpec => []DatagramsHeard
<1>1. AllInit => DgramInv
  BY InitDgram DEF AllInit
<1>2. DgramInv /\ [AllNext]_allVars => DgramInv'
  BY NextDgram, StepOfOne
<1>3. DgramInv => DatagramsHeard
  BY DEF DgramInv, DatagramsHeard
<1>. QED  BY <1>1, <1>2, <1>3, PTL DEF AllSpec

\* Success is printed only with a peer, or after an error that SO_ERROR no
\* longer knew of, whatever the order of the clock, the handshake and the peer;
\* and the route query handles each message it has received, and no other.
THEOREM ReportsSafety == AllSpec => []ReportsTrue
<1>1. AllInit => TimedInv /\ RouteInv
  BY InitTimed, InitRoute DEF AllInit
<1>2. TimedInv /\ RouteInv /\ [AllNext]_allVars => TimedInv' /\ RouteInv'
  BY NextTimed, NextRoute, StepOfOne
<1>3. TimedInv /\ RouteInv => ReportsTrue
  BY DEF TimedInv, RouteInv, ReportsTrue
<1>. QED  BY <1>1, <1>2, <1>3, PTL DEF AllSpec

\* What is left behind when a program has ended, or been detached, is what it
\* should be, whichever of its calls fail.
THEOREM LeftSafety == AllSpec => []LeftClean
<1>. DEFINE LeftInv == ArpInv /\ DaemonInv /\ ThreadInv /\ ReapInv
<1>1. AllInit => LeftInv
  BY InitArp, InitDaemon, InitThreads, InitReap DEF AllInit
<1>2. LeftInv /\ [AllNext]_allVars => LeftInv'
  BY NextArp, NextDaemon, NextThreads, NextReap, StepOfOne
<1>3. LeftInv => LeftClean
  BY DEF ArpInv, DaemonInv, ThreadInv, ReapInv, LeftClean
<1>. QED  BY <1>1, <1>2, <1>3, PTL DEF AllSpec
=============================================================================
