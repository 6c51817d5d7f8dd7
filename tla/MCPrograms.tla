------------------------------ MODULE MCPrograms ------------------------------
(***************************************************************************)
(* The programs of datagrams, time limits, processes and threads for TLC:  *)
(* one run checks UdpEcho and, side by side with it, the smaller programs. *)
(* A behaviour runs one of them, and the variables of the others stay at   *)
(* their initial values.                                                   *)
(***************************************************************************)
EXTENDS UdpEcho

CONSTANTS Hosts, Together, Limit

ASSUME ProgramsAssumption == Limit \in Nat \ {0}

VARIABLES program,
  place, doing, bound, joined, queue, told, heard,
  limited, at, link, soError, data, received, timer, armed, verdict,
  queryAt, queued, left, arrived, handled,
  arpAt, arpFd, entry, refused,
  process, session, fds, opened, broken,
  mainAt, threadAt, heap, sum,
  parentAt, child

Dgram == INSTANCE Datagrams
Timed == INSTANCE Timeouts
Route == INSTANCE RouteDump
Arp == INSTANCE ArpEntry
Demon == INSTANCE Daemon
Threads == INSTANCE ThreadSum
Reap == INSTANCE ReapOne

dgramVars == <<place, doing, bound, joined, queue, told, heard>>
timeoutVars == <<limited, at, link, soError, data, received, timer, armed, verdict>>
routeVars == <<queryAt, queued, left, arrived, handled>>
arpVars == <<arpAt, arpFd, entry, refused>>
daemonVars == <<process, session, fds, opened, broken>>
threadVars == <<mainAt, threadAt, heap, sum>>
reapVars == <<parentAt, child>>
allVars == <<program, vars, dgramVars, timeoutVars, routeVars, arpVars, daemonVars, threadVars, reapVars>>

AllInit ==
  /\ program \in {"udp", "dgram", "timed", "route", "arp", "daemon", "threads", "reap"}
  /\ Init /\ (program # "udp" => chapter = 6)
  /\ Timed!Init /\ (program # "timed" => limited = "timeout")
  /\ Route!Init /\ Demon!Init /\ Threads!Init /\ Reap!Init
  /\ Arp!Init /\ (program # "arp" => entry = "none")
  /\ Dgram!Init /\ (program # "dgram" => place = [p \in {"22/s"} |-> CHOOSE h \in Hosts : TRUE])

Runs(x) ==
  /\ program = x /\ UNCHANGED program
  /\ (x # "udp" => UNCHANGED vars)
  /\ (x # "dgram" => UNCHANGED dgramVars)
  /\ (x # "timed" => UNCHANGED timeoutVars)
  /\ (x # "route" => UNCHANGED routeVars)
  /\ (x # "arp" => UNCHANGED arpVars)
  /\ (x # "daemon" => UNCHANGED daemonVars)
  /\ (x # "threads" => UNCHANGED threadVars)
  /\ (x # "reap" => UNCHANGED reapVars)

AllNext ==
  \/ Runs("udp") /\ Next
  \/ Runs("dgram") /\ Dgram!Next
  \/ Runs("timed") /\ Timed!Next
  \/ Runs("route") /\ Route!Next
  \/ Runs("arp") /\ Arp!Next
  \/ Runs("daemon") /\ Demon!Next
  \/ Runs("threads") /\ Threads!Next
  \/ Runs("reap") /\ Reap!Next

\* The fairness of each specification; in the initial state UdpEcho has no
\* step that must be taken, and its own fairness asks nothing of the others.
AllSpec ==
  /\ AllInit /\ [][AllNext]_allVars
  /\ Fairness
  /\ WF_dgramVars(program = "dgram" /\ Dgram!Next)
  /\ WF_timeoutVars(program = "timed" /\ Timed!ProgramStep)
  /\ WF_timeoutVars(program = "timed" /\ Timed!Tick)
  /\ WF_daemonVars(program = "daemon" /\ Demon!Step)

-----------------------------------------------------------------------------
(* The properties of the smaller programs, put together by what they are   *)
(* about; each part is stated and explained in its own module.             *)

\* Who hears what on the one port: a receiver of one datagram takes no other,
\* and only what was meant for it (20/broadcast_receive.c:33,
\* 21/multi-receive.c:35).
DatagramsHeard == Dgram!TypesOK /\ Dgram!HeardRight

\* What the programs report on is so: success only with a peer, unless an error
\* was lost before SO_ERROR was asked, and messages only once they were
\* received, and all of them (14/timeout.c:28, 14/connect_timeout.c:53,
\* 18/my_route.c:107).
ReportsTrue ==
  /\ Timed!TypesOK /\ Timed!SuccessMeansPeer
  /\ Route!TypesOK /\ Route!AllHandled

\* What the programs leave behind: no entry and no socket, nothing of the
\* terminal in the daemon, each heap block freed once, and no running child1
\* (17/arp.c:107, 13/daemon_init.c:37, 26/demo1.c:72, 05/waitpid.c:29).
LeftClean ==
  /\ Arp!TypesOK /\ Arp!ArpUndone
  /\ Demon!TypesOK /\ Demon!Detached
  /\ Threads!TypesOK /\ Threads!BlocksHandedOver
  /\ Reap!TypesOK /\ Reap!ParentOutlives

\* The programs come to their end: a receiver a datagram has reached, the time
\* limits whatever the peer does, and the way to the daemon unless something
\* fails (20/broadcast_receive.c:42, 14/timeout.c:22, 13/daemon_init.c:15).
ProgramsEnd ==
  /\ Dgram!OneShot
  /\ program = "timed" => Timed!VerdictGiven
  /\ Demon!Started /\ Demon!Survives
=============================================================================
