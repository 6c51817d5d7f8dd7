------------------------------ MODULE Timeouts ------------------------------
(***************************************************************************)
(* The time limits of src/14: timeout.c, where SIGALRM ends a recv(), and  *)
(* connect_timeout.c, where a connect() that does not block is waited for  *)
(* in select().  Time passes in ticks.                                     *)
(***************************************************************************)
EXTENDS Naturals

CONSTANT Limit   \* the 5 seconds, in ticks

VARIABLES
  limited,   \* which of the two programs runs
  at,        \* its next system call
  link,      \* the connection: none, pending, up or failed
  soError,   \* whether the socket holds an error connect() did not return
  data,      \* what the peer has sent: nothing, an answer, its end or a reset
  received,  \* what recv() returned
  timer,     \* ticks left, of the alarm or of select()
  armed,     \* whether that timer runs
  verdict    \* what the program found

timeoutVars == <<limited, at, link, soError, data, received, timer, armed, verdict>>

TypesOK ==
  /\ limited \in {"timeout", "connect_timeout"}
  /\ at \in {"connect", "alarm", "recv", "cancel", "select", "getsockopt", "ended"}
  /\ link \in {"none", "pending", "up", "failed"}
  /\ soError \in BOOLEAN /\ armed \in BOOLEAN
  /\ data \in {"none", "answer", "end", "error"} /\ received \in {"none", "answer", "end", "error"}
  /\ timer \in 0 .. Limit
  /\ verdict \in {"none", "success", "timeout", "failure"}

Init ==
  /\ limited \in {"timeout", "connect_timeout"}
  /\ at = "connect" /\ link = "none" /\ soError = FALSE
  /\ data = "none" /\ received = "none"
  /\ timer = Limit /\ armed = FALSE
  /\ verdict = "none"

End(v) == at' = "ended" /\ verdict' = v /\ armed' = FALSE

-----------------------------------------------------------------------------
(* timeout.c.                                                              *)

\* connect() blocks, before any alarm is set, until the kernel gives up; its
\* result is not looked at.
Connects ==
  /\ limited = "timeout" /\ at = "connect"
  /\ link' \in {"up", "failed"}
  /\ at' = "alarm"
  /\ UNCHANGED <<limited, soError, data, received, timer, armed, verdict>>

SetsAlarm ==
  /\ at = "alarm"
  /\ armed' = TRUE /\ timer' = Limit
  /\ at' = "recv"
  /\ UNCHANGED <<limited, link, soError, data, received, verdict>>

Receives ==
  /\ at = "recv"
  /\ \/ link = "failed" /\ received' = "error"
     \/ link = "up" /\ data # "none" /\ received' = data
  /\ at' = "cancel"
  /\ UNCHANGED <<limited, link, soError, data, timer, armed, verdict>>

\* Mutant: recv_len is tested the wrong way round.
TakesError ==
  /\ at = "cancel"
  /\ End("success")
  /\ UNCHANGED <<limited, link, soError, data, received, timer>>

\* alarm(0), and the end of the stream counts as an answer.
CancelsAlarm ==
  /\ at = "cancel"
  /\ End(IF received = "error" THEN "failure" ELSE "success")
  /\ UNCHANGED <<limited, link, soError, data, received, timer>>

\* Mutant: connect_alarm() returns, and recv() is restarted.
HandlerReturns ==
  /\ limited = "timeout" /\ armed /\ timer = 0
  /\ armed' = FALSE
  /\ UNCHANGED <<limited, at, link, soError, data, received, timer, verdict>>

\* connect_alarm() exits, wherever the program is: also when recv() has
\* returned and alarm(0) is still to come.
AlarmRings ==
  /\ limited = "timeout" /\ armed /\ timer = 0
  /\ End("timeout")
  /\ UNCHANGED <<limited, link, soError, data, received, timer>>

-----------------------------------------------------------------------------
(* connect_timeout.c.                                                      *)

\* connect() returns at once; only EINPROGRESS is treated, so after an error
\* it has reported, and cleared, the program goes on.
StartsConnect ==
  /\ limited = "connect_timeout" /\ at = "connect"
  /\ link' \in {"pending", "up", "failed"}
  /\ armed' = TRUE
  /\ at' = "select"
  /\ UNCHANGED <<limited, soError, data, received, timer, verdict>>

\* A socket that is connected, or that has failed, is writable.
SelectReturns ==
  /\ at = "select" /\ link # "pending"
  /\ at' = "getsockopt"
  /\ UNCHANGED <<limited, link, soError, data, received, timer, armed, verdict>>

SelectTimesOut ==
  /\ at = "select" /\ link = "pending" /\ timer = 0
  /\ End("timeout")
  /\ UNCHANGED <<limited, link, soError, data, received, timer>>

SelectFails ==
  /\ at = "select"
  /\ End("failure")
  /\ UNCHANGED <<limited, link, soError, data, received, timer>>

GetsError ==
  /\ at = "getsockopt"
  /\ End(IF soError THEN "failure" ELSE "success")
  /\ UNCHANGED <<limited, link, soError, data, received, timer>>

-----------------------------------------------------------------------------
(* The clock and the peer.                                                 *)

Tick ==
  /\ armed /\ timer > 0
  /\ timer' = timer - 1
  /\ UNCHANGED <<limited, at, link, soError, data, received, armed, verdict>>

HandshakeEnds ==
  /\ link = "pending"
  /\ \/ link' = "up" /\ UNCHANGED soError
     \/ link' = "failed" /\ soError' = TRUE
  /\ UNCHANGED <<limited, at, data, received, timer, armed, verdict>>

PeerSends ==
  /\ link = "up" /\ data = "none"
  /\ data' \in {"answer", "end", "error"}
  /\ UNCHANGED <<limited, at, link, soError, received, timer, armed, verdict>>

ProgramStep ==
  \/ Connects \/ SetsAlarm \/ Receives \/ CancelsAlarm \/ AlarmRings
  \/ StartsConnect \/ SelectReturns \/ SelectTimesOut \/ GetsError

Next == ProgramStep \/ SelectFails \/ Tick \/ HandshakeEnds \/ PeerSends

\* Time passes and the program runs; the peer owes nothing.
Spec == Init /\ [][Next]_timeoutVars /\ WF_timeoutVars(ProgramStep) /\ WF_timeoutVars(Tick)

-----------------------------------------------------------------------------
(* Properties.                                                             *)

\* "connect success" is printed only when there is a connection, and by
\* timeout.c when the peer was heard; the one exception is a connect() that
\* failed at once, whose error is gone when SO_ERROR is read.
SuccessMeansPeer ==
  verdict = "success" =>
    \/ link = "up" /\ (limited = "timeout" => data \in {"answer", "end"})
    \/ limited = "connect_timeout" /\ link = "failed" /\ ~soError

\* A silent peer keeps neither program waiting for ever.
VerdictGiven == <>(verdict # "none")
=============================================================================
