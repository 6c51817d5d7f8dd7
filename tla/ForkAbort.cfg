SPECIFICATION Spec
CONSTANTS
  Conns = {c1, c2}
  c1 = c1
  c2 = c2
  NoConn = NoConn
  Backlog = 2
  MaxBytes = 2
  Window = 1
  Abortive = TRUE
  Evicts = FALSE
  BUF = 2
  Builds = {"bsd", "sysv"}
  AcceptErrors = TRUE
  ForkErrors = TRUE
  Readers = {c1}
INVARIANTS HoldersAgree EchoFaithful
PROPERTIES ZombiesReaped ReadersServed
CHECK_DEADLOCK FALSE
