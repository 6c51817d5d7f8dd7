SPECIFICATION Spec
CONSTANTS
  Conns = {c1, c2}
  c1 = c1
  c2 = c2
  NoConn = NoConn
  Backlog = 2
  MaxBytes = 3
  Window = 1
  Abortive = TRUE
  Evicts = FALSE
  BUF = 2
  Builds = {"bsd", "sysv"}
  AcceptErrors = FALSE
  ForkErrors = FALSE
  Readers = {c1, c2}
INVARIANTS TypeOK ParentSurvives
PROPERTIES ImplementsEcho
CHECK_DEADLOCK FALSE
