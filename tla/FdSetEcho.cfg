SPECIFICATION Spec
CONSTANTS
  Conns = {c1, c2}
  c1 = c1
  c2 = c2
  NoConn = NoConn
  Backlog = 2
  MaxBytes = 3
  Window = 2
  Abortive = FALSE
  Evicts = FALSE
  FD_SETSIZE = 5
  NOFILE = 4
  listen_fd = 1
  BUFFER_SIZE = 2
  AcceptErrors = FALSE
  StrayBit = 4
INVARIANTS TypeOK
PROPERTIES ImplementsEcho
CHECK_DEADLOCK FALSE
