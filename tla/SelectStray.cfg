SPECIFICATION Spec
CONSTANTS
  Conns = {c1, c2, c3}
  c1 = c1
  c2 = c2
  c3 = c3
  NoConn = NoConn
  Backlog = 2
  MaxBytes = 1
  Window = 1
  Abortive = FALSE
  Evicts = FALSE
  FD_SETSIZE = 5
  NOFILE = 5
  listenfd = 1
  BUF = 1
  AcceptErrors = TRUE
  StrayBit = 3
INVARIANTS AcceptNeverBlocks
CHECK_DEADLOCK FALSE
