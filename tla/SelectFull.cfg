SPECIFICATION FinishingSpec
CONSTANTS
  Conns = {c1, c2, c3}
  c1 = c1
  c2 = c2
  c3 = c3
  NoConn = NoConn
  Backlog = 2
  MaxBytes = 1
  Window = 1
  Abortive = FALSE
  Evicts = FALSE
  FD_SETSIZE = 4
  NOFILE = 4
  listenfd = 1
  BUF = 1
  AcceptErrors = FALSE
  StrayBit = 3
INVARIANTS AcceptNeverBlocks
PROPERTIES EveryoneServed
CHECK_DEADLOCK FALSE
