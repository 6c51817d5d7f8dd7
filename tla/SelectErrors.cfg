SPECIFICATION Spec
CONSTANTS
  Conns = {c1, c2, c3}
  c1 = c1
  c2 = c2
  c3 = c3
  NoConn = NoConn
  Backlog = 2
  MaxBytes = 2
  Window = 1
  Abortive = TRUE
  Evicts = TRUE
  FD_SETSIZE = 4
  NOFILE = 6
  listenfd = 1
  BUF = 2
  AcceptErrors = TRUE
  StrayBit = 3
SYMMETRY Symmetry
INVARIANTS TableAgrees FdsAgree NreadyExact ReadNeverBlocks EchoFaithful
PROPERTIES ClosesWhenDone
CHECK_DEADLOCK FALSE
