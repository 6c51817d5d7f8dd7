SPECIFICATION Spec
CONSTANTS
  Conns = {c1, c2, c3}
  c1 = c1
  c2 = c2
  c3 = c3
  NoConn = NoConn
  Backlog = 2
  MaxBytes = 2
  Window = 1
  Abortive = TRUE
  Evicts = FALSE
  FD_SETSIZE = 4
  NOFILE = 5
  listen_fd = 1
  BUFFER_SIZE = 2
  AcceptErrors = TRUE
  StrayBit = 3
SYMMETRY Symmetry
INVARIANTS SetsAgree ReadNeverBlocks EchoFaithful
CHECK_DEADLOCK FALSE
