SPECIFICATION Spec
CONSTANTS
  Input = 2
  BUF = 2
  SBUF = 2
  UpBuf = 1
  SndBuf = 1
  RcvBuf = 3
  StdinWritable = FALSE
  Crashes = FALSE
INVARIANTS AllShown
CHECK_DEADLOCK FALSE
