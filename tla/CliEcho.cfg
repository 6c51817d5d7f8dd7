SPECIFICATION AllSpec
CONSTANTS
  Input = 8
  BUF = 3
  SBUF = 2
  UpBuf = 1
  SndBuf = 1
  RcvBuf = 4
  StdinWritable = TRUE
  Crashes = TRUE
  Requests = 2
  Entries = 3
  Said = 3
  Callers = {u1, u2}
  CallerLines = 2
  Watchers = {w1, w2}
INVARIANTS TypeOK NeverStuck AllShown AnswersTaken EndMeansDone
PROPERTIES Delivered EofEnds Notified AnswersCome ProcessesEnd
CHECK_DEADLOCK FALSE
