SPECIFICATION AllSpec
CONSTANTS
  Clients = {c1, c2}
  c1 = c1
  c2 = c2
  Lines = 2
  MaxLine = 2
  SendLine = 1
  Buffer = 3
  Doubling = {c1}
  Hosts = {h1, h2}
  Together = 3
  Limit = 2
INVARIANTS TypeOK AnswersMatch DatagramsHeard ReportsTrue LeftClean
PROPERTIES Answered ProgramsEnd
CHECK_DEADLOCK FALSE
