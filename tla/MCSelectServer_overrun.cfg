SPECIFICATION Spec
CONSTANTS
  Clients = {c1, c2}
  CLIENT_N = 2
  Messages = 2
  MsgSize = 2
  BUF_SIZE = 3
  SLEEP = 2
  TIMEOUT = 3
  MaxLag = 2
INVARIANT TerminatorInside
CHECK_DEADLOCK FALSE
