SPECIFICATION Spec
CONSTANTS
  Clients = {c1, c2, c3}
  CLIENT_N = 2
  Messages = 2
  MsgSize = 2
  BUF_SIZE = 3
  SLEEP = 2
  TIMEOUT = 3
  MaxLag = 2
INVARIANTS
  TypeOK
  NeverBlocks
  SlotsAreOpen
  FullOnlyWhenLate
PROPERTIES
  TimeoutOnlyWhenAlone
  NothingLost
  EventuallyEnds
CHECK_DEADLOCK FALSE
