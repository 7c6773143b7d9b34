SPECIFICATION Spec
CONSTANTS
  Readers = {r1, r2}
  MAX = 18
  ULong = 512
  Room = 3
  Lens = {0, 1, 5}
  MaxWrites = 3
INVARIANTS
  TypeOK
  CookiesEnd
  ReadsEndInPot
  MessagesShown
CHECK_DEADLOCK FALSE
