SPECIFICATION Spec
CONSTANTS
  Readers = {r1}
  Room = 3
  MAX = 24
  ULong = 512
  Lens = {3, 20}
  MaxWrites = 2
INVARIANT RefusesOverflow
CHECK_DEADLOCK FALSE
