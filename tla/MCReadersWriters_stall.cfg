SPECIFICATION Spec
CONSTANTS
  Writers = {w1, w2}
  Readers = {r1, r2, r3}
  SEMVMX = 5
  SEMAEM = 1
  MaxKills = 0
INVARIANT NotAllAsleep
CHECK_DEADLOCK FALSE
