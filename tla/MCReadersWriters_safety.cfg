SPECIFICATION Spec
CONSTANTS
  Writers = {w1, w2}
  Readers = {r1, r2, r3}
  SEMVMX = 5
  SEMAEM = 1
  MaxKills = 5
SYMMETRY Children
INVARIANTS
  WritersExclude
  SemaphoresExact
PROPERTY ReaderStartsWithoutWriter
CHECK_DEADLOCK FALSE
