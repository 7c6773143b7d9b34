SPECIFICATION Spec
CONSTANTS
  N = 6
  BufSize = 4
INVARIANTS
  TypeOK
  LettersPrinted
  LastCloseWins
CHECK_DEADLOCK FALSE
