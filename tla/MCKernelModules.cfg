SPECIFICATION MCSpec
CONSTANTS
  MaxInterrupts = 3
  Mounts = {m1, m2, m3}
  number = 4
INVARIANTS
  IrqTypeOK
  NothingAfterUnload
  TypeOK
  FreedExactly
  OwnObject
PROPERTY EveryInterruptServed
CHECK_DEADLOCK FALSE
