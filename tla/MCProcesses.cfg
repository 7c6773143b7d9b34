SPECIFICATION Spec
CONSTANTS
  MaxSignals = 2
  MaxKills = 2
INVARIANTS
  TypeOK
  BothMessages
PROPERTIES
  ParentEnds
  ChildrenEnd
  CtrlCReported
CHECK_DEADLOCK FALSE
