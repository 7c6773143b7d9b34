SPECIFICATION Spec
CONSTANTS
  Daemons = {d1, d2, d3}
INVARIANTS
  OneDaemon
  FileNamesNoOther
PROPERTIES
  IdStaysInFile
  NeverWaits
  TermEnds
CHECK_DEADLOCK FALSE
