SPECIFICATION FairSpec
CONSTANTS
  Producers = {p1, p2}
  Consumers = {c1, c2}
  QUEUE_SIZE = 2
  Letters = 3
  SEMVMX = 3
  SEMAEM = 2
  MaxKills = 1
INVARIANTS
  MutualExclusion
  DeathsTakeNothing
  InsideRing
  RemovedWhenQuiet
PROPERTIES
  ImplementsBuffer
  EveryLetterPrinted
  EventuallyRemoved
CHECK_DEADLOCK FALSE
