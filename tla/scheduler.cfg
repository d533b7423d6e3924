SPECIFICATION FairSpec
CONSTANTS
  p = p
  q = q
  Tasks = {p, q}
  NoTask = NoTask
  Needs <- PairNeeds
  LoopLimit = 1
  EagerResume = FALSE
  MaxFaults = 1
INVARIANTS TypeOK NoLostWakeup OneKeeper
PROPERTIES PendingDispatched
CHECK_DEADLOCK FALSE
