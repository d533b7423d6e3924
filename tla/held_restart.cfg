SPECIFICATION PassSpec
CONSTANTS
  a = a
  b = b
  c = c
  Tasks = {a, b}
  NoTask = NoTask
  Effects = {}
  Pids = {1, 2}
  FirstPid = 1
  PidReuse = FALSE
  OwnerChoice <- PairOwners
  WaitLists <- PairWaits
  JoinPolicies = {"failFast"}
  Abandons = {FALSE}
  OpSteps = {"busy"}
  Parks = {}
  Stops = {}
  Faults = {}
  MaxAttempt = 2
  MaxEpoch = 2
PROPERTY HeldAnswerPublished
CHECK_DEADLOCK FALSE
