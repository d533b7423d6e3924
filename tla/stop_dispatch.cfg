SPECIFICATION FairSpec
CONSTANTS
  a = a
  b = b
  c = c
  Tasks = {a}
  NoTask = NoTask
  Effects = {}
  Pids = {1, 2}
  FirstPid = 1
  PidReuse = FALSE
  OwnerChoice <- SoloOwners
  WaitLists <- NoWaits
  JoinPolicies = {"allSettled"}
  Abandons = {FALSE}
  OpSteps = {"busy"}
  Parks = {}
  Stops = {a}
  Faults = {}
  MaxAttempt = 2
  MaxEpoch = 1
PROPERTY StopTakesEffect
CHECK_DEADLOCK FALSE
