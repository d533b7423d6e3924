SPECIFICATION Spec
CONSTANTS
  a = a
  b = b
  c = c
  Tasks = {a, b, c}
  NoTask = NoTask
  Effects = {}
  Pids = {1, 2}
  FirstPid = 1
  PidReuse = FALSE
  OwnerChoice <- ChainOwners
  WaitLists <- PeerWaits
  JoinPolicies = {"allSettled", "failFast"}
  Abandons = {FALSE}
  OpSteps = {"busy"}
  Parks = {}
  Stops = {a, b}
  Faults = {}
  MaxAttempt = 1
  MaxEpoch = 2
INVARIANTS NoWaitCycle JoinsRunnable HeldPublishable
PROPERTIES ImplementsLifecycle StopReachesSubtree BarrierFromBelow JoinSound
CHECK_DEADLOCK FALSE
