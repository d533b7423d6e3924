SPECIFICATION FairSpec
CONSTANTS
  a = a
  b = b
  c = c
  Tasks = {a}
  NoTask = NoTask
  Effects = {e1}
  Pids = {1, 2}
  FirstPid = 1
  PidReuse = FALSE
  OwnerChoice <- SoloOwners
  WaitLists <- NoWaits
  JoinPolicies = {"allSettled"}
  Abandons = {TRUE, FALSE}
  OpSteps = {"open", "busy", "closed"}
  Parks = {TRUE, FALSE}
  Stops = {a}
  Faults = {a}
  MaxAttempt = 3
  MaxEpoch = 2
INVARIANTS TypeOK OutcomeAgrees EffectsAgree AttemptOwnership NoOrphanRun
PROPERTIES EffectsFenced CancelBarrier ImplementsLifecycle StopCloses
CHECK_DEADLOCK FALSE
