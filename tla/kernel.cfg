SPECIFICATION Spec
CONSTANTS
  Natives = {TRUE, FALSE}
  Kinds = {"project"}
  Modes <- MCModes
  Replies = {"read", "mixed", "shell", "done", "bad", "cut"}
  MaxTurns = 2
  StagnantTurns = 2
  ClosingLimit = 1
  MaxPhases = 1
  MaxFaults = 1
INVARIANTS
  TypeOK
  DeliveredOnce
  UnsafeOnce
  ReceiptsHonest
  DeliveryBacked
  SettledClean
  DoneSettles
  NoDeadEnd
PROPERTIES
  NoSpin
