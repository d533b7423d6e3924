SPECIFICATION Spec
CONSTANTS
  Natives = {FALSE}
  Kinds = {"research"}
  Modes <- MCModes
  Replies = {"answer"}
  MaxTurns = 2
  StagnantTurns = 2
  ClosingLimit = 1
  MaxPhases = 1
  MaxFaults = 0
INVARIANT Driveable
