SPECIFICATION Spec
CONSTANTS
  Natives = {TRUE}
  Kinds = {"project"}
  Modes <- MCModes
  Replies = {"shell"}
  MaxTurns = 1
  StagnantTurns = 1
  ClosingLimit = 1
  MaxPhases = 1
  MaxFaults = 1
INVARIANT DecisionDelivered
