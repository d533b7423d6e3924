SPECIFICATION FairSpec
CONSTANTS
  Natives = {TRUE, FALSE}
  Kinds = {"project", "research"}
  Modes <- MCModes
  Replies = {"shell", "answer", "ask"}
  MaxTurns = 1
  StagnantTurns = 2
  ClosingLimit = 1
  MaxPhases = 2
  MaxFaults = 1
PROPERTIES
  Ends
  CancelEnds
