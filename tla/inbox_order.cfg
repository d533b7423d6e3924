SPECIFICATION FairSpec
CONSTANTS
  d1 = d1
  q1 = q1
  q2 = q2
  w1 = w1
  none = none
  Direct = {d1}
  Queueable = {q1, q2}
  Writes = {}
  NoOne = none
  Modes = {"steer", "follow_up"}
  WriteKinds = {}
  MaxEntries = 1
  MaxBranches = 0
  MaxText = 1
  MaxStops = 1
PROPERTIES
  InOrder
  QueuedPlaced
