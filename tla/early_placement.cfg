SPECIFICATION Spec
CONSTANTS
  d1 = d1
  q1 = q1
  q2 = q2
  w1 = w1
  none = none
  Direct = {d1}
  Queueable = {q1, q2}
  Writes = {}
  NoOne = none
  Modes = {"follow_up"}
  WriteKinds = {}
  MaxEntries = 2
  MaxBranches = 0
  MaxText = 1
  MaxStops = 0
PROPERTIES
  PlacedWhenIdle
