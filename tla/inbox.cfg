SPECIFICATION Spec
CONSTANTS
  d1 = d1
  q1 = q1
  q2 = q2
  w1 = w1
  none = none
  Direct = {d1}
  Queueable = {q1}
  Writes = {w1}
  NoOne = none
  Modes = {"follow_up"}
  WriteKinds = {"shown", "target"}
  MaxEntries = 3
  MaxBranches = 1
  MaxText = 2
  MaxStops = 1
INVARIANTS
  TypeOK
  Accounted
  Anchored
  LiveOnBranch
  RevisionIdentifies
