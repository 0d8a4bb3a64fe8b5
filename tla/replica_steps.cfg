SPECIFICATION ReplicaSpec
CONSTANTS
  Path = {p1, p2}
  Data = {d1, d2}
  Empty = Empty
  None = None
  Torn = Torn
  OpId = {}
  MaxLog = 3
  Call <- Executions
  Existing = {p1}
  MaxVersion = 3
  MaxRestart = 2
SYMMETRY Symmetry
CONSTRAINT LeadsOnce
INVARIANTS AppliedInOrder AppliedIsSaved LeaderAgrees
PROPERTIES MovesAlongLog
CHECK_DEADLOCK FALSE
