SPECIFICATION Spec
CONSTANTS
  Server = {s1, s2, s3}
  Command = {c1, c2}
  None = None
  MaxTerm = 2
  MaxRestart = 0
  LateRounds = TRUE
  MaxNet = 1
VIEW View
SYMMETRY Symmetry
CONSTRAINT FewRequests
INVARIANTS StateMachineSafety
CHECK_DEADLOCK FALSE
