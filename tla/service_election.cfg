SPECIFICATION ServiceSpec
CONSTANTS
  Server = {s1, s2, s3}
  Command = {c1}
  None = None
  MaxTerm = 2
  MaxRestart = 0
  LateRounds = TRUE
SYMMETRY Symmetry
INVARIANT ElectionSafety
CHECK_DEADLOCK FALSE
