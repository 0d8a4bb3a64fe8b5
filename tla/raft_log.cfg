SPECIFICATION LogSpec
CONSTANTS
  Server = {s1, s2, s3}
  Command = {c1, c2}
  None = None
  MaxTerm = 2
  MaxRestart = 1
  LateRounds = FALSE
  MaxNet = 1
VIEW ViewOfLog
SYMMETRY Symmetry
CONSTRAINTS FewRequests CrashOnceChosen
ACTION_CONSTRAINT ClientsWait
INVARIANTS TypeOK StateMachineSafety OneSenderPerTerm
PROPERTIES LeaderAppendOnly ImplementsReplicatedLog
CHECK_DEADLOCK FALSE
