SPECIFICATION RepairSpec
CONSTANTS
  s1 = s1
  s2 = s2
  s3 = s3
  c1 = c1
  c2 = c2
  c3 = c3
  Server = {s1, s2, s3}
  Command = {c1, c2, c3}
  None = None
  MaxTerm = 4
  MaxRestart = 4
  LateRounds = FALSE
  MaxNet = 1
VIEW View
CONSTRAINT FewRequests
INVARIANTS LogMatching LeaderCompleteness AppliedIsStored
CHECK_DEADLOCK FALSE
