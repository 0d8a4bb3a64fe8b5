SPECIFICATION FairSpec
CONSTANTS
  Server = {s1, s2}
  Command = {c1}
  None = None
  MaxTerm = 3
  MaxRestart = 0
  LateRounds = FALSE
  MaxNet = 1
CONSTRAINT PatientClients
PROPERTIES PeersCatchUp OwnEntriesCommit
CHECK_DEADLOCK FALSE
