SPECIFICATION Spec
CONSTANTS
  Server = {s1, s2, s3}
  Command = {}
  None = None
  MaxTerm = 2
  MaxRestart = 2
  LateRounds = TRUE
  MaxNet = 3
VIEW ViewWithBallots
SYMMETRY Symmetry
CONSTRAINT FewRequests
INVARIANTS ElectionSafety VotesBacked
PROPERTIES VotesAreKept
CHECK_DEADLOCK FALSE
