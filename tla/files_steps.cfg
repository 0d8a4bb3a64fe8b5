SPECIFICATION Spec
CONSTANTS
  Path = {p1, p2}
  Data = {d1, d2}
  Empty = Empty
  None = None
  Torn = Torn
  OpId = {o1}
  Call = {h1, h2, h3}
  Existing = {p1}
  MaxVersion = 2
  MaxRestart = 1
SYMMETRY Symmetry
VIEW Matters
INVARIANTS TypeOK NoLostWrite AnsweredIsSaved MetaMatchesFile
CHECK_DEADLOCK FALSE
