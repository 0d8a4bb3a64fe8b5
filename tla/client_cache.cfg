SPECIFICATION Spec
CONSTANTS
  Client = {c1, c2}
  None = None
  Lag = FALSE
  MaxVersion = 3
  MaxEdit = 1
  MaxLate = 1
VIEW Matters
SYMMETRY Symmetry
INVARIANTS TypeOK CachedIsServed OpenIsRecent 
CHECK_DEADLOCK FALSE
