SPECIFICATION Spec
CONSTANTS
  Client = {c1, c2}
  None = None
  Lag = TRUE
  MaxVersion = 3
  MaxEdit = 1
  MaxLate = 0
SYMMETRY Symmetry
INVARIANTS CachedIsServed
CHECK_DEADLOCK FALSE
