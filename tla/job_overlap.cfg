SPECIFICATION Spec
CONSTANTS
  Worker = {w1, w2}
  None = None
  Readable <- Files
  Primes <- Found
  NUM_WORKERS = 2
  RECOVERY_REWIND_COUNT = 0
  Slots = {1, 2}
  MaxStart = 1
  MaxKill = 1
  MaxSnapshot = 0
SYMMETRY Symmetry
INVARIANT ResultComplete
CHECK_DEADLOCK FALSE
