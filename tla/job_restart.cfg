SPECIFICATION Spec
CONSTANTS
  Worker = {w1, w2}
  None = None
  Readable <- Files
  Primes <- Found
  NUM_WORKERS = 2
  RECOVERY_REWIND_COUNT = 0
  Slots = {1}
  MaxStart = 2
  MaxKill = 1
  MaxSnapshot = 1
SYMMETRY Symmetry
VIEW Matters
CONSTRAINT NotDone
INVARIANTS ResultComplete SnapshotResumable TasksAccounted SnapshotNeverOvercounts
CHECK_DEADLOCK FALSE
