SPECIFICATION Spec
CONSTANTS
  Divergences <- MCDivergences
  MaxConcurrent = 2
  DefaultTimeout = 2
  None = None
  MaxClock = 3
INVARIANT AndMeansAll
CHECK_DEADLOCK FALSE
