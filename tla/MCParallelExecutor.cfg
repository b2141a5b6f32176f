SPECIFICATION FairSpec
CONSTANTS
  Divergences <- MCDivergences
  MaxConcurrent = 2
  DefaultTimeout = 2
  None = None
  MaxClock = 3
INVARIANTS TypeOK ResultsAreTrue
PROPERTIES Returns Settles
CHECK_DEADLOCK FALSE
