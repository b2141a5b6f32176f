SPECIFICATION Spec
CONSTANTS
  Consumers = {c1}
  Priorities <- MCPriorities
  MaxSizes <- MCMaxSizes
  BatchSizes <- MCBatchSizes
  MaxAge = 1
  MaxPages = 3
  EvictFloor = 2
  MaxId = 4
  MaxClock = 2
  MaxSteps = 1
  MaxMissed = 1
INVARIANTS TypeOK
PROPERTIES KeepsPromise
