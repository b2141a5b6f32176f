SPECIFICATION Spec
CONSTANTS
  fb1 = fb1
  fb2 = fb2
  s = s
  x = x
  Ids = {fb1, fb2}
  Signals = {s}
  Variables = {x}
  Programs <- MCPrograms
  MaxEdges = 2
  MaxUpsets = 2
  MaxCount = 2
  MaxAge = 2
  Absent = Absent
CHECK_DEADLOCK FALSE
CONSTRAINT Bounded
INVARIANTS TypeOK CountedOnce TimersKeepTime
