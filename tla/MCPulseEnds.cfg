SPECIFICATION Spec
CONSTANTS
  fb1 = fb1
  fb2 = fb2
  s = s
  x = x
  Ids = {fb1, fb2}
  Signals = {s}
  Variables = {x}
  Programs <- OnlyPulse
  MaxEdges = 2
  MaxUpsets = 1
  MaxCount = 2
  MaxAge = 2
  Absent = Absent
CHECK_DEADLOCK FALSE
PROPERTIES PulseEnds
