CONSTANTS
  c1 = c1
  c2 = c2
  Clients = {c1, c2}
  Resetters = {}
  FailureThreshold = 2
  SuccessThreshold = 2
  MaxHalfOpenPermits = 1
  RecoveryTimeout = 1
SPECIFICATION Spec
INVARIANT HalfOpenLimit
