SPECIFICATION FairSpec
CONSTANTS
  main = main
  Asks <- MCAsks
  plc = plc
  meter = meter
  Callers <- MCCallers
  Engine = Engine
  Devices <- MCDevices
  Registers <- MCRegisters
  Burst <- MCBurst
  Rate = 1
  Limited = {meter}
  ReadOnly = {}
  Threshold = 2
  SuccessThreshold = 2
  Recovery = 1
  DeadlineAfter = 2
  None = None
INVARIANTS TypeOK BreakerIsRight
PROPERTIES Answers Heals
