SPECIFICATION PrioritySpec
CONSTANTS
  a = a
  b = b
  Stored <- MCStored
  ScriptIds = {a, b}
  Targets = {pin}
  low = low
  high = high
  Values = {low, high}
  Priorities <- MCPriorities
  NoScript = NoScript
  Absent = Absent
  NoWrite = NoWrite
  ErrorLimit = 2
  MaxCallDepth = 2
  MaxActions = 2
  MaxCommands = 0
PROPERTY LowerIsBlocked
