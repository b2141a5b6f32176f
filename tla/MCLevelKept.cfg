SPECIFICATION AgentSpec
CONSTANTS
  Shipped <- MCShipped
  Intervals = {30}
  Levels = {"debug"}
  MaxUpsets = 0
  Torn = Torn
  OutgoingCap = 1
  IncomingCap = 1
  MaxMessages = 1
  MaxOutages = 0
PROPERTY LevelKept
