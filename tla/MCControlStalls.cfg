SPECIFICATION AgentSpec
CONSTANTS
  Shipped <- MCShipped
  Intervals = {30}
  Levels = {"debug"}
  MaxUpsets = 0
  Torn = Torn
  OutgoingCap = 2
  IncomingCap = 1
  MaxMessages = 0
  MaxOutages = 0
PROPERTY ControlContinues
