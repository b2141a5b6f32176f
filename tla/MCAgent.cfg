SPECIFICATION OnlineSpec
CONSTANTS
  Shipped <- MCShipped
  Intervals = {3, 60}
  Levels = {"debug"}
  MaxUpsets = 1
  Torn = Torn
  OutgoingCap = 1
  IncomingCap = 1
  MaxMessages = 2
  MaxOutages = 1
INVARIANTS AgentOK KeptOnDisk
PROPERTIES StopsCleanly ComesBack ControlContinues ShutdownEnds
