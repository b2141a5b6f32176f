SPECIFICATION StartupSpec
CONSTANTS
  Shipped <- Templates
  Intervals = {30}
  Levels = {"debug"}
  MaxUpsets = 0
  Torn = Torn
INVARIANT TenantKept
