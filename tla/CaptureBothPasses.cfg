SPECIFICATION Spec
CONSTANTS
  OrderFwd <- TwoPairs
  MaxSessions = 1
  MaxFailures = 0
  None = None
INVARIANT BothPassesRead
