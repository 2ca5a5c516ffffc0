SPECIFICATION Spec
CONSTANTS
  OrderFwd <- TwoPairs
  MaxSessions = 3
  MaxFailures = 2
  None = None
INVARIANTS IInv WholeIsFresh
