SPECIFICATION Spec
CONSTANTS
  Securities = {a, b, c, d}
  Histories <- MCHistories
  MonthStart <- MCMonthStart
  Sessions <- MCSessions
  Start = 11
  End = 17
  Lookbacks = {1, 2, 3}
  LoadDays = 10
  MinListing = 6
  PortfolioSize = 2
  Unit = 4
  CostDivisor = 8
  Capital = 4194304
  None = None
SYMMETRY Symmetry
INVARIANTS ReplayAgreesWithLoop PortfolioIsFull DecisionsIgnoreTheFuture
PROPERTY BufferIsHonoured
CHECK_DEADLOCK FALSE
