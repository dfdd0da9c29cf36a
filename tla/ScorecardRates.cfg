SPECIFICATION Spec
CONSTANTS
  None = None
  RangeBars = 3
  FalseBreakBars = 4
  FastBars = 2
  SlowBars = 3
  PersistBars = 2
  PersistAverage = 2
  RecentBars = 1
  LongerBars = 3
  AccumulationBars = 3
  MinTurnover = 8
  TopPicks = 2
  Stride = 2
  RollingBars = 2
  PeriodBars = 2
  WindowSizes <- MCWindowSizes
  TopMovers = 1
  Spans <- MCSpans
  Month = 1
  Quarter = 1
  MinBars = 5
  SlopeBars = 2
  FetchLimit = 6
  MonthDays = 1
  StopAtrs = 2
  TargetAtrs = 3
  HoldingBars = 2
  Horizons = {1, 3}
  NearDays = 1
  MinPriorSessions = 2
  TurnoverWindow = 2
  MinClose = 20
  MinAvgTurnover = 10
  StaleDays = 2
  SurvivalGap = 2
  EventGap = 1
  ExampleCap = 1
  MaxTopPivots = 6
  MinTopPivots = 2
  DegreeBands <- MCDegreeBands
  Lengths <- MCLengths
  BaseBars <- MCBaseBars
  MaxRequests = 2
  WindowSeconds = 3
  Inputs <- MCRunInputs
INVARIANT RatesBlameTheRightRun
