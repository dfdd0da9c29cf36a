SPECIFICATION FairSpec
CONSTANTS
  None = None
  Archives <- MCArchives
  Securities <- MCSecurities
  Chunks <- MCChunks
  GapSessions = 1
  MaxCrashes = 1
  MaxSkips = 1
  MaxErrors = 1
  Window <- MCWindow
  Cadence = 2
  Active = {1, 3}
  ScoreBars = 2
  MinPriorSessions = 1
  TurnoverWindow = 2
  MinClose = 20
  MinAvgTurnover = 10
  StaleDays = 2
  SurvivalGap = 2
  EventGap = 1
  ExampleCap = 1
  StopAtrs = 2
  TargetAtrs = 3
  HoldingBars = 2
  Horizons = {1, 2}
  NearDays = 1
INVARIANTS ResumesAsUndisturbed ReadersDoNotRace
PROPERTIES BackfillFinishes
CHECK_DEADLOCK FALSE
