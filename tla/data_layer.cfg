CONSTANTS
  MaxSpreadBps = 500
  MinDepth = 1
  OutlierSq = 1
  OutlierWindow = 3
  SnapshotsForOutliers = 2
  KeepFirst = FALSE
  MaxDrift = 1
  Days <- MCDays
  HolidayDates = {3}
  Trades <- MCTrades
  Freqs = {0, 1, 2}
  Lookback = 2
  PreOpen = 0
  RegularOpen = 2
  RegularClose = 4
  PostClose = 5
  ImpactShares = 2
  TradeWindow = 1
  LongWindow = 2
  DeltaLag = 1
  SpreadMultiplier = 3
  DepthDivisor = 20
SPECIFICATION Spec
INVARIANTS StatesAreFaithful CleanersAgree FeaturesAreOfTheDay BlocksAreExact
