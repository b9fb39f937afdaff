CONSTANTS
  MaxGross = 100
  MaxNet = 50
  SinglePct = 10
  LeveragePct = 15
  TurnoverPct = 50
  SessionOpen = 0
  SessionClose = 60
  AvoidOpen = 5
  AvoidClose = 10
  LotSize = 2
  MinQty = 1
  BandPct = 30
  LargeNotional = 1000
  Gaps = {2, 3}
  Tick = 2
  Delay = 3
  SafetyTicks = 0
  MinHistory = 1
  Lookback = 0
  Mids = {2, 30}
  HalfSpread = 1
  Mode = "signal_proportional"
  MaxPosition = 4
  DefaultSize = 1
  InitialCash = 100
  MaxStates = 4
SPECIFICATION Spec
INVARIANTS TypeOK HeldMeetsDecision HistoryReachesBack CapsLeaveOnlyNet ScheduleIsComplete
