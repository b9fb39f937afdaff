CONSTANTS
  MaxGross = 1000
  MaxNet = 1000
  SinglePct = 100
  LeveragePct = 100
  TurnoverPct = 1000
  SessionOpen = 0
  SessionClose = 60
  AvoidOpen = 5
  AvoidClose = 10
  LotSize = 1
  MinQty = 1
  BandPct = 30
  LargeNotional = 1000
  Gaps = {2}
  Tick = 2
  Delay = 3
  SafetyTicks = 0
  MinHistory = 1
  Lookback = 0
  Mids = {10}
  HalfSpread = 1
  Mode = "signal_proportional"
  MaxPosition = 4
  DefaultSize = 1
  InitialCash = 100
  MaxStates = 4
SPECIFICATION Spec
INVARIANTS ExitClosesPosition
