CONSTANTS
  CommissionBps = 150
  MarketTaxBps = 1800
  Units = 2
  Assumption = 1
  SliceSeconds = 30
  PovPct = 50
  OffsetTicks = 0
  TickSize = 1
  SpreadBps = 99
  ImbalancePct = 30
  Verbose = FALSE
  FilterIds = {}
  VerifyQueue = TRUE
  VerifierFeeBps = 150
  VerifierTaxBps = 2000
  FeeTolerance = 30000
  Books <- MCBooks
  Tapes <- MCTapes
  Gaps = {2}
  Tick = 2
  SubmitBase = 3
  AckBase = 0
  CancelBase = 3
  Noise <- MCNoise
  Draws = {0, 1}
  Engine <- MCEngine
  Models = {"none", "prob_queue", "pro_rata"}
  Policies = {"passive", "adaptive"}
  Modes = {"none"}
  OrderQty = 2
  MaxChildren = 2
  MaxTicks = 3
SPECIFICATION Spec
INVARIANTS QueueDiscipline MonitorVerdicts MatchesAreSound SlicesAreComplete
