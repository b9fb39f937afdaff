CONSTANTS
  MaxChild = 3
  MaxQty = 3
  MaxTime = 6
  TickMs = 2
  Delay = 1
  SubmitLatency = {0, 3}
  CancelLatency = {0, 3}
  Interval = 2
  Deadline = 100
  Timeout = 4
  MaxReprices = 1
  MaxOpen = 20
  Style = "SpreadAdaptivePlacement"
  Modes = {"none", "passive_join"}
SPECIFICATION Spec
INVARIANTS TypeOK NoOverfill FillAccounting OpenInSync PendingCountExact CancelTimely TimeoutsKeepTime
PROPERTIES FinalChildrenStay
