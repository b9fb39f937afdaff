CONSTANTS
  MaxChild = 2
  MaxQty = 2
  MaxTime = 4
  TickMs = 2
  Delay = 1
  SubmitLatency = {0, 3}
  CancelLatency = {0, 3}
  Interval = 2
  Deadline = 100
  Timeout = 4
  MaxReprices = 1
  MaxOpen = 20
  Style = "AggressivePlacement"
  Modes = {"none"}
SPECIFICATION Spec
INVARIANTS IocNeverRests
