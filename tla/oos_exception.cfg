CONSTANTS
  Symbols = {A}
  Summaries <- MCSummaries
  Iterations = 2
  MaxFailures = 2
  MaxSuccesses = 1
SPECIFICATION Spec
INVARIANT PassNeedsOos
