CONSTANTS
  Symbols = {A, B}
  Summaries <- MCSummaries
  Iterations = 4
  MaxFailures = 2
  MaxSuccesses = 1
SPECIFICATION Spec
INVARIANTS TypeOK PassIsEarned BestIsMostProfitable StuckIsExact FeedbackIsLatest SearchKeepsBest
