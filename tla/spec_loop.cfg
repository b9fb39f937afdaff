CONSTANTS
  Symbols = {A}
  Summaries <- MCSummaries
  MaxPlans = 2
  MaxAttempts = 2
  MaxSessions = 2
  MaxStrategies = 3
SPECIFICATION Spec
INVARIANTS PassedPlanHasStrategy ReturnedPassIsOnDisk OutcomeMatchesStrategies LoopsStartFresh ReviewedPlansHold
PROPERTIES ClosedPlansStay
