SPECIFICATION FairSpec
CONSTANTS
  Requests = {r1, r2, r3}
  Unfit = {r3}
  MaxRounds = 5
  MaxAttempts = 3
  MaxCalls = 2
  MaxPasses = 2
  MaxCrashes = 1
  None = None
INVARIANTS TypeOK SilentWhenBroken EscalationFiled PromiseKept ToldOnce OwnDialect DialectStable MeaningKept NoiseGone
PROPERTIES EndsWhole TurnEnds
CHECK_DEADLOCK FALSE
