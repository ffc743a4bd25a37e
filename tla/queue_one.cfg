SPECIFICATION Spec
CONSTANTS
  Messages = {m1, m2}
  Workers = {w1}
  Deliveries = {d1, d2}
  Content <- MCContent
  StaleAfter = 1
  MaxRecoveryAttempts = 1
  ScanLimit = 2
  RecoveredAt = {t1}
  CrashPoints <- AnyPoint
  MaxCrashes = 2
  None = None
INVARIANTS TypeOK AtMostOneCopy ProcessingIsRecoverable
PROPERTIES GoneForGood OneOutcome
