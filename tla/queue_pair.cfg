SPECIFICATION Spec
CONSTANTS
  Messages = {m1, m2}
  Workers = {w1, w2}
  Deliveries = {d1}
  Content <- MCContent
  StaleAfter = 1
  MaxRecoveryAttempts = 1
  ScanLimit = 1
  RecoveredAt = {t1, t2}
  CrashPoints <- AnyPoint
  MaxCrashes = 1
  None = None
INVARIANT LostOnlyInHand
