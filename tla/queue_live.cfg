SPECIFICATION FairSpec
CONSTANTS
  Messages = {m1, m2}
  Workers = {w1}
  Deliveries = {d1, d2}
  Content <- MCContent
  StaleAfter = 1
  MaxRecoveryAttempts = 1
  ScanLimit = 2
  RecoveredAt = {t1}
  CrashPoints <- OutsideTheWindows
  MaxCrashes = 2
  None = None
PROPERTY OneOutcomeInTheEnd
