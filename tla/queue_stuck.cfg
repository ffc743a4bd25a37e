SPECIFICATION FairSpec
CONSTANTS
  Messages = {m1, m2}
  Workers = {w1}
  Deliveries = {d1}
  Content <- MCContent
  StaleAfter = 1
  MaxRecoveryAttempts = 1
  ScanLimit = 2
  RecoveredAt = {t1}
  CrashPoints <- JustClaimed
  MaxCrashes = 1
  None = None
PROPERTY AcceptedIsSettled
