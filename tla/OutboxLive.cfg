CONSTANTS
  Lanes = {team}
  LegacyHi = 1
  terminalResendAttempts = 1
  sentStallReconcilePasses = 2
  BatchSize = 1
  Outcomes = {"ok", "reject", "lostreply", "down"}
  MaxSeq = 3
  MaxFiles = 1
  MaxRestarts = 0
  Passes = {"auto"}
  GapWindow = 2
  ReadsFail = FALSE
SPECIFICATION FairSpec
PROPERTY Delivery
INVARIANT LegacyNotLost
