CONSTANTS
  Lanes = {team, personal}
  LegacyHi = 0
  terminalResendAttempts = 3
  sentStallReconcilePasses = 3
  BatchSize = 2
  Outcomes = {"ok"}
  MaxSeq = 2
  MaxFiles = 2
  MaxRestarts = 0
  Passes = {"auto"}
  GapWindow = 2
  ReadsFail = FALSE
SPECIFICATION Spec
INVARIANT Conserved
