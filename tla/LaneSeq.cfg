SPECIFICATION Spec
CHECK_DEADLOCK FALSE
CONSTANTS
  Lanes = {team, personal}
  BlockSize = 2
  LegacyHi = 1
  MaxSeq = 6
  MaxStops = 2
INVARIANTS
  TypeOK
  NeverReused
  DurableBeforeUse
  BurnBounded
PROPERTY
  IssueSpec
