SPECIFICATION FairSpec
CHECK_DEADLOCK FALSE
CONSTANTS
  Reqs = {r1, r2}
  Settings = {s1, s2}
  MaxGens = 2
INVARIANTS
  TypeOK
  HotStateKept
  ActiveServes
  LastRequestSignals
PROPERTY
  OldReleased
