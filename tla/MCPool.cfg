SPECIFICATION Spec
CONSTANTS
  Shared = {r1, r2}
  Alone = {r3}
INVARIANTS TypeOK NoRepeat HalfOpenHasProber LoginEarned NothingOverlooked RevokedIsMarked
  BudgetIsMemory AttemptHasBody
PROPERTY RoundsShrink
SYMMETRY SameRequests
