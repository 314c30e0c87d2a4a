SPECIFICATION Spec
CHECK_DEADLOCK FALSE
CONSTANTS
  N = 2
  Reqs = {r1}
  IdleGap = 2
  MaxStickiness = 3
  TotalBudget = 0
  CoolDown = 1
  MaxTime = 3
INVARIANT
  ConversationSticks
