SPECIFICATION Spec
CHECK_DEADLOCK FALSE
CONSTANTS
  N = 2
  Reqs = {r1, r2}
  IdleGap = 2
  MaxStickiness = 3
  TotalBudget = 1
  CoolDown = 2
  MaxTime = 3
  Protocols = {a, b}
  Vendors = {v, w}
  Groups = {g}
  Pools = {p}
  Blank = Blank
  MaxPriority = 2
  MaxBindings = 3
SYMMETRY SameRequests
INVARIANTS
  TypeOK
  SpentMeansAllFailed
  OrderExplained
  KeptInConversation
  ChainIsOrdered
  OnlyPinStopsFailover
