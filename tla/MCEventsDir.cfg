SPECIFICATION Spec
CHECK_DEADLOCK FALSE
CONSTANTS
  BlockSize = 2
  SeqGens = 3
  MaxSeq = 4
  LateRequests = TRUE
  WalGens = 2
  MaxHours = 2
  MaxEvents = 3
  Usage = {u1}
  Compliance = {c1, c2}
  MaxLines = 1
  DeadGens = 2
  MaxPasses = 2
  MaxCrashes = 1
INVARIANTS
  TypeOK
  NeverReusedSerial
  LossNeedsUnseenWriter
  KeptSerial
