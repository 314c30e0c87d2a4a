CONSTANTS
  Lanes = {team}
  Outcomes = {"ok", "reject", "blank", "lostreply", "down", "terminal"}
SPECIFICATION Spec
INVARIANTS TypeOK Conserved  LossEarned
