SPECIFICATION FairSpec
CONSTANTS
  MaxEdits = 1
  MaxRevs = 0
  MaxGens = 2
  ReadsFail = FALSE
PROPERTY VaultAlwaysConverges
