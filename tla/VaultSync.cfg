SPECIFICATION FairSpec
CONSTANTS
  MaxEdits = 2
  MaxRevs = 1
  MaxGens = 2
  ReadsFail = TRUE
INVARIANTS
  TypeOK
  
  

  
  
