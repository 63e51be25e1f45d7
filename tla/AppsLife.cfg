SPECIFICATION FairSpec
CONSTANTS
  Slots = {1, 2}
  Scenarios <- Lives
INVARIANTS
  
  ReadyMeansRendered

  
