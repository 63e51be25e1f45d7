SPECIFICATION FairSpec
CONSTANTS
  Budgets <- Races
  MaxProposals = 2
INVARIANTS
  OneApprovalPerExecution
  StatusIsTrue
  ExecutionOnFile
PROPERTIES
  ContractSpec
  
