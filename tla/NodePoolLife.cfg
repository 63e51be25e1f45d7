SPECIFICATION FairSpec
CONSTANTS
  Pools = {"a", "b", "c"}
  Start <- StartOf
  MaxReplicas = 2
  Storages <- AllStorages
  NewStorages <- TwoStorages
  Scenarios <- PoolScenarios
INVARIANTS
  NoStrandedNode
  
  NodeIdsDisjoint
PROPERTIES
  
  PoolsSettle
CHECK_DEADLOCK FALSE
