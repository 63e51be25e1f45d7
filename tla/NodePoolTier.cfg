SPECIFICATION Spec
CONSTANTS
  Pools = {"a", "b", "c"}
  Start <- StartOf
  MaxReplicas = 2
  Storages <- AllStorages
  NewStorages <- TwoStorages
  Scenarios <- TierScenarios
PROPERTY
  RefusalMeansChange
CHECK_DEADLOCK FALSE
