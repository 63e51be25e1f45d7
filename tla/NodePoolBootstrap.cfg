SPECIFICATION Spec
CONSTANTS
  Pools = {"a", "b", "c"}
  Start <- StartOf
  MaxReplicas = 2
  Storages <- AllStorages
  NewStorages <- TwoStorages
  Scenarios <- BootstrapScenarios
INVARIANT
  OneQuorum
CHECK_DEADLOCK FALSE
