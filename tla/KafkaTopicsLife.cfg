SPECIFICATION FairSpec
CONSTANTS
  Res = {1, 2}
  Scenarios <- Lives
INVARIANTS
  OneClient
  ReadyMeansInSync
PROPERTIES
  DeleteHonoursPreserve
  TopicsSettle
CHECK_DEADLOCK FALSE
