SPECIFICATION Spec
CONSTANTS
  ShardNum = 3
  Account <- Accounts
  Addr2Shard <- Home
  MaxIterations = 3
  UpdateThreshold = 2
  MaxEdges = 5
  MaxRounds = 2
INVARIANTS WeightsExact MapsAgree
PROPERTIES MovesGuarded
CHECK_DEADLOCK FALSE
