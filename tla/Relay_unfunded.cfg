SPECIFICATION Spec
CONSTANTS
  ShardNum = 2  Account <- Accounts  Addr2Shard <- Home  Rows <- Crossing
  dataTotalNum = 2  batchDataNum = 2  InjectSpeed = 2  BlockSize = 1  Init_Balance = 1
  MaxInfos = 0
INVARIANT NothingMinted
CHECK_DEADLOCK FALSE
