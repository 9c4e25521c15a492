SPECIFICATION FairSpec
CONSTANTS
  ShardNum = 2  Account <- Accounts  Addr2Shard <- Home  Rows <- Transfers
  dataTotalNum = 6  batchDataNum = 3  InjectSpeed = 2  BlockSize = 2  Init_Balance = 4
  MaxInfos = 1
INVARIANTS RightShard ExactlyOnce CreditAfterDebit NothingLost Conservation
PROPERTY Terminates
CHECK_DEADLOCK FALSE
