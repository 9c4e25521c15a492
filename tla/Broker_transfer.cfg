SPECIFICATION FairSpec
CONSTANTS
  Shard = {0, 1}
  Account <- Accounts
  Addr2Shard <- Home
  BrokerAddress <- Brokers
  Rows <- Transfers
  dataTotalNum = 9
  batchDataNum = 3
  InjectSpeed = 2
  BlockSize = 2
  Init_Balance = 1
INVARIANTS NothingStuck Conservation
PROPERTIES ImplementsTwoHalves AllFinished
CHECK_DEADLOCK FALSE
