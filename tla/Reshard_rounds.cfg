SPECIFICATION FairSpec
CONSTANTS
  ShardNum = 2  Account <- Accounts  Addr2Shard <- Home  Rows <- Transfers  Partitions <- Moves
  BlockSize = 1  Init_Balance = 2  MaxBlocks = 2
INVARIANTS Conservation NothingLost HaltExplained
PROPERTIES EpochsDoNotOverlap RoundsComplete
CHECK_DEADLOCK FALSE
