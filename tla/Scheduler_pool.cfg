SPECIFICATION Spec
CHECK_DEADLOCK FALSE
CONSTANTS
  Shard = {0, 1}
  Txs <- Windowed
  BlockSize = 1
  JustitiaSubsidyMode = "Lagrangian"
  JustitiaWindowBlocks = 2
  FeeCap = 5
  Fixed = 0
  Congestion = 100
  Alpha = 40
  MinLambda = 50
  MaxLambda = 200
  MaxInflation = 3
  EpochInterval = 2
  MaxHeight = 2
INVARIANTS AverageInRange NoTxLost
PROPERTIES BudgetDefended DelayedNotDropped
