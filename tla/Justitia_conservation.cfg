SPECIFICATION Spec
CONSTANTS
  Pair = {p, q}
  Fee = {3}
  Amount = {0, 1, 2, 3}
  Word = 16
  MaxTime = 1
INVARIANT RewardsConserved
