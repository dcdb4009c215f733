SPECIFICATION FairSpec
CONSTANTS
  Keys = {1, 2, 3}
  Lengths = {0, 16, 40, 41}
  Stamps = {0, 1, 2}
  Nil = Nil
  key_len = 3
  budget = 1
  MaxNow = 2
  MaxBytes = 300
INVARIANTS LiveCountExact EstimateAtLeastHalf
PROPERTIES EveryExpiredKeySwept
