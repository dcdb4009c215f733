SPECIFICATION Spec
CONSTANTS
  FlushSizes = {1, 2, 4}
  kCompactionTrigger = 4
  kTierRatio = 2
  MaxTables = 4
  MaxSize = 4
INVARIANTS ChosenTablesAlike
