SPECIFICATION FairSpec
CONSTANTS
  FlushSizes = {1, 2, 3}
  kCompactionTrigger = 3
  kTierRatio = 2
  MaxTables = 5
  MaxSize = 4
INVARIANTS EqualTablesGetMerged
PROPERTIES WalkEnds
