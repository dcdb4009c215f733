SPECIFICATION Spec
CONSTANTS
  k1 = k1  k2 = k2  v1 = v1  v2 = v2  Nil = Nil  Torn = Torn
  Keys = {k1}
  Values = {v1}
  Stamps = {0, 2}
  SyncPolicy = "always"
  group_commit = FALSE
  FreshDir = FALSE
  Faults = {}
  MaxLog = 2
  Commands = {"set", "del", "expire", "flush_all"}
  kCompactionTrigger = 2
  use_compaction = TRUE
  KillAt <- OutsideWindowsAndCut
  PowerAt <- OutsideWindowsOrDown
  MaxSeq = 3
  MaxHeld = 1
  MaxNow = 1
INVARIANTS ServesLatest CrashSafe  NamesInOrder
PROPERTIES FlushAllRemovesEverything
