SPECIFICATION FairSpec
CONSTANTS
  k1 = k1  k2 = k2  v1 = v1  v2 = v2  Nil = Nil  Torn = Torn
  Keys = {k1}
  Values = {v1}
  Stamps = {0}
  SyncPolicy = "always"
  group_commit = FALSE
  FreshDir = FALSE
  Faults <- AllFaults
  MaxLog = 2
  Commands = {"set", "del", "flush_all", "shutdown"}
  kCompactionTrigger = 2
  use_compaction = TRUE
  KillAt = {}
  PowerAt = {}
  MaxSeq = 2
  MaxHeld = 1
  MaxNow = 0
INVARIANTS ServesLatest LocalsStillHold
PROPERTIES HeldRepliesGoOut
