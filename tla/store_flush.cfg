SPECIFICATION Spec
CONSTANTS
  k1 = k1  k2 = k2  v1 = v1  v2 = v2  Nil = Nil  Torn = Torn
  Keys = {k1, k2}
  Values = {v1}
  Stamps = {0, 2}
  SyncPolicy = "always"
  group_commit = TRUE
  FreshDir = FALSE
  Faults = {"table_write", "rename", "dir_sync", "log_truncate"}
  MaxLog = 2
  Commands = {"set", "del_many", "shutdown"}
  kCompactionTrigger = 2
  use_compaction = FALSE
  KillAt <- AllSteps
  PowerAt <- AllStepsAndDown
  MaxSeq = 2
  MaxHeld = 2
  MaxNow = 1
SYMMETRY Symmetry
INVARIANTS TypeOK CrashSafe AlwaysRestartable
PROPERTIES LogCutOnlyWhenRedundant
