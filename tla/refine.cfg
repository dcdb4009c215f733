SPECIFICATION Spec
CONSTANTS
  k1 = k1  k2 = k2  v1 = v1  v2 = v2  Nil = Nil  Torn = Torn
  Keys = {k1}
  Values = {v1, v2}
  Stamps = {0}
  SyncPolicy = "always"
  group_commit = TRUE
  FreshDir = FALSE
  Faults = {"dir_sync", "unlink", "log_truncate"}
  MaxLog = 1
  Commands = {"set"}
  kCompactionTrigger = 2
  use_compaction = TRUE
  KillAt <- AllSteps
  PowerAt <- AllStepsAndDown
  MaxSeq = 3
  MaxHeld = 1
  MaxNow = 0
PROPERTIES ImplementsKvStore
