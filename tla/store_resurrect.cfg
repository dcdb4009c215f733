SPECIFICATION Spec
CONSTANTS
  k1 = k1  k2 = k2  v1 = v1  v2 = v2  Nil = Nil  Torn = Torn
  Keys = {k1}
  Values = {v1}
  Stamps = {0}
  SyncPolicy = "always"
  group_commit = TRUE
  FreshDir = FALSE
  Faults = {}
  MaxLog = 2
  Commands = {"set", "del"}
  kCompactionTrigger = 2
  use_compaction = TRUE
  KillAt <- AllSteps
  PowerAt = {}
  MaxSeq = 2
  MaxHeld = 2
  MaxNow = 0
INVARIANTS DeletesSurviveKill
