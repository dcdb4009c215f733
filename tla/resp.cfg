SPECIFICATION FairSpec
CONSTANTS
  Requests <- MCRequests
  Tails <- MCTails
  MaxRequests = 2
  Chunks = {1, 2, 3, 5, 8}
  max_read_buffer = 10
  kMaxLineLen = 4
  kMaxMultibulkLen = 2
  kMaxBulkLen = 3
  kMaxEcho = 2
INVARIANTS ReadsAsMeant RepliesFramed LeftoverBounded
PROPERTIES ParseReturns
CHECK_DEADLOCK FALSE
