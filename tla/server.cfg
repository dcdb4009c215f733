SPECIFICATION FairSpec
CONSTANTS
  Clients = {c1, c2}
  MaxFds = 2
  Nil = Nil
  Request = {"write", "bad"}
  kReadChunk = 3
  kCompactThreshold = 2
  SendRoom = 1
  MaxRequests = 3
  MaxSent = 3
  MaxGone = 1
INVARIANTS AckAfterSync RepliesInOrder PendingIsArmed EventsReachTheirOwner
PROPERTIES ClosesPolitely EveryRequestAnswered EveryClientAccepted ShutdownStops
CHECK_DEADLOCK FALSE
