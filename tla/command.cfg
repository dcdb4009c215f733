SPECIFICATION Spec
CONSTANTS
  k1 = k1
  k2 = k2
  Keys = {k1, k2}
  Nil = Nil
  Chars = {"-", "0", "1", "2", "3", "4", "5", "6", "7", "8", "9", "x"}
  Requests <- MCRequests
  Texts <- MCTexts
  kMax = 47
  kMaxText = 3
  Second = 3
  StartTime = 3
  MaxTime = 6
  MaxCommands = 3
INVARIANTS LivesAsAsked ParseExact AnswersAsAsked
PROPERTIES RefusedChangesNothing
CHECK_DEADLOCK FALSE
