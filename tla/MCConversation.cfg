\* Turns that overlap, in one session and in two; every end of a turn.
SPECIFICATION Spec
CONSTANTS
  t1 = t1
  t2 = t2
  s1 = s1
  s2 = s2
  NoId = NoId
  Turns = {t1, t2}
  Ids = {s1, s2}
  MaxSessions = 1
  MaxMessages = 4
  Iterations = 3
  TurnLimit = 1
  DayLimit = 2
  CallMax = 1
  Batch = 2
  MaxRequests = 3
INVARIANT DayIsBounded
INVARIANT SentIsWellFormed
SYMMETRY Symmetry
CHECK_DEADLOCK FALSE
