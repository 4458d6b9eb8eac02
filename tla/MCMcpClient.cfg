\* Late, repeated, reordered and misnumbered answers; a close at any time.
SPECIFICATION FairSpec
CONSTANTS
  c1 = c1
  c2 = c2
  c3 = c3
  Callers = {c1, c2, c3}
  MaxId = 4
INVARIANT TypeOK
INVARIANT OwnAnswerOnly
INVARIANT WaitersAreKnown
INVARIANT ClosedIsQuiet
PROPERTY CloseReleases
CHECK_DEADLOCK FALSE
