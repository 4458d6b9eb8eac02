\* Two accounts; a new hub, or one with its accounts signed in.
SPECIFICATION Spec
CONSTANTS
  t1 = t1
  t2 = t2
  a1 = a1
  a2 = a2
  p1 = p1
  NoOne = NoOne
  Names = {a1, a2}
  Passwords = {p1}
  MaxSessions = 3
  Tasks = {t1, t2}
  Limit = 1
  MaxOps = 3
INVARIANT TypeOK
INVARIANT AdminRemains
INVARIANT OneOwner
INVARIANT RevokedStaysGone
INVARIANT ThrottleHolds
SYMMETRY Symmetry
CHECK_DEADLOCK FALSE
