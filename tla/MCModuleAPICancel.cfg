\* The window between asking for a confirmation and withdrawing it.
SPECIFICATION Spec
CONSTANTS
  t1 = t1
  t2 = t2
  m1 = m1
  r1 = r1
  xAllow = xAllow
  xAsk = xAsk
  xRoutine = xRoutine
  xDeny = xDeny
  xOwner = xOwner
  NoTask = NoTask
  NoRow = NoRow
  Tasks = {t1, t2}
  Modules = {m1}
  Calls = {xRoutine}
  Rows = {r1}
  Target <- MCTarget
  Verdict <- MCVerdict
  OwnerMay = {}
  Routine = {xRoutine}
  TTL = 1
  MaxTime = 2
INVARIANT CancelledNeverRuns
