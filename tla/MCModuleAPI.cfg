\* Safety, refinement and liveness: two tasks, one question, a call for every verdict.
SPECIFICATION FairSpec
CONSTANTS
  t1 = t1
  t2 = t2
  m1 = m1
  r1 = r1
  xAllow = xAllow
  xAsk = xAsk
  xRoutine = xRoutine
  xDeny = xDeny
  xOwner = xOwner
  NoTask = NoTask
  NoRow = NoRow
  Tasks = {t1, t2}
  Modules = {m1}
  Calls = {xAllow, xAsk, xRoutine, xDeny, xOwner}
  Rows = {r1}
  Target <- MCTarget
  Verdict <- MCVerdict
  OwnerMay = {xOwner}
  Routine = {xRoutine}
  TTL = 1
  MaxTime = 2
PROPERTY EveryCallReturns
INVARIANT TypeOK
INVARIANT AtMostOnce
INVARIANT OnlyApprovedRuns
INVARIANT NoSilentApproval
INVARIANT AuditIsTrue
INVARIANT OneInFlight
PROPERTY NeverReopened
PROPERTY ImplementsApproval
