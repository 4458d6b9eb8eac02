\* Crashes, bounces, reinstalls, removals and the shutdown of two modules.
SPECIFICATION FairSpec
CONSTANTS
  m1 = m1
  m2 = m2
  v1 = v1
  v2 = v2
  NoName = NoName
  Unset = Unset
  Names = {m1, m2}
  Installed = {m1}
  Values = {v1}
  Scoped <- Exported
  Shared = Unset
  MaxRetries = 1
  MaxOps = 4
INVARIANT TypeOK
INVARIANT OneChild
INVARIANT RemovedIsGone
INVARIANT UnconfiguredNeverRuns
INVARIANT NoGhostReady
PROPERTY StartingSettles
PROPERTY ShutdownCompletes
CHECK_DEADLOCK FALSE
