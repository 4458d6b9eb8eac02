\* A cancellation that arrives where CancelledError is suppressed.
\* Crashes, bounces, reinstalls, removals and the shutdown of two modules.
SPECIFICATION Spec
CONSTANTS
  m1 = m1
  m2 = m2
  v1 = v1
  v2 = v2
  NoName = NoName
  Unset = Unset
  Names = {m1, m2}
  Installed = {m1}
  Values = {v1, v2}
  Scoped <- Exported
  Shared = Unset
  MaxRetries = 1
  MaxOps = 2
CHECK_DEADLOCK FALSE
INVARIANT NoUntrackedLoop
