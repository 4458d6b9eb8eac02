\* One command: an upgrade whose manifest cannot be written.
SPECIFICATION Spec
CONSTANTS
  m1 = m1
  m2 = m2
  v1 = v1
  v2 = v2
  cli = cli
  web = web
  Nothing = Nothing
  Mods = {m1, m2}
  Versions = {v1, v2}
  Procs = {cli, web}
  MaxCommands = 1
  MaxCrashes = 0
INVARIANT FailureKeepsPrevious
CHECK_DEADLOCK FALSE
