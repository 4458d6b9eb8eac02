\* Two modules, two versions, two processes, one of which may be killed.
SPECIFICATION Spec
CONSTANTS
  m1 = m1
  m2 = m2
  v1 = v1
  v2 = v2
  cli = cli
  web = web
  Nothing = Nothing
  Mods = {m1, m2}
  Versions = {v1, v2}
  Procs = {cli, web}
  MaxCommands = 3
  MaxCrashes = 1
INVARIANT EarlyFailureKeepsPrevious
INVARIANT DiscoveredIsWhole
PROPERTY ManifestIsLast
CHECK_DEADLOCK FALSE
SYMMETRY Symmetry
