\* A routine of the file and one made at run time, two runs, two tool calls.
SPECIFICATION Spec
CONSTANTS
  f1 = f1
  d1 = d1
  r1 = r1
  r2 = r2
  u1 = u1
  u2 = u2
  c1 = c1
  c2 = c2
  Nobody = Nobody
  Files = {f1}
  FileOn = {f1}
  Dyn = {d1}
  Runs = {r1, r2}
  Turns = {u1, u2}
  Cards = {c1, c2}
  Steps = 2
  MaxEdits = 3
  MaxCrashes = 1
INVARIANT MemoryAgrees
INVARIANT OneAtATime
INVARIANT CardsKept
SYMMETRY Symmetry
CHECK_DEADLOCK FALSE
