SPECIFICATION Spec
CONSTANTS
  t1 = t1
  t2 = t2
  h1 = h1
  h2 = h2
  r1 = r1
  r2 = r2
  Threads = {t1, t2}
  Players = {0, 1}
  Types = {0, 1}
  Plugged = {0, 1}
  Refs = {r1, r2}
  FILEs = {h1, h2}
  NULL = NULL
  MaxOpens = 2
  MaxEdits = 1
INVARIANT DestroyFindsItsFile
SYMMETRY Symmetry
CHECK_DEADLOCK FALSE
