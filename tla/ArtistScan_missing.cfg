SPECIFICATION Spec
CONSTANTS
  w1 = w1
  w2 = w2
  x1 = x1
  x2 = x2
  c1 = c1
  Work = {w1}
  Mirrored = {}
  Catalogue <- OnePage
  Worker = {x1, x2}
  Caller = {c1}
  MaxRun = 2
  MaxTries = 1
  MaxRevision = 1
CHECK_DEADLOCK FALSE
INVARIANT OnlyAbsentIsMissing
