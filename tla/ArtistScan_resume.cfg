SPECIFICATION Spec
CONSTANTS
  w1 = w1
  w2 = w2
  x1 = x1
  x2 = x2
  c1 = c1
  Work = {w1, w2}
  Mirrored = {w2}
  Catalogue <- TwoPages
  Worker = {x1, x2}
  Caller = {c1}
  MaxRun = 1
  MaxTries = 2
  MaxRevision = 1
CHECK_DEADLOCK FALSE
SYMMETRY Perm
INVARIANT SuccessCoversAll
PROPERTY SuccessIsFinal
