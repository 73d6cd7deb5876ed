SPECIFICATION FairSpec
CONSTANTS
  w1 = w1
  w2 = w2
  x1 = x1
  x2 = x2
  c1 = c1
  Work = {}
  Mirrored = {}
  Catalogue <- NoWorks
  Worker = {x1}
  Caller = {c1}
  MaxRun = 2
  MaxTries = 1
  MaxRevision = 2
CHECK_DEADLOCK FALSE
INVARIANT ReservationIsCurrent
PROPERTY ReservationEnds
