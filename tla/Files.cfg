SPECIFICATION SuiteSpec
CONSTANTS
  Count = 2
  BatchSize = 2
  Backend = {local, s3, webdav}
  Prefixing = {s3}
  First = local
  MaxFaults = 2
  MaxTurns = 2
  Upload = {u1, u2, u3}
  Caller = {c1, c2}
  Cached = {ka, kb}
  Value = {1, 2}
  Limit = {1, 2}
  Reader = {r1}
  Request = {q1, q2, q3}
  Listed = {1, 2, 3, 4}
  Bookmark = {1, 2, 3}
  PageSize = 2
  MaxWrites = 2
CHECK_DEADLOCK FALSE
INVARIANTS  UsedIsStored  DiskIsAccounted  MadeOnce MissedIsExplained ShareIsAShare
 
