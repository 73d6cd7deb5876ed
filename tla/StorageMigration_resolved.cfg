SPECIFICATION Spec
CONSTANTS
  local = local
  s3 = s3
  Count = 1
  BatchSize = 1
  Backend = {local, s3}
  Prefixing = {s3}
  First = local
  MaxFaults = 1
  MaxTurns = 1
INVARIANT ResolvedIsReadable
