SPECIFICATION Spec
CONSTANTS
  i1 = i1
  n1 = n1
  n2 = n2
  h1 = h1
  h2 = h2
  u1 = u1
  u2 = u2
  u3 = u3
  x1 = x1
  x2 = x2
  Work = {i1}
  Novel = {}
  Hash = {h1, h2}
  UploadId = {u1, u2}
  Worker = {x1}
  Limit = 1
  MaxToken = 2
  NoWork = NoWork
  NoFile = NoFile
  Inline = Inline
  PageCount <- OnePage
  Served <- TwoImages
  ReadsMayFail = TRUE
PROPERTY ArchiveOnlyGrows
