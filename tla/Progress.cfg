SPECIFICATION SuiteSpec
CONSTANTS
  w1 = w1
  x1 = x1
  f1 = f1
  m1 = m1
  n1 = n1
  n2 = n2
  h1 = h1
  y1 = y1
  y2 = y2
  NoWork = NoWork
  NoFile = NoFile
  Inline = Inline
  Work = {w1, w2}
  Exporter = {x1}
  Feeder = {}
  Miner = {}
  PageSize = 1
  Limit = 1
PROPERTIES SteadyIsKept ListedIsShown GoneIsRemoved EveryCandidateIsOffered SlotIsGranted
