SPECIFICATION Spec
CONSTANTS
  Work = {w1}
  Exporter = {x1, x2}
  Feeder = {}
  Miner = {}
  PageSize = 1
  Limit = 1
PROPERTY SteadyIsKept
