SPECIFICATION ChartSpec
CONSTANTS
  HostsSteps = 2
  MsgsSteps = 2
  Iters = 3
INVARIANTS
  PointsExact
  LinesWellFormed
CHECK_DEADLOCK FALSE
