\* A histogram or a gauge; a window of three instants of five, one tolerated.
CONSTANTS
  WindowStart = 2
  WindowEnd = 5
  Tolerance = 1
  MaxLossPercent = 50
  Kinds = {"histogram", "gauge"}
  Keys <- MCKeys
  Bursts <- MCBursts
  Exports <- MCExports
  MaxRestarts <- MCMaxRestarts
  MaxTime = 5
  Bounds <- MCBounds
  Summarised = TRUE
  Percentiles = {50, 95}
  Absent = Absent
  MinLatencies = 2
  LatencyLimit <- MCLatencyLimit
  MaxGap = 2
  Requirements = {0, 1, 2, 3}
SPECIFICATION Spec
INVARIANTS
  PassedQuantileIsTrue
  PercentileMeansWindow
  AuthorityIsWithinPolicy
  PassedDurationHeld
CHECK_DEADLOCK FALSE
