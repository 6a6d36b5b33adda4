\* Counters; a window of four instants out of five, one tolerated, two restarts.
CONSTANTS
  WindowStart = 1
  WindowEnd = 4
  Tolerance = 1
  MaxLossPercent = 50
  Kinds = {"counters"}
  Keys <- MCKeys
  Bursts <- MCBursts
  Exports <- MCExports
  MaxRestarts <- MCMaxRestarts
  MaxTime = 5
  Bounds <- MCBounds
  Summarised = TRUE
  Percentiles = {50, 95}
  Absent = Absent
  MinLatencies = 2
  LatencyLimit <- MCLatencyLimit
  MaxGap = 2
  Requirements = {0, 1, 2}
SPECIFICATION Spec
INVARIANTS
  VerdictsAreTrue
  CumulativeMeansWindow
CHECK_DEADLOCK FALSE
