SPECIFICATION MCFairSpec
CONSTANTS
  Procs = {p1, p2}
  Alone = p1
  None = None
  AssertionIds = {a1}
  WorstStatus <- MCWorst
  Forbidden = {cmd_vel}
  ExecutionTime = 2
  ShutdownTime = 1
  EdgeTolerance = 1
  MaxTime = 3
  MaxSetBack = 1
INVARIANTS
  MarkedMeansDetached
  ExposureNeverPasses
  PassedIsRecorded
PROPERTIES
  ImplementsMeasurement
  EveryRunEnds
CHECK_DEADLOCK FALSE
