\* The clock window: four source times, room for three samples, or a topic.
SPECIFICATION MCRetryingSpec
CONSTANTS
  Topics = {camera}
  Nodes = {}
  States = {"active", "inactive"}
  SourceTimes = {1, 3, 4, 5}
  MaxHeard = 4
  MaxSamples = 3
  None = None
  MaxTime = 2
  MinFactor = 2
  MinRate = 1
  Step = 2
  Slack = 0
  MaxSkipped = 0
INVARIANTS
  SamplesInOrder
  AtMostOneEarlySample
PROPERTIES
  LossIsReported
  PassedClockIsTrue
  QuietAfterClose
  CloseCompletes
CHECK_DEADLOCK FALSE
