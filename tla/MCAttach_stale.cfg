\* Nodes that stop answering: the last answer stands for ever.
SPECIFICATION AttachSpec
CONSTANTS
  Topics = {}
  Nodes = {driver}
  States = {"active", "inactive"}
  SourceTimes = {}
  MaxHeard = 3
  MaxSamples = 1
  None = None
  MaxTime = 5
  RequiredState <- ActiveRequired
  NodeTimeout <- Late
  NodeStable <- One
  StableFor = 1
  Timeout = 4
  PollInterval = 1
INVARIANT
  RequiredWithinWindow
CHECK_DEADLOCK FALSE
