\* Nodes that answer or do not, and replies that take any time.
SPECIFICATION AttachSpec
CONSTANTS
  Topics = {}
  Nodes = {driver}
  States = {"active", "inactive"}
  SourceTimes = {}
  MaxHeard = 3
  MaxSamples = 1
  None = None
  MaxTime = 5
  RequiredState <- ActiveRequired
  NodeTimeout <- Late
  NodeStable <- One
  StableFor = 1
  Timeout = 4
  PollInterval = 1
INVARIANTS
  RequiredIfAnswering
PROPERTY
  FreshWhenAnswered
CHECK_DEADLOCK FALSE
