\* Five kinds of snapshot, six ticks of waiting.
SPECIFICATION FairSpec
CONSTANTS
  Topics = {camera}
  Endpoints = {planner}
  Nodes = {driver}
  None = None
  MinPublishers <- PerTopic
  MinSubscribers <- PerTopic
  FirstMessageTimeout <- MCFirstMessageTimeout
  RequiredState <- ActiveRequired
  NodeTimeout <- MCNodeTimeout
  NodeStable <- MCNodeStable
  StableFor = 1
  Timeout = 5
  PollInterval = 1
  Snapshots <- BranchSnapshots
  MaxTime = 7
INVARIANTS
  GrantedAfterWindow
  NoCompleteWindowRefused
  OverdueNeverForgiven
PROPERTY
  WaitEnds
CHECK_DEADLOCK FALSE
