\* Two invocations on the traces of two domains, each replaced once.
CONSTANTS
  left = left
  right = right
  there = there
  back = back
  None = None
  DomainOrder <- MCDomainOrder
  ChannelOrder <- MCChannelOrder
  Source <- MCSource
  Destination <- MCDestination
  Chains = {chain}
  Outcomes = {"passed", "failed"}
  SpanIds = {s1, s2}
  MaxVersion = 1
  MaxAttempts = 2
  AssertionIds = {}
  WorstStatus <- MCWorst
SPECIFICATION Spec
INVARIANTS
  SpansAreEvidence
  PassedMeansQualified
  ObservationsBackResult
CHECK_DEADLOCK FALSE
