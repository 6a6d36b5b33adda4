\* Every input, then two more invocations on what it left behind.
SPECIFICATION MCSpec
CONSTANTS
  AssertionIds = {a1, a2}
  WorstStatus <- MCWorst
  Inputs <- AllInputs
  MaxInvocations = 3
INVARIANTS
  PassedExactlyWhenClean
  GapNeverMasksFailure
  JUnitAgreesWithJson
  JUnitNeverAhead
  ExitZeroMeansPublished
  NoLitter
CHECK_DEADLOCK FALSE
