\* Up to five spans of two channels over three instants, two identifiers.
CONSTANTS
  sensor = sensor
  control = control
  drive = drive
  scan = scan
  command = command
  m1 = m1
  m2 = m2
  NoId = NoId
  Domains = {sensor, control, drive}
  Channels = {scan, command}
  Chain <- MCChain
  Source <- MCSource
  Destination <- MCDestination
  Relationship <- MCRelationship
  Offset <- MCOffset
  MessageIds = {m1}
  MaxTime = 2
  MaxSpans = 5
  MaxOdd = 1
SPECIFICATION Spec
INVARIANTS
  PassedChainHappened
PROPERTY
  PassIsKept
CHECK_DEADLOCK FALSE
