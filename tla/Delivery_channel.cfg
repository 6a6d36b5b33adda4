\* Up to two publications and three receipts at three instants, under two
\* identifiers or none; half of the messages may be lost, none repeated.
CONSTANTS
  MessageIds = {1, 2}
  NoId = 0
  Durations = {0, 1}
  MaxTime = 3
  MaxSent = 2
  MaxReceived = 3
  Window = 2
  MinMessages = 2
  MaxLossPercent = 50
  MaxDuplicates = 0
  MaxOutOfOrder = 0
  MaxAge = 1
SPECIFICATION ChannelSpec
INVARIANTS
  PassedMeansDelivered
  DisorderIsReal
CHECK_DEADLOCK FALSE
