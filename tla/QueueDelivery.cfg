SPECIFICATION FairSpec
CONSTANTS
  NumMessages = 5
  Signalable = FALSE
INVARIANTS
  Conservation
  NoLostWakeup
PROPERTIES
  EventuallyRead
CHECK_DEADLOCK FALSE
