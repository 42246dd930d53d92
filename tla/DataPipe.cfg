SPECIFICATION FairSpec
CONSTANTS
  Capacity = 2
  ElementBytes = 1
  MaxBytes = 3
  MaxCalls = 1
  MaxMoves = 1
  Waits <- WaitsBoth
  Mappings = {TRUE}
INVARIANTS
  Accounting
  NoLostWakeup
  ClosureTrue
PROPERTIES
  ImplementsStream
  ClosureHeard
CHECK_DEADLOCK FALSE
