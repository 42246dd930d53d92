SPECIFICATION FairSpec
CONSTANTS
  Launches = {TRUE, FALSE}
  MayCrash = TRUE
PROPERTIES
  JoinReturns
  CompletionTold
CHECK_DEADLOCK FALSE
