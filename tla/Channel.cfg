SPECIFICATION FairSpec
CONSTANTS
  Size <- FourSizes
  WithHandle <- FirstAndSecond
  HeaderBytes = 2
  SocketBytes = 4
  ReadBytes = 3
  MaxUnused = 2
  MayShutDown = {"sender", "receiver"}
INVARIANTS
  InOrder
PROPERTIES
  Delivered
  ErrorTold
CHECK_DEADLOCK FALSE
