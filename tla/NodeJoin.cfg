SPECIFICATION FairSpec
CONSTANTS
  p = p  a = a  b = b  t1 = t1  t2 = t2
  Parent = p
  Children = {a, b}
  NoNode = NoNode
  NoChannel = NoChannel
  Tokens = {t1, t2}
  NoToken = NoToken
  Wants <- WantsOne
  UserThreads = {a}
  Sends <- SendsCross
  MaxPairs = 3
  Mortal = {p, b}
  MaxCrashes = 1
INVARIANTS
  NoFalseLoss
  OneTaker
PROPERTIES
  LossNoticed
  InOrder
  Delivered
CHECK_DEADLOCK FALSE
