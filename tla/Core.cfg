SPECIFICATION Spec
CONSTANTS
  Thread = {t1, t2}
  LastHandle = 7
  MaxPipes = 2
  Things = {"buffer", "platform"}
  Bundles <- SomeBundles
  Waits <- SomeWaits
  MaxCalls = 3
  Platform = {TRUE, FALSE}
SYMMETRY Symmetric
INVARIANTS
  ChecksHold
  OneOwner
  BusyInTransit
  NoLostWakeup
CHECK_DEADLOCK FALSE
PROPERTIES
  AllOrNothing
