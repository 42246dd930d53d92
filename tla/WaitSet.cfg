SPECIFICATION FairSpec
CONSTANTS
  Member = {m1, m2}
  Api = {t1, t2}
  Removers = {t2}
  Counts = {1}
CONSTRAINT
  NotOutrun
INVARIANTS
  OnePlace
  WaiterWoken
PROPERTIES
  Served
CHECK_DEADLOCK FALSE
