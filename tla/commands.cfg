SPECIFICATION FairSpec
CONSTANTS
  r1 = r1
  r2 = r2
  k1 = k1
  Nobody = Nobody
  Requests = {r1, r2}
  Keys = {k1}
  Forms <- EveryForm
  MaxRevision = 3
  MaxCrashes = 0
INVARIANTS
  TypeOK
  ResultIsOwn
  NothingForgotten
PROPERTIES
  KeepsLifecycle
CHECK_DEADLOCK FALSE
