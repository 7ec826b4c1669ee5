SPECIFICATION FairSpec
CONSTANTS
  r1 = r1
  r2 = r2
  k1 = k1
  Nobody = Nobody
  Requests = {r1, r2}
  Keys = {k1}
  Forms <- EachSort
  MaxRevision = 2
  MaxCrashes = 1
INVARIANTS
  SameKeySameCommand
PROPERTIES
  CommandsEnd
  RequestsEnd
CHECK_DEADLOCK FALSE
