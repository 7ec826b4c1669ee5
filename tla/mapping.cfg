SPECIFICATION Spec
CONSTANTS
  Runs = {1, 2}
  Anchors = {1, 2}
  NoContent = none
  Ids = {}
  Contents = {}
  MaxCrashes = 1
INVARIANTS
  TypeOK
  MappingAgrees
  ReadyMeansMapped
PROPERTIES
  RunGetsMapping
CHECK_DEADLOCK FALSE
