SPECIFICATION Spec
CONSTANTS
  Runs = {1, 2}
  Anchors = {}
  NoContent = none
  Ids <- AllIds
  Contents <- AllContents
  ClientIds <- ClientKeys
  ClientContents = {image1, image2}
  MaxReports = 1
  MaxCrashes = 0
INVARIANT AutomaticKept
CHECK_DEADLOCK FALSE
