SPECIFICATION Spec
CONSTANTS
  a1 = a1
  a2 = a2
  NoTask = NoTask
  NoResult = NoResult
  Detour <- ADetour
  TieRank <- ATieRank
  EmergencyScore = 80
  Assets = {a1}
  Registry <- OneAsset
  ZeroHold = 1
  ManualHold = 1
  MaxMissions = 3
  MaxCrashes = 1
  MaxLatches = 1
  MaxLate = 0
  ContinueOnUnreachable = TRUE
  NavVelocities = {}
  Recovery = FALSE
  RiskMessages <- CalmRisk
  Commands = {"start", "stop", "estop", "reset", "mode"}
INVARIANTS
  SavedIsCurrent
PROPERTIES
  LatchSurvives
