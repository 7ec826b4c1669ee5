SPECIFICATION FairSpec
CONSTANTS
  a1 = a1
  a2 = a2
  NoTask = NoTask
  NoResult = NoResult
  Detour <- ADetour
  TieRank <- ATieRank
  EmergencyScore = 80
  Assets = {a1}
  Registry <- OneAsset
  ZeroHold = 1
  ManualHold = 1
  MaxMissions = 2
  MaxCrashes = 2
  MaxLatches = 1
  MaxLate = 0
  ContinueOnUnreachable = TRUE
  NavVelocities = {}
  Recovery = TRUE
  RiskMessages <- NoRisk
  Commands = {"estop", "reset", "mode"}
INVARIANTS
  ActiveConsistent
PROPERTIES
  StopHalts
  ResetBecomesPossible
CHECK_DEADLOCK FALSE
