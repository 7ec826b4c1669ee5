SPECIFICATION HistorySpec
CONSTANTS
  a1 = a1
  a2 = a2
  NoTask = NoTask
  NoResult = NoResult
  Detour <- ADetour
  TieRank <- ATieRank
  EmergencyScore = 80
  Assets = {a1}
  Registry <- OneAsset
  ZeroHold = 2
  ManualHold = 1
  MaxMissions = 1
  MaxCrashes = 0
  MaxLatches = 1
  MaxLate = 1
  ContinueOnUnreachable = TRUE
  NavVelocities = {"zero", "moving"}
  Recovery = FALSE
  RiskMessages <- NoRisk
  Commands = {"pause", "resume", "stop", "mode", "estop", "reset", "manual"}
INVARIANTS
  TypeOK
  StoppedMeansZero
  ManualHasNoGoal
  OneGoal
PROPERTIES
  KeepsAuthority
  CancelIsNoFailure
