SPECIFICATION HistorySpec
CONSTANTS
  a1 = a1
  a2 = a2
  NoTask = NoTask
  NoResult = NoResult
  Detour <- ADetour
  TieRank <- ATieRank
  EmergencyScore = 80
  Assets = {a1, a2}
  Registry <- TwoAssets
  ZeroHold = 1
  ManualHold = 1
  MaxMissions = 1
  MaxCrashes = 0
  MaxLatches = 1
  MaxLate = 1
  ContinueOnUnreachable = FALSE
  NavVelocities = {}
  Recovery = FALSE
  RiskMessages <- HotRisk
  Commands = {}
INVARIANTS
  ActiveConsistent
  EndedMeansDone
PROPERTIES
  EmergencyFirst
  TerminalStays
  ResultOfActive
