SPECIFICATION Spec
CONSTANTS
  Props <- TwoProps
  Scenarios <- Names
  Normal = "normal"
  Shows <- ShowsOf
  Commands <- ThreeCommands
  Nothing = nothing
  Sent <- OfTheGateway
  MaxCalls = 2
  MaxRestarts = 1
INVARIANTS
  WorldShown
  ToldTruth
PROPERTIES
  TakenIsDecided
CHECK_DEADLOCK FALSE
