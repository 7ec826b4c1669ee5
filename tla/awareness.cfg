SPECIFICATION Spec
CONSTANTS
  Runs = {1, 2, 3, 4, 5}
  Assets = {a1}
  Sensed = {a1}
  Scores = {0, 100}
  Confirmation = 2
  Recovery = 2
  Window = 1
INVARIANTS
  TypeOK
  AlertsPaired
  EngineIsHysteresis
  ObservedOncePerRun
PROPERTIES
  CompletedIsEvaluated
CHECK_DEADLOCK FALSE
