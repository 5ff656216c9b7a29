SPECIFICATION FairSpec
CONSTANTS
  Prompt = TRUE
  MaxPresses = 4
  MaxLost = 2
INVARIANTS SimulationAsBelieved OneRequestPerPress
PROPERTIES KeyHandled
CHECK_DEADLOCK FALSE
