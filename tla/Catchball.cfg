SPECIFICATION FairCatchSpec
CONSTANTS
  WaitSteps = 1
  Landings = {1, 2}
  Enabled = TRUE
  MaxLostCalls = 1
  MaxCalls = 1
INVARIANTS HiddenBetweenThrows SeesOnlyFlying
PROPERTIES FovShown
