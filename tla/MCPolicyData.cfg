SPECIFICATION MCSpec
CONSTANTS
  Scale = 3
  Policies <- ThreePolicies
  Inputs <- SomeInputs
  Orientations <- SomeOrientations
  Answers <- SomeAnswers
  MaxRuns = 2
  BufferEnvs = 2
  BufferDims <- TwoTerms
  BufferLength = 3
  BufferIds = {0, 1, 2, 3}
  BufferMaxIds = 2
  BufferCalls = 3
  MotionFiles <- TwoMotions
  MotionTicks = 4
  WireAngles <- OneAngle
  WireTurns <- TwoTurns
  WireCommands = 2
  NetworkFiles <- SomeNetworks
  NetworkEntries = 3
  GearRatios <- TwoRatios
  GearPositions <- SomePositions
  GearGains <- TwoGains
  GearMoves = 2
INVARIANTS  ActionsFed  FallProtected HistoryAsAsked MotionContinuous  NetworkChecked
CHECK_DEADLOCK FALSE
