\* Of the joystick: a button alone and in a combination, and a direction that
\* is the other way round in combinations.
SPECIFICATION AllSpec
CONSTANTS
  ThrowDelay = 1
  MaxFlight = 1
  NHistory = 2
  MaxTime = 3
  MaxRecords = 3
  Buttons = {"A", "LB"}
  Axes = {"LY", "DPadX"}
  Positions <- SomePositions
  Deadzone = 2
  Limit = 3
  MaxEvents = 4
INVARIANTS ScrubShowsPast ThrowDue OncePerPress
CHECK_DEADLOCK FALSE
