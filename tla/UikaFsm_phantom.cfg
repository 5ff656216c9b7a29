SPECIFICATION Spec
CONSTANTS
  Frames = 1
  Burst = 2
  Keys = {"Num0", "P"}
  Pads = {}
INVARIANTS LeavesPassiveWhenAsked
