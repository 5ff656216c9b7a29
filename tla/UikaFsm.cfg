SPECIFICATION FairSpec
CONSTANTS
  Frames = 2
  Burst = 1
  Keys = {"Num0", "Num1", "Num9", "P"}
  Pads = {"RB_DPadRight", "LB_X"}
INVARIANTS  LeavesPassiveWhenAsked
PROPERTIES StandsFirst StopDamps MotionsEnd
