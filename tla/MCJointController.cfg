SPECIFICATION FairSpec
CONSTANTS
  Builds = {"group", "single", "ros1"}
  NumJoints = 2
  Commands <- TwoCommands
  Positions = {0, 1}
  EffortMax = 1
  QueueDepth = 1
  MaxSwitches = 2
  AnswerFirst = TRUE
INVARIANTS NoStaleCommand
PROPERTIES BufferForward 
CHECK_DEADLOCK FALSE
