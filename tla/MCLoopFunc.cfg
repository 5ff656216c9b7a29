SPECIFICATION FairSpec
CONSTANTS
  Loops <- TwoLoops
  Order <- TwoOrder
  MaxCalls = 2
INVARIANTS NoLostWakeup AtMostOneLateCall
PROPERTIES LoopEnds
CHECK_DEADLOCK FALSE
