SPECIFICATION FairSpec
CONSTANTS
  CatchballPolicies = {TRUE, FALSE}
  MaxRequests = 2
INVARIANTS  FirstModelSafe
PROPERTIES CycleEnds LoadCompletes
CHECK_DEADLOCK FALSE
