SPECIFICATION FairSpec
CONSTANTS
  Idle = Idle
  Policies = {himloco, lowbar}
  Transitional = {lowbar}
  MaxEntries = 3
  MaxTicks = 4
INVARIANTS IInv
PROPERTIES FreshTargets ImplementsHandover HandoverCompletes
