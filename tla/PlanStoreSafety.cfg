SPECIFICATION Spec
CONSTANTS
  plan1 = plan1  plan2 = plan2
  Plans = {plan1, plan2}
  MaxWrites = 4
  MaxCrashes = 2
INVARIANTS
  IInv
PROPERTIES
  ImplementsLog
CHECK_DEADLOCK FALSE
