CONSTANTS
  Ops = {o1, o2}
  MaxSteps = 2
  MaxPlan = 3
  MaxCrashes = 1
  MaxThrows = 1
SPECIFICATION FairSpec
INVARIANTS StepsWithinBudget CancelIsHonoured
PROPERTIES ImplementsOperationStore EveryOperationEnds
CHECK_DEADLOCK FALSE
