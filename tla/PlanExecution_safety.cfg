CONSTANT N = 3
SPECIFICATION FairSpec
INVARIANTS UndoneAfterDependents CompensatedLeavesOnly RejectionsLeaveEverything ReportAgreesWithSteps
PROPERTIES EveryCallSettles ImplementsSagaContract
CHECK_DEADLOCK FALSE
