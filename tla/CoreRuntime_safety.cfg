CONSTANTS
  Tasks = {t1, t2}
  None = None
  MaxCrashes = 2
  MaxAborts = 1
  MaxThrows = 1
  ClockMayStepBack = TRUE
SPECIFICATION FairSpec
INVARIANTS AuditLogIsLegal FinalStatusesAgree NoInheritedOpenRows AcknowledgedOutcomeIsDurable NotifiedUnlessRolledBack
PROPERTIES TerminalRowsAreImmutable ImplementsTaskStore EveryRowCloses
CHECK_DEADLOCK FALSE
