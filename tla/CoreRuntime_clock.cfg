CONSTANTS
  Tasks = {t1, t2}
  None = None
  MaxCrashes = 2
  MaxAborts = 0
  MaxThrows = 0
  ClockMayStepBack = TRUE
SPECIFICATION FairSpec
PROPERTIES DownProcessRestarts
CHECK_DEADLOCK FALSE
