SPECIFICATION FairSpec
CONSTANTS
  Runtimes = {r1}
  Operators = {o1}
  Triggers = {t1, t2}
  Interval = 1
  MaxTime = 2
  MaxRequests = 1
  MaxRefusals = 1
  MaxCrashes = 1
INVARIANTS SkippedOnlyByFailure RecordedStaysClosed
PROPERTIES OncePerWindow NoWindowStarves
