CONSTANTS
  Runtimes = {r1, r2}
  Triggers = {g}
  Calls = {c1, c2}
  None = None
  MaxFailures = 2
  MaxCalls = 4
SPECIFICATION Spec
SYMMETRY Interchange
INVARIANTS ExclusionUnlessLost TickFlagTracksTick
PROPERTIES QuietHaltHolds DispatchesBelowThreshold
CHECK_DEADLOCK FALSE
