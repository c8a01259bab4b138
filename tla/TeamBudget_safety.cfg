CONSTANTS
  Calls = {c1, c2}
  MaxLimit = 1
  MaxGrants = 3
  MaxReads = 3
  Requests <- MCRequests
SPECIFICATION Spec
SYMMETRY CallSymmetry
INVARIANTS StatusAgreesWithCounters ConsumptionIsAccounted EnvelopeHolds
PROPERTY SealedSuspensionHolds
CHECK_DEADLOCK FALSE
