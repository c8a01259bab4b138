SPECIFICATION Spec
CONSTANTS
  Calls = {c1, c2}
  N = 3
  Deps <- MCDeps
  MaxRetries <- MCMaxRetries
  Rules = {1}
SYMMETRY MCSymmetry
INVARIANTS OneWriter AttemptsBounded
PROPERTIES DecisionsStand RecordsStand DependenciesGate CompletedWhole
