SPECIFICATION OversightSpec
CONSTANTS
  Calls = {c1}
  N = 1
  Deps <- MCDeps
  MaxRetries <- MCMaxRetries
  Rules = {1}
  NeedsApproval = {1}
  Requests = {q1}
  Reviewers = {d1, d2}
SYMMETRY MCSymmetry
INVARIANT MarkerWon
PROPERTIES DecisionsAreFinal NoLateDecision ImplementsWorkflowRuns
