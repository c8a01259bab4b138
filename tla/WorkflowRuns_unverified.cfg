SPECIFICATION FairSpec
CONSTANTS
  Calls = {c1}
  N = 2
  Deps <- MCDeps
  MaxRetries <- MCMaxRetries
  Rules = {1}
PROPERTY VerifiedFirst
