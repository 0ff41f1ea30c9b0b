SPECIFICATION Spec
CONSTANTS
  c1 = c1
  c2 = c2
  c3 = c3
  email = email
  hash = hash
  Bare = Bare
  Gone = Gone
  None = None
  Column = {c1, c2, c3}
  Policy = {email, hash}
  Plan <- MCPlan
  FailurePolicy = {"halt", "continue", "rollback"}
  CanaryPercent = 10
  CanaryMin = 1
  CanaryMax = 25
INVARIANTS
  RecordsAreTrue
  VerdictIsTrue
  RollbackRestores
PROPERTY StopsAtTheFirstDoubt
