SPECIFICATION MCSpec
CONSTANTS
  email = email
  ssn = ssn
  people = people
  analyst = analyst
  app = app
  Public = Public
  Nothing = Nothing
  Column = {email, ssn}
  Table = {people}
  TableOf <- MCTableOf
  Grantee = {Public, analyst, app}
  Plan <- MCPlan
  MaxOutside = 1
INVARIANTS
  VerifiedIsGoverned
  RollbackGivesBack
