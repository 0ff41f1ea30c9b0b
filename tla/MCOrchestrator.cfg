SPECIFICATION Spec
CONSTANTS
  p1 = p1
  p2 = p2
  analyst = analyst
  officer = officer
  None = None
  Request = {r1}
  Worker = {w1}
  PlanHash = {p1, p2}
  Principal = {analyst, officer}
  Submitter = {analyst, officer}
  Forecast <- MCForecast
  Authority <- MCAuthority
  Receipt <- MCReceipt
  HandedIn <- MCHandedIn
  MaxPrep = 7
  MaxEntries = 9
INVARIANTS
  AppliedAtMostOnce
  RunsAreAuthorised
  CrashWindowIsVisible
  OneOutcomePerAttempt
  GatesAnswerTheAudit
  ClosedIsSettled
PROPERTIES
  EndedAdmitsNoWork
  KeepsThePromise
CHECK_DEADLOCK FALSE
