SPECIFICATION Spec
CONSTANTS
  p1 = p1
  p2 = p2
  analyst = analyst
  officer = officer
  None = None
  Request = {r1}
  Worker = {w1, w2}
  PlanHash = {p1, p2}
  Principal = {analyst, officer}
  Submitter = {analyst, officer}
  Forecast <- MCForecast
  Authority <- MCAuthority
  Receipt <- MCReceipt
  HandedIn <- MCHandedIn
  MaxPrep = 5
  MaxEntries = 0
INVARIANT
  AppliedAtMostOnce
CHECK_DEADLOCK FALSE
