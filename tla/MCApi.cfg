SPECIFICATION ApiSpec
CONSTANTS
  p1 = p1
  p2 = p2
  analyst = analyst
  officer = officer
  None = None
  Request = {r1}
  Worker = {w1, w2}
  PlanHash = {p1, p2}
  Principal = {analyst, officer}
  Submitter = {analyst}
  Forecast <- MCForecast
  Authority <- MCAuthority
  Receipt <- MCReceipt
  HandedIn = {}
  MaxPrep = 6
  MaxEntries = 8
INVARIANTS
  RegistryIsCurrent
  HttpPassesTheAudit
CHECK_DEADLOCK FALSE
