SPECIFICATION Spec
CONSTANTS
  Procs = {p1, p2}
  Emails = {e1, e2}
  Passwords = {pw1, pw2}
  DefaultPassword = pw1
  Tokens = {t1, t2}
  NoEmail = NoEmail
  NoPassword = NoPassword
  NoToken = NoToken
  MaxId = 2
  MaxTime = 0
  AccessTTL = 1
  RefreshTTL = 1
  HasSecret = TRUE
  ClientIds = {}
  Faults = {}
  Workload <- AccountRequests
INVARIANTS EveryAccountOpens
