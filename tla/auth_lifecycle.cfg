SPECIFICATION FairSpec
CONSTANTS
  Procs = {p1, p2}
  Emails = {e1}
  Passwords = {pw1}
  DefaultPassword = pw1
  Tokens = {t1, t2}
  NoEmail = NoEmail
  NoPassword = NoPassword
  NoToken = NoToken
  MaxId = 1
  MaxTime = 1
  AccessTTL = 1
  RefreshTTL = 1
  HasSecret = TRUE
  ClientIds = {}
  Faults = {"failed", "lost"}
  Workload <- SessionRequests
PROPERTIES TokensLiveOnce RequestsTerminate
