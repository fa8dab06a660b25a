SPECIFICATION Spec
CONSTANTS
  Procs = {p1, p2}
  Emails = {e1}
  Passwords = {pw1}
  DefaultPassword = pw1
  Tokens = {t1, t2, t3}
  NoEmail = NoEmail
  NoPassword = NoPassword
  NoToken = NoToken
  MaxId = 2
  MaxTime = 0
  AccessTTL = 1
  RefreshTTL = 1
  HasSecret = TRUE
  ClientIds = {1}
  Faults = {"lost"}
  Workload <- AllRequests
SYMMETRY SlotsAndTokens
INVARIANTS TypeOK UniqueAccounts SpentTokensStayDead SessionBound NoSessionAfterDelete
