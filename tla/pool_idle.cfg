SPECIFICATION PooledSpec
CONSTANTS
  Users = {h1, h2, checks}
  Pinger = checks
  MaxOpen = 2
  MaxIdle = 1
INVARIANTS NoIdleIsSaturated
