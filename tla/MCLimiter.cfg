SPECIFICATION AccSpec
CONSTANTS
  Nil = Nil
  Closed = Closed
  LeaseTTL = 2
  MinRetryAfter = 1
  BackoffMin = 1
  BackoffMax = 2
  UnknownTTL = 2
  Workers = {w1}
  Tenants = {a}
  Requests = {q1, q2}
  Renewers = {r1, r2}
  Costs = {1, 3}
  MaxCost = 3
  LeaseSize = 4
  Grants = {2, 4}
  Hints = {0, 2}
  WaitForLease = 1
  MaxClock = 4
  MaxChecks = 3
SYMMETRY Symmetry
INVARIANT Singleflight
INVARIANT NoLostWakeup
INVARIANT PoolBound
INVARIANT NegativeCacheQuiet
INVARIANT PacingHonoured
INVARIANT TokensConserved
INVARIANT ChecksAccounted
INVARIANT TypeOK
PROPERTY ShortfallRenews
