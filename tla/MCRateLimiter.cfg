SPECIFICATION Spec
CONSTANTS
  Unit = 1
  Ms = 1
  Rate <- MCRate
  Second = 1
  LeaseTTL = 2
  MinTTL = 1
  LeaseSize = 1
  Tenants = {a}
  Strangers = {}
  Malformed = Malformed
  Workers = {w1, w2}
  Requests = {q1}
  Renewers = {r1, r2}
  Handlers = {h1}
  Nil = Nil
  Closed = Closed
  Costs = {1}
  MaxCost = 1
  WaitForLease = 0
  MinRetryAfter = 1
  BackoffMin = 1
  BackoffMax = 1
  UnknownTTL = 1
  MaxClock = 2
  MaxCalls = 3
  MaxStarts = 0
  MaxKills = 1
  MaxLate = 0
SYMMETRY Symmetry
INVARIANT NoTokenForged
