SPECIFICATION Spec
CONSTANTS
  Unit = 1
  Ms = 1
  Rate <- MCRate
  Second = 1
  LeaseTTL = 2
  MinTTL = 1
  LeaseSize = 2
  Tenants = {a}
  Strangers = {x}
  Malformed = Malformed
  Workers = {w1}
  Requests = {q1}
  Renewers = {r1}
  Handlers = {h1}
  Nil = Nil
  Closed = Closed
  Costs = {1}
  MaxCost = 1
  WaitForLease = 0
  MinRetryAfter = 1
  BackoffMin = 1
  BackoffMax = 1
  UnknownTTL = 1
  MaxClock = 2
  MaxCalls = 2
  MaxStarts = 1
  MaxKills = 0
  MaxLate = 1
INVARIANT SystemWindowBound
INVARIANT TypeOK
PROPERTY ImplementsBudget
PROPERTY WorkersImplement
