SPECIFICATION LiveSpec
CONSTANTS
  Nil = Nil
  Closed = Closed
  LeaseTTL = 2
  MinRetryAfter = 1
  BackoffMin = 1
  BackoffMax = 2
  UnknownTTL = 2
  Workers = {w1}
  Tenants = {a}
  Requests = {q1, q2}
  Renewers = {r1}
  Costs = {1}
  MaxCost = 1
  LeaseSize = 1
  Grants = {1}
  Hints = {0}
  WaitForLease = 1
  MaxClock = 2
PROPERTY CheckReturns
PROPERTY Recovers
