SPECIFICATION ScrapeSpec
CONSTANTS
  Unit = 2
  Ms = 2
  Tenants = {a}
  Strangers = {x}
  Malformed = Malformed
  Handlers = {h1, h2}
  Rate <- MCRate
  Second = 2
  LeaseSize = 2
  LeaseTTL = 4
  MinTTL = 1
  MaxClock = 4
  MaxCalls = 3
  MaxStarts = 1
SYMMETRY Symmetry
INVARIANT WindowBound
INVARIANT StaleBound
INVARIANT LedgerBound
INVARIANT CountersAgree
PROPERTY DeltaHonest
INVARIANT TypeOK
PROPERTY HintSuffices
