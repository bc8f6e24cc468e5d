SPECIFICATION Spec
CONSTANTS
  a = a
  b = b
  c = c
  Tenants = {a, b, c}
  Limit <- MCLimit
  LeaseSize = 10
  Grain = 6840
  Delays = {0, 1}
  Drains = {1, 3, 12}
  Backs = {27, 45}
  Lags = {0, 4, 1000}
  Blips = {0, 3, 6, 8}
  Losses = {0, 10, 15}
  Levels = {100, 50, 0}
  Faulty = {12, 20}
  Missing = {0, 3}
  Latencies = {1, 2, 3}
  MaxSample = 4
INVARIANT HealthyPasses
INVARIANT PassHidesNoTenant
INVARIANT PercentileRanks
CHECK_DEADLOCK FALSE
