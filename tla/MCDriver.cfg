SPECIFICATION FairSpec
CONSTANTS
  l1 = l1
  a = a
  Loads = {l1, l2}
  Tenants = {a}
  Tenant <- MCTenant
  Concurrency <- MCOne
  Cost <- MCCost
  RPS <- MCRPS
  Unit = 2
  Answers = {"admitted", "errors"}
  Duration = 3
  Second = 2
  Every = 1
  MaxClock = 3
  NoTick = NoTick
INVARIANT ResultsAgree
INVARIANT PacingExact
INVARIANT SnapshotSound
INVARIANT TypeOK
PROPERTY NoLateRecord
PROPERTY RunReturns
INVARIANT LoadAccounted
