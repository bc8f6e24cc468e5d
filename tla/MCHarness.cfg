SPECIFICATION Spec
CONSTANTS
  MaxRuns = 2
  Scenarios = {"baseline", "hot-tenant", "scaling", "worker-kill", "coordinator-kill"}
  Default = 2
  Phases <- MCPhases
  RetrySteps = 2
  MaxFailures = 1
  Mixed = Mixed
INVARIANT Settled
INVARIANT Disarmed
INVARIANT SteadyRestored
INVARIANT TypeOK
PROPERTY NoReplacement
PROPERTY RunEnds
CHECK_DEADLOCK FALSE
