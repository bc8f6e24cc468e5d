SPECIFICATION Spec
CONSTANTS
  MaxRuns = 1
  Scenarios = {"coordinator-kill"}
  Default = 2
  Phases <- MCPhases
  RetrySteps = 2
  MaxFailures = 0
  Mixed = Mixed
PROPERTY VerdictLast
CHECK_DEADLOCK FALSE
