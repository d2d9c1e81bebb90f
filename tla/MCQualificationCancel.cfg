SPECIFICATION QualificationSpec
CONSTANTS
  Jobs = {q1}
  CancelledJobs = {q1}
  CancelAttempts = 2
  MaxDeaths = 0
INVARIANT CancelledAfterCleanup
CHECK_DEADLOCK FALSE
