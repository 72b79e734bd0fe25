SPECIFICATION Spec
CONSTANTS
  Procs = {p1, p2}
  AutoApply = TRUE
  CandidateTTL = 1
  ApprovalTTL = 1
  RetryAfter = 1
  Raises = FALSE
  MaxVersion = 1
  MaxClock = 2
  MaxRuns = 3
  MaxCandidates = 2
  MaxApprovals = 0
  MaxRevokes = 0
  MaxRollbacks = 0
  MaxCrashes = 1
PROPERTY UndoneIsNotRetried
CHECK_DEADLOCK FALSE
