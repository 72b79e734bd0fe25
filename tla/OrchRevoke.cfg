SPECIFICATION Spec
CONSTANTS
  Procs = {p1, p2}
  AutoApply = FALSE
  CandidateTTL = 1
  ApprovalTTL = 1
  RetryAfter = 1
  Raises = FALSE
  MaxVersion = 1
  MaxClock = 2
  MaxRuns = 2
  MaxCandidates = 2
  MaxApprovals = 1
  MaxRevokes = 1
  MaxRollbacks = 0
  MaxCrashes = 0
PROPERTY RevokedIsNotDeployed
CHECK_DEADLOCK FALSE
