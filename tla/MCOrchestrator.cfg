SPECIFICATION Spec
CONSTANTS
  Procs = {p1, p2}
  AutoApply = FALSE
  CandidateTTL = 1
  ApprovalTTL = 0
  RetryAfter = 1
  Raises = TRUE
  MaxVersion = 1
  MaxClock = 3
  MaxRuns = 2
  MaxCandidates = 2
  MaxApprovals = 1
  MaxRevokes = 1
  MaxRollbacks = 0
  MaxCrashes = 1
SYMMETRY MCSymmetry
INVARIANTS
  SingleUse
  OnePending
  DeployedWasAuthorised
CHECK_DEADLOCK FALSE
