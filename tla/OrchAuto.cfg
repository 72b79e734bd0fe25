SPECIFICATION FairSpec
CONSTANTS
  Procs = {p1, p2}
  AutoApply = TRUE
  CandidateTTL = 1
  ApprovalTTL = 1
  RetryAfter = 1
  Raises = TRUE
  MaxVersion = 1
  MaxClock = 2
  MaxRuns = 3
  MaxCandidates = 2
  MaxApprovals = 0
  MaxRevokes = 0
  MaxRollbacks = 1
  MaxCrashes = 1
PROPERTIES
  RevertedNotRetried
  PreparedIsDecided
CHECK_DEADLOCK FALSE
