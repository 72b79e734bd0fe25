SPECIFICATION FairSpec
CONSTANTS
  c1 = c1
  c2 = c2
  c3 = c3
  Commits <- MCCommits
  Installed = c1
  MaxRuns = 2
  MaxCrashes = 2
  Exceptions = TRUE
INVARIANTS
  OutcomeIsTrue
  VenvRecoverable
  ClosedIsAccountedFor
  RevertedIsRemembered
PROPERTIES
  ChangesUnderRollbackPoint
  RestoredUnderStoppedGateway
  ImplementsSafeUpdate
  RunIsClosed
CHECK_DEADLOCK FALSE
