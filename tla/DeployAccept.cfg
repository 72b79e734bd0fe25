SPECIFICATION Spec
CONSTANTS
  c1 = c1
  c2 = c2
  c3 = c3
  Commits <- MCCommits
  Installed = c1
  MaxRuns = 1
  MaxCrashes = 1
  Exceptions = FALSE
INVARIANT AcceptedIsServed
CHECK_DEADLOCK FALSE
