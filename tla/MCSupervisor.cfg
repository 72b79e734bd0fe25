SPECIFICATION FairSpec
CONSTANTS
  Child = child
  Kid = {kid}
  out = out
  err = err
  Stream <- MCStream
  Cap = 2
  ReadMax = 1
  PipeCap = 1
  Wedges = TRUE
  MaxWrites <- MCMaxWrites
INVARIANTS
  GroupIsKilled
  ResultIsTrue
  CaptureIsTrue
PROPERTIES
  ReturnsUnlessStuck
CHECK_DEADLOCK FALSE
