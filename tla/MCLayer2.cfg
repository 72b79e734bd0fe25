SPECIFICATION Spec
CONSTANTS
  old = old
  new1 = new1
  new2 = new2
  Clients = {old, new1, new2}
  Target <- MCTarget
  MaxSchemaFaults = 2
  Threads = {th1, th2, th3}
  Here = {th1, th2}
  NameSets <- MCNames
  MaxNow = 2
  MaxUses = 2
  MaxBack = 1
  MaxLocked = 1
  Payloads = {pa, pb}
  Cooldown = 2
  MaxMenuTime = 5
  MaxMenuFaults = 2
SYMMETRY MCSymmetry
INVARIANTS
  Layer2TypeOK
  SchemaIsBacked
  UsesAreCounted
  CacheIsCurrent
  RecordedIsShown
CHECK_DEADLOCK FALSE
