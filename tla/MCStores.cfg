SPECIFICATION Spec
CONSTANTS
  Notice = {note, poison}
  Poison = {poison}
  Flusher = {run, terminal}
  MaxAttempts = 2
  Retries = 2
  MaxFaults = 3
  MaxFlushDeaths = 1
  Live = {live}
  Cold = {cold}
  Strange = {strange}
  Suffixed = {live}
  MaxCommits = 1
  Keep = 2
  MaxName = 4
  MaxByHand = 1
  MaxLate = 1
  MaxNightDeaths = 1
  Kinds = {"symlink", "binary", "none"}
  Releases = 3
  MaxAuxNights = 3
  MaxAuxFaults = 2
INVARIANTS
  StoresTypeOK
  CopiesAreExcused
  PassMeansRestorable
  VerifiedRemains
  OthersStay
  ReportIsTrue
  FailureIsUndone
PROPERTIES
  ImplementsDelivery
  Settles
CHECK_DEADLOCK FALSE
