SPECIFICATION Spec
CONSTANTS
  Files = {f, g}
  Policies <- MCPolicies
  Base <- MCBase
  MaxHead = 2
  MaxTag = 2
  MaxNights = 2
  MaxNightFaults = 1
  Tests = {t, u, v}
  FlakyMax = 1
INVARIANTS
  NightlyTypeOK
  OfferIsSound
  OfferCanBeUndone
  GreenIsComplete
  PassedSuiteIsSound
CHECK_DEADLOCK FALSE
