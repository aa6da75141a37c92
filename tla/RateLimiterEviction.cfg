\* Eviction alone (no restart) grants more than Max calls in one window.
CONSTANTS
  create = create
  exchange = exchange
  other = other
  k1 = k1
  k2 = k2
  k3 = k3
  Actions <- MCActions
  Keys = {k1, k2}
  limits <- OneLimit
  maxTrackedBuckets = 2
  MaxClock = 2
  MaxCount = 3
  MaxGrants = 3
  Restarts = FALSE
SPECIFICATION Spec
INVARIANT PerWindowLimit
