\* Two actions with windows of two and three seconds, two keys and room for two
\* buckets: prune runs when the short window has ended, evict has a choice, and a
\* restart may come at any time.
CONSTANTS
  create = create
  exchange = exchange
  other = other
  k1 = k1
  k2 = k2
  k3 = k3
  Actions <- MCActions
  Keys = {k1, k2}
  limits <- MCLimits
  maxTrackedBuckets = 2
  MaxClock = 2
  MaxCount = 3
  MaxGrants = 3
  Restarts = TRUE
SPECIFICATION Spec
INVARIANTS TypeOK TrackedBounded GrantsWithinQuota RefusedOnlyWhenSpent
SYMMETRY MCSymmetry
PROPERTY ImplementsQuota
