\* Two requests with the keys of two agents of one user, on a quota of one event
\* per window, so that two creations compete for it; time to cross the end of a
\* window and to outlive a request's time limit.  A second user has no agent: no
\* request may act for it.
CONSTANTS
  None = None
  Blank = Blank
  r1 = r1
  r2 = r2
  u1 = u1
  u2 = u2
  a1 = a1
  a2 = a2
  e1 = e1
  e2 = e2
  c1 = c1
  Requests = {r1, r2}
  Users = {u1, u2}
  AgentIDs = {a1, a2}
  owner <- MCOwner
  EventIDs = {e1, e2}
  Contents = {c1}
  limits <- MCLimits
  Capacity = 2
  requestTimeout = 1
  MaxClock = 3
SPECIFICATION Spec
INVARIANTS EventsWithinQuota DatedNearCounting
PROPERTIES WritesAreAuthorized RevocationTakesHold
SYMMETRY MCSymmetry
