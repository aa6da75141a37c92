\* Three requests of two owners on one event: two of them between their read and
\* their write while a third changes or deletes the event; faults and crashes.  Two
\* contents, so that an answer that is stale would show.
CONSTANTS
  None = None
  Blank = Blank
  r1 = r1
  r2 = r2
  r3 = r3
  u1 = u1
  u2 = u2
  e1 = e1
  e2 = e2
  c1 = c1
  c2 = c2
  Requests = {r1, r2, r3}
  Users = {u1, u2}
  EventIDs = {e1}
  Contents = {c1, c2}
  MaxClock = 2
  Faults = TRUE
SPECIFICATION Spec
INVARIANTS TypeOK NoResurrection
PROPERTIES OnlyOwnerWrites DeleteSucceedsOnce ImplementsStore
SYMMETRY MCSymmetry
