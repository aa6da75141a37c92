\* An update or delete that loses its event between read and write.  No faults:
\* every internal error is the race's.
CONSTANTS
  None = None
  Blank = Blank
  r1 = r1
  r2 = r2
  r3 = r3
  u1 = u1
  u2 = u2
  e1 = e1
  e2 = e2
  c1 = c1
  c2 = c2
  Requests = {r1, r2}
  Users = {u1}
  EventIDs = {e1}
  Contents = {c1}
  MaxClock = 1
  Faults = FALSE
SPECIFICATION Spec
INVARIANT MissingEventIsNotFound
