\* Two sign-ins, uses or logouts at once over two identities and two tokens that
\* live one unit of three, with failures, crashes and cleanups in between.
CONSTANTS
  None = None
  r1 = r1
  r2 = r2
  Requests = {r1, r2}
  Identities = {i1, i2}
  UserIDs = {u1, u2}
  TokenIDs = {t1, t2}
  UserTokenTTL = 1
  MaxClock = 3
  i1 = i1
  i2 = i2
  u1 = u1
  u2 = u2
  t1 = t1
  t2 = t2
SPECIFICATION Spec
INVARIANTS TypeOK SignedInAsIdentity DeadTokenRefused
PROPERTIES OneUserPerIdentity LiveTokenKept ImplementsSessions
SYMMETRY MCSymmetry
