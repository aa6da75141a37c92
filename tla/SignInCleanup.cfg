\* Two tokens of one user that expire one after the other while the cleanup fails
\* now and then.  No symmetry: the property is a liveness property.
CONSTANTS
  None = None
  r1 = r1
  r2 = r2
  Requests = {r1}
  Identities = {i1}
  UserIDs = {u1}
  TokenIDs = {t1, t2}
  UserTokenTTL = 1
  MaxClock = 3
  i1 = i1
  i2 = i2
  u1 = u1
  u2 = u2
  t1 = t1
  t2 = t2
SPECIFICATION FairSpec
PROPERTY ExpiredTokensGo
