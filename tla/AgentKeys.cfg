\* Three requests of one user compete for one agent slot, one row lock
\* and two connections: creations race each other, revocations and crashes, and
\* revocations race authentications that write last_used_at.
CONSTANTS
  None = None
  r1 = r1
  r2 = r2
  r3 = r3
  u1 = u1
  u2 = u2
  a1 = a1
  a2 = a2
  a3 = a3
  Requests = {r1, r2, r3}
  Users = {u1}
  AgentIDs = {a1, a2}
  MaxAgentsPerUser = 1
  agentTouchInterval = 1
  poolMaxConns = 2
  MaxClock = 2
SPECIFICATION Spec
INVARIANTS TypeOK ActiveAgentsWithinLimit LockOnlyInTransaction KeyShownIsStored RevokedKeyRefused
PROPERTY RevocationIsFinal
SYMMETRY MCSymmetry
