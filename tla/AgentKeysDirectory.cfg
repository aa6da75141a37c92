\* Two users, so that ownership matters, and two requests that fill a pool of two
\* connections, so that one waits for a row lock while the other holds it.  No
\* symmetry: EveryRequestAnswered is a liveness property.
CONSTANTS
  None = None
  r1 = r1
  r2 = r2
  r3 = r3
  u1 = u1
  u2 = u2
  a1 = a1
  a2 = a2
  a3 = a3
  Requests = {r1, r2}
  Users = {u1, u2}
  AgentIDs = {a1, a2}
  MaxAgentsPerUser = 1
  agentTouchInterval = 1
  poolMaxConns = 2
  MaxClock = 1
SPECIFICATION FairSpec
PROPERTIES EveryRequestAnswered ImplementsDirectory
