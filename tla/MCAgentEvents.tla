--------------------------- MODULE MCAgentEvents ----------------------------
EXTENDS AgentEvents, TLC

CONSTANTS r1, r2, u1, u2, a1, a2, e1, e2, c1

\* One user has both agents.
MCOwner == a1 :> u1 @@ a2 :> u1
MCLimits == create :> [Max |-> 1, Window |-> 2]
MCSymmetry == UNION {Permutations(Requests), Permutations(AgentIDs), Permutations(EventIDs)}
=============================================================================
