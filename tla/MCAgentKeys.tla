---------------------------- MODULE MCAgentKeys -----------------------------
EXTENDS AgentKeys, TLC

CONSTANTS r1, r2, r3, u1, u2, a1, a2, a3

MCSymmetry == Permutations(Requests) \cup Permutations(Users) \cup Permutations(AgentIDs)
=============================================================================
