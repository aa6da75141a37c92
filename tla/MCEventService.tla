--------------------------- MODULE MCEventService ---------------------------
EXTENDS EventService, TLC

CONSTANTS r1, r2, r3, u1, u2, e1, e2, c1, c2

MCSymmetry == UNION {Permutations(Requests), Permutations(Users),
                     Permutations(EventIDs), Permutations(Contents)}
=============================================================================
