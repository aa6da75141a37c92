------------------------------ MODULE MCSignIn ------------------------------
EXTENDS SignIn, TLC

CONSTANTS r1, r2, i1, i2, u1, u2, t1, t2

MCSymmetry == Permutations(Requests) \cup Permutations(Identities)
                \cup Permutations(UserIDs) \cup Permutations(TokenIDs)
=============================================================================
