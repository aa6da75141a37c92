--------------------------- MODULE MCRateLimiter ----------------------------
EXTENDS RateLimiter, TLC

CONSTANTS create, exchange, other, k1, k2, k3

\* The two limited actions of main.go, with windows of different length, and
\* one action the limiter has no limit for.
MCActions == {create, exchange, other}
MCLimits == create :> [Max |-> 2, Window |-> 3] @@ exchange :> [Max |-> 1, Window |-> 2]
OneLimit == create :> [Max |-> 2, Window |-> 2]
MCSymmetry == Permutations(Keys)
=============================================================================
