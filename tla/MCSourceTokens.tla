--------------------------- MODULE MCSourceTokens ---------------------------
EXTENDS SourceTokens, TLC

CONSTANTS
    p1,      \* the process of both gateways; others only change the source
    q1, w1,
    c1, c2, c3

MCHome == q1 :> p1 @@ w1 :> p1

\* Two calls of the queries and one of the operations.
TwoAndOne == c1 :> q1 @@ c2 :> q1 @@ c3 :> w1

SameGate == Permutations({c1, c2}) \cup Permutations(Attempt)
=============================================================================
