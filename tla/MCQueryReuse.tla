---------------------------- MODULE MCQueryReuse ----------------------------
EXTENDS QueryReuse

CONSTANTS r1, r2, n1, n2

\* Neither requests nor replicas have names of their own: r1 is the request
\* that begins first, and n1 the replica where it does.
FirstByName ==
    /\ pc[r2] # "idle" => pc[r1] # "idle"
    /\ home[r1] = n1
    /\ pc[r2] = "idle" => home[r2] = n1
=============================================================================
