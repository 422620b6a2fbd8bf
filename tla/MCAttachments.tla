---------------------------- MODULE MCAttachments ----------------------------
EXTENDS Attachments, TLC

CONSTANTS c1, c2

TwoCreators == Permutations({c1, c2})

\* At most two requests are under way together, and one change of authority
\* or of policy is seen.
FewAtWork ==
    /\ Cardinality({r \in Requests : phase[r] \notin {"idle", "done"}}) <= 2
    /\ authority + policy <= 1
=============================================================================
