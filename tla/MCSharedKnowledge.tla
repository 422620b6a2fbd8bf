------------------------- MODULE MCSharedKnowledge -------------------------
EXTENDS SharedKnowledge, TLC

CONSTANTS f1, f2, p1, p2

Symmetry == Permutations({f1, f2}) \cup Permutations({p1, p2})

\* One of: a change of the members, a suspension, a rejection.
OneSetback ==
    (version - 1)
      + Cardinality({n \in DOMAIN published : published[n].suspended})
      + Cardinality({p \in Proposals :
            proposals[p] # Absent /\ proposals[p].state = "rejected"}) <= 1

\* The proposals are for one item.
Rivals ==
    \A p, q \in Proposals :
        proposals[p] # Absent /\ proposals[q] # Absent =>
            proposals[p].item = proposals[q].item
=============================================================================
