-------------------------- MODULE MCTemporarySetups --------------------------
EXTENDS TemporarySetups, FiniteSets, TLC

Symmetric ==
    Permutations(Setup) \cup Permutations(Call) \cup Permutations(Owner)
        \cup Permutations(Remote)

\* At most two posts and requests of the owner are under way at once.
FewAtWork ==
    Cardinality({c \in Call : calls[c].phase # "idle"})
        + Cardinality({o \in Owner : owners[o].phase # "idle"}) <= 2
=============================================================================
