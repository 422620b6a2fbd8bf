------------------------- MODULE MCCatalogPublication -------------------------
(* CatalogPublication for TLC.  Queries and previews are interchangeable.  *)
EXTENDS CatalogPublication, TLC

CONSTANT MaxAtWork

Symmetry == Permutations(Queries) \cup Permutations(Previews)

\* Bound on the previews, runs and requests under way at once.
FewAtWork ==
    Cardinality({n \in Previews : preview[n] # None})
      + Cardinality({r \in Runners : runner[r] # NoRun})
      + Cardinality({c \in Requests : ~Idle(c)}) <= MaxAtWork
=============================================================================
