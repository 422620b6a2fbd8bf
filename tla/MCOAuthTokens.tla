---------------------------- MODULE MCOAuthTokens ----------------------------
(* OAuthTokens for TLC.  Calls, and workers, are interchangeable; at most  *)
(* three of them are at work at once.                                      *)
EXTENDS OAuthTokens, TLC

MaxAtWork == 3

Symmetry == Permutations(Calls) \cup Permutations(Workers)

FewAtWork ==
    Cardinality({c \in Calls : Busy(c)})
        + Cardinality({w \in Workers : worker[w] # "idle"}) <= MaxAtWork
=============================================================================
