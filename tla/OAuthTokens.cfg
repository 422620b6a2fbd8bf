SPECIFICATION OAuthSpec
CONSTANTS
    Flows = {f1}
    Calls = {c1, c2}
    Workers = {w1, w2}
    NoWorker = none
    FlowLife = 1
    CodeLife = 1
    AccessLife = 1
    GrantLife = 2
    MaxTime = 2
    MaxAuthority = 2
    MaxRecords = 5
INVARIANT OneHead
INVARIANT CleaningHoldsLease
PROPERTY ReplayEndsFamily
PROPERTY EndedIsFinal
CHECK_DEADLOCK FALSE
SYMMETRY Symmetry
CONSTRAINT FewAtWork
