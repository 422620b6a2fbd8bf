SPECIFICATION Spec
CONSTANTS
    Queries = {q1, q2}
    Fed = fed
    Runners = {r1}
    Requests = {c1}
    Previews = {v1, v2}
    None = none
    MaxChanges = 2
    MaxPublications = 2
    MaxAtWork = 2
INVARIANT StaleIsSuspended
PROPERTY PublishedAsTested
PROPERTY PublishedAsShown
PROPERTY FederationDelivers
SYMMETRY Symmetry
CONSTRAINT FewAtWork
CHECK_DEADLOCK FALSE
