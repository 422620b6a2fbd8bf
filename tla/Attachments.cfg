CONSTANTS
    c1 = c1
    c2 = c2
    Ops = {o1}
    Creators = {c1, c2}
    Readers = {r1}
    Quota = 1
    MaxRevision = 1
    MaxChange = 1
SPECIFICATION Spec
SYMMETRY TwoCreators
CONSTRAINT FewAtWork
INVARIANT RefusedIsGone
PROPERTY FreshArtifact
CHECK_DEADLOCK FALSE
