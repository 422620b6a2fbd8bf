SPECIFICATION Spec
CONSTANTS
    Setup = {s1}
    Call = {c1, c2}
    Owner = {o1, o2}
    Remote = {r1, r2}
    None = none
    MaxVersion = 2
    MaxChange = 2
INVARIANT OnceEach
PROPERTY ChangesUnderConfirmed
PROPERTY NoOverlap
SYMMETRY Symmetric
CONSTRAINT FewAtWork
