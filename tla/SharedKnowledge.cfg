CONSTANTS
    f1 = f1
    f2 = f2
    p1 = p1
    p2 = p2
    Owners = {a, b}
    Creator = a
    Tables = {t1}
    Examples = {e1}
    Values = {v1}
    Proposals = {p1, p2}
    Forms = {f1, f2}
    Absent = absent
    MaxRevision = 3
    MaxVersion = 2
    MaxPublished = 2
SPECIFICATION KnowledgeSpec
SYMMETRY Symmetry
CONSTRAINT OneSetback Rivals
PROPERTY PublishedAsReviewed NothingOverwritten
CHECK_DEADLOCK FALSE
