SPECIFICATION Spec
CONSTANTS
    p1 = p1
    q1 = q1
    w1 = w1
    c1 = c1
    c2 = c2
    c3 = c3
    Process = {p1}
    QueryGates = {q1}
    WriteGates = {w1}
    Call = {c1, c2, c3}
    Attempt = {a1, a2}
    Home <- MCHome
    Gate <- TwoAndOne
    None = none
    MaxAuth = 3
INVARIANT NoLateToken
INVARIANT OneLogin
INVARIANT OldAccountGone
INVARIANT CarrierIsOne
SYMMETRY SameGate
