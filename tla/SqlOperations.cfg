SPECIFICATION FairSpec
CONSTANTS
    Ops = {o1}
    Procs = {p1, p2, p3}
INVARIANTS SoundDispatch TerminalIsTrue
PROPERTIES KnownIsKept ImplementsWriteOutcome ImplementsWriteFence ClaimSettles
CHECK_DEADLOCK FALSE
