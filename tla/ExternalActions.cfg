SPECIFICATION FairSpec
CONSTANTS
    Ops = {o1}
    Procs = {p1, p2}
INVARIANT SoundEffect
PROPERTIES OutcomeFinal ImplementsWriteOutcome ClaimRecognised
CHECK_DEADLOCK FALSE
