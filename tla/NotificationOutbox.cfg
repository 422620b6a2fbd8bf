SPECIFICATION Spec
CONSTANTS
    Workers = {w1, w2}
    MaxAttempts = 2
    MaxVersion = 2
    MaxState = 2
SYMMETRY Symmetry
INVARIANT SoundDelivery
PROPERTIES DeliveredInOrder TerminalStays SuccessorKept
CHECK_DEADLOCK FALSE
