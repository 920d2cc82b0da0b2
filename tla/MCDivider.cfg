SPECIFICATION Spec
CONSTANTS
    W = 4
    Regs = {0, 1}
INVARIANTS DivTypeOK DivResult
PROPERTIES WriteAnnounced DivEnds
