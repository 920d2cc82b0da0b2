SPECIFICATION Spec
CONSTANTS
    CAPACITY = 3
    NumCtors = 2
    NumDtors = 2
    MaxReg = 4
    MaxExit = 2
INVARIANTS ExitTypeOK HandlersRunOnce DestructorsRun
PROPERTIES LastInFirstOut ExitEnds
CHECK_DEADLOCK FALSE
