SPECIFICATION Spec
CONSTANTS
    KillerPid <- P12
    CmdPid <- P13
    ListPid <- P125
    KidPids <- Kids
INVARIANT KillerFinishes
CHECK_DEADLOCK FALSE
