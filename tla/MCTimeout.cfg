SPECIFICATION Spec
CONSTANTS
    KillerPid <- P12
    CmdPid <- P13
    ListPid <- P34
    KidPids <- Kids
INVARIANTS ExitStatus NoKillerLeft KillsTree
PROPERTY ScriptEnds
CHECK_DEADLOCK FALSE
