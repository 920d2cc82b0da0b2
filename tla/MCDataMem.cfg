SPECIFICATION DmSpec
CONSTANTS
    Byte <- MCByte
    NumRows = 2
    Access <- MCAccess
    InitialDM <- MCInitialDM
    DbgAddr <- MCDbgAddr
INVARIANTS DmTypeOK OneStorePending DmIInv
PROPERTY FlatMemory
