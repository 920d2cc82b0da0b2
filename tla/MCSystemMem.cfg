SPECIFICATION Spec
CONSTANTS
    WordLimit = 16
    ByteBits = 1
    NumRows = 4
    NumWords = 4
    Reg <- MCReg
    Byte <- MCByte
    Access = {}
    DbgAddr = {}
    InitialDM <- MCInitialDM
    Programs <- MemPrograms
    Alu <- AluPrim
    Cmp <- CmpPrim
    LoadValue <- LoadPrim
    StoreBytes <- StorePrim
INVARIANTS TypeOK AccessIsEX
PROPERTY ImplementsISA
CHECK_DEADLOCK FALSE
