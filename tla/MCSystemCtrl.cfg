SPECIFICATION Spec
CONSTANTS
    WordLimit = 16
    ByteBits = 1
    NumRows = 4
    NumWords = 4
    Reg <- MCReg
    Byte <- MCByte
    Access = {}
    DbgAddr = {}
    InitialDM <- MCInitialDM
    Programs <- CtrlPrograms
    Alu <- AluPrim
    Cmp <- CmpPrim
    LoadValue <- LoadPrim
    StoreBytes <- StorePrim
INVARIANTS SysInv OneJump PcPipeline LinkIsNext
PROPERTIES ImplementsISA Progress
CHECK_DEADLOCK FALSE
