SPECIFICATION Spec
CONSTANTS
    W = 3
    SMALL = 3
    LARGE = 5
    LONG = 5
    BLOCKSIZE = 4
    CtrBits = 3
    IvLen = 3
    SizeBits = 7
    WordBits = 2
    R <- FieldR
    MaxSort = 9
    Keys = {1, 2, 3}
    MaxText = 5
    Alphabet <- NumeralChars
    MemSize = 6
    Chars = {0, 1, 2}
    MaxCalls = 4
    Multipliers <- SomeElements
    MaxBytes = 9
INVARIANTS ArithRight SortRight ParseRight StringsRight GcmRight
