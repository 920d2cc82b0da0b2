SPECIFICATION Spec
CONSTANTS
    BLOCK = 8
    LENPOS = 6
    LenBits = 16
    MaxLen = 40
INVARIANTS PaddingRight TestedLengths
CHECK_DEADLOCK FALSE
