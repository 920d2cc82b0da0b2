SPECIFICATION Spec
CONSTANTS
    FOPEN_MAX = 2
    NumStd = 1
    MaxStream = 3
INVARIANTS StdioTypeOK TableExact Backed
