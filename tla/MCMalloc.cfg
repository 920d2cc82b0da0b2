SPECIFICATION Spec
CONSTANTS
    nr_of_blocks = 3
    HDR_RESERVED = 64
    Requests <- MCRequests
    Vals <- MCVals
INVARIANTS MallocTypeOK PoolConsistent
PROPERTIES ImplementsHeap CallsReturn
