CONSTANTS
    PoolSize = 2
    RefMod = 256
    MaxRecv = 1
SPECIFICATION Spec
INVARIANT PbufFreeAssertion
CHECK_DEADLOCK FALSE
