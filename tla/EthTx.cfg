CONSTANTS
    TxBufNb = 3
    Contexts = {"main", "isr"}
    MaxFrames = 5
SPECIFICATION FairSpec
INVARIANTS
    ChainShape
    IntactUntilFull
    OversleepsOnlyAfterEarlyTest
PROPERTIES
    EveryDescriptorReturns
CHECK_DEADLOCK FALSE
