CONSTANTS
    RxBufNb = 3
    FifoCap = 2
    MaxFrames = 7
    PoolSize = 3
    WindowFrames = 2
    MaxChain = 2
SPECIFICATION FairSpec
INVARIANTS
    TypeOK
    ChainShape
    InOrderOnce
    PbufsConserved
    UnseenOnlyFromExitWindow
PROPERTIES
    InterruptDrains
    FifoDrains
CHECK_DEADLOCK FALSE
