CONSTANTS
    PoolSize = 3
    RefMod = 256
    MaxRecv = 3
SPECIFICATION FairSpec
INVARIANTS
    TypeOK
    PoolSoundUnlessTaken
    AnsweredAtMostOnce
PROPERTY
    ReceptionAttended
CHECK_DEADLOCK FALSE
