CONSTANTS
    TxBufNb = 3
    Contexts = {"main", "isr"}
    MaxFrames = 2
SPECIFICATION Spec
INVARIANT AcceptedIntact
CHECK_DEADLOCK FALSE
