CONSTANTS
    TxBufNb = 3
    Contexts = {"isr"}
    MaxFrames = 4
SPECIFICATION Spec
INVARIANT AcceptedIntact
CHECK_DEADLOCK FALSE
