\* Every program; replies up to and past the buffer, in batches of two.
CONSTANTS
    Program <- Programs
    None = None
    Sockets = {1, 2}
    Buf = 6
    Expected = 6
    Batch = 2
    MaxAttempts = 4
    Window = 3
    Sizes = {0, 3, 5, 7}
    Losses = 2
SPECIFICATION Spec
INVARIANTS
    OneDescriptor
    ReplyIsWhole
PROPERTIES
    LossRestarts
    LossIsSeen
CHECK_DEADLOCK FALSE
