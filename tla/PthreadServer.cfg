\* Two clients over two descriptors, and a file of two and a half chunks.
CONSTANTS
    c1 = c1
    c2 = c2
    f1 = f1
    f2 = f2
    None = None
    Conn = {c1, c2}
    Fd = {f1, f2}
    FileSize = 5
    ChunkSize = 2
SPECIFICATION Spec
INVARIANTS
    OwnSocket
PROPERTIES
    ImplementsWhileAllocated
    ReadersFinished
CHECK_DEADLOCK FALSE
