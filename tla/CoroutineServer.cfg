\* Two clients over two descriptors, windows that fill and drain; the second may
\* reuse the first one's descriptor.
CONSTANTS
    c1 = c1
    c2 = c2
    f1 = f1
    f2 = f2
    None = None
    Task = {c1, c2}
    Conn = {c1, c2}
    Fd = {f1, f2}
    FileSize = 3
    ChunkSize = 2
    Delay = 1
    MaxLate = 1
SPECIFICATION Spec
INVARIANTS
    OneResumption
    OwnSocket
    NeverOversleeps
PROPERTIES
    Implements
    ChunkSpacing
    EveryClientFinished
CHECK_DEADLOCK FALSE
