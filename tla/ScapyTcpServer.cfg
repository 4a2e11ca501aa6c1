\* Two clients, a buffer of two packets, a response of two segments.
CONSTANTS
    c1 = c1
    c2 = c2
    Conn = {c1, c2}
    None = None
    Cap = 2
    Segments = 2
    MaxTries = 1
SPECIFICATION Spec
INVARIANTS
    HandshakeIsCurrent
    DataAfterGet
    StopAndWait
PROPERTIES
    AlwaysReturns
CHECK_DEADLOCK FALSE
