\* Three clients over two slots, so that one may have to wait; a recv() may bring
\* more than a client's socket takes.
CONSTANTS
    c1 = c1
    c2 = c2
    c3 = c3
    Client = {c1, c2, c3}
    Invalid = Invalid
    MaxSocks = 2
    BufSize = 2
    Window = 1
    Bytes <- BytesOfEach
    MaxAgain = 1
SPECIFICATION Spec
INVARIANTS
    SlotsAreOpen
    NoCrossTalk
    EchoExact

    
CHECK_DEADLOCK FALSE
