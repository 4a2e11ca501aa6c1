\* As TcpEchoServer; is every echo exact?
CONSTANTS
    c1 = c1
    c2 = c2
    c3 = c3
    Client = {c1, c2}
    Invalid = Invalid
    MaxSocks = 2
    BufSize = 2
    Window = 1
    Bytes <- BytesOfEach
    MaxAgain = 1
SPECIFICATION Spec
INVARIANT EchoComplete
CHECK_DEADLOCK FALSE
