\* Every test; three ports to bind and two descriptors, so that they run out.
CONSTANTS
    Test <- Tests
    Unset = Unset
    Fd = {1, 2}
    Binds = 3
SPECIFICATION TestsSpec
INVARIANTS
    AssertsHold
    NothingLeft
    UsedInTime
PROPERTIES
    MainReturns
CHECK_DEADLOCK FALSE
