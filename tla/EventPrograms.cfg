\* Three programs, with seven changes of the network and two retries; and the BACnet
\* server on both media, with a second of two ticks and a count that wraps after seven.
CONSTANTS
    Program <- Programs
    MaxRetry = 2
    MaxIncidents = 7
    a1 = a1
    a2 = a2
    Ip = {a1, a2}
    None = None
    Sockets = {1, 2}
    Rate = 2
    Wrap = 7
    Changes = 4
SPECIFICATION Spec
INVARIANTS
    NeverSilent
    FailsForGood
    ApInUse
    StartedOnce
    SecondsApartUnlessWrapped
PROPERTIES
    ServesOn
CHECK_DEADLOCK FALSE
