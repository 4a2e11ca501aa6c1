\* The nonces of two runs of the sender, of three datagrams each.
CONSTANTS
    Provider <- Providers
    MaxCounter = 3
    MaxBoots = 2
    MaxFlight = 2
SPECIFICATION AeadSpec
INVARIANTS
    NoncesUnique
CHECK_DEADLOCK FALSE
