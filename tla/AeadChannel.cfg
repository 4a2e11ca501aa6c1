\* Both kinds of provider; three datagrams in each of two runs of the sender.
CONSTANTS
    Provider <- Providers
    MaxCounter = 3
    MaxBoots = 2
    MaxFlight = 2
SPECIFICATION AeadSpec
INVARIANTS
    NoncesGrow
    OpensWhatWasSealed
CHECK_DEADLOCK FALSE
