\* Two clients that connect twice each; the third poll gives the wait up.
CONSTANTS
    c1 = c1
    c2 = c2
    Client = {c1, c2}
    Nobody = Nobody
    MaxTries = 3
    MaxPolls = 3
    Visits = 2
SPECIFICATION SshFairSpec
INVARIANTS
    GlobalsAreTheSessions
    ServedIsAuthenticated
PROPERTIES
    PendingTaken
CHECK_DEADLOCK FALSE
