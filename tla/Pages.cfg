SPECIFICATION Spec
CONSTANTS
    Tabs        = {1, 2}
    FirstRows   = {1, 2}
    Offered     <- Offers
    MaxRuns     = 4
    MaxFills    = 2
    MaxSessions = 2
    MaxFaults   = 1
CONSTRAINT Bounds
INVARIANTS
    ActsAreShown
    SentOnce
    SentWasTyped
PROPERTY SessionStays
CHECK_DEADLOCK FALSE
