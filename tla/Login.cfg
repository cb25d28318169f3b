SPECIFICATION Spec
CONSTANTS
    Requests    <- MCRequests
    Scenarios   <- MCScenarios
    MaxFaults   = 1
    OpOf        <- MCOpOf
    FlowOf      <- MCFlowOf
    ChallengeOf <- MCChallengeOf
    Max         <- MCMax
    Window      <- MCWindow
    CodeTtl      = 1
    ChallengeTtl = 1
    MaxAttempts  = 1
    Roles        = {"ADMIN", "RESIDENT"}
    MaxTime      = 3
    MaxChanges   = 1
CONSTRAINT Bounds
INVARIANTS
    AcceptedOnce
    TriesBounded
    JudgedByNewest
PROPERTY RateLimitHolds
CHECK_DEADLOCK FALSE
