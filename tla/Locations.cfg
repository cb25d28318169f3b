SPECIFICATION FormSpec
CONSTANTS
    Requests   = {1, 2, 3}
    Scenarios  <- MCScenarios
    MaxFaults  = 1
    Remote     <- MCRemote
    FirstRows  <- MCFirstRows
    Removed    <- MCRemoved
    Containing <- MCContaining
    Limit      = 2
    Multiples  <- MCMultiples
    Position   <- MCPosition
    Typed      <- MCTyped
    Default    <- MCDefault
CONSTRAINT Bounds
INVARIANTS
    AnswersAreComplete
    SelectionIsTyped
CHECK_DEADLOCK FALSE
