SPECIFICATION Spec
CONSTANTS
    Requests   <- MCRequests
    Scenarios  <- MCScenarios
    MaxFaults  = 1
    Mahallas   = {"m1", "m2"}
    Users      = {"staff", "admin", "resident"}
    OpOf       <- MCOpOf
    ActorOf    <- MCActorOf
    RoleOf     <- MCRoleOf
    AskedOf    <- MCAskedOf
    ThingOf    <- MCThingOf
    StatusOf   <- MCStatusOf
    ItemsOf    <- MCItemsOf
    FilesOf    <- MCFilesOf
    Malformed  = {"undated"}
    TooLarge   = {"large"}
    FirstHomes <- MCFirstHomes
    MaxMoves   = 1
CONSTRAINT Bounds
INVARIANTS
    ReportIsWhole
    AuditTellsStatus
    ViewsAreOfHome
    RatedWasSubmitted
CHECK_DEADLOCK FALSE
