SPECIFICATION Spec
CONSTANTS
    CheckIns  <- MCCheckIns
    CheckOuts <- MCCheckOuts
    Logs      <- MCLogs
    ActorOf    <- MCActorOf
    TargetOf   <- MCTargetOf
    RecordedOf <- MCRecordedOf
    None      = "none"
    Scenarios  <- MCScenarios
    MaxTime   = 1
    MaxFaults = 1
CONSTRAINT TimeMayPass
INVARIANTS
    OpenSessionsOverlapped
    SettledOnceAnswered
    ReportedMinutesStand
    OutsideIsAccountedFor
