SPECIFICATION Spec
CONSTANTS
    Requests    <- MCRequests
    Scenarios   <- MCScenarios
    MaxFaults   = 1
    OpOf        <- MCOpOf
    Mahallas    <- MCMahallas
    FirstPlaces <- MCFirstPlaces
    MahallaOf   <- MCMahallaOf
    PlaceOf     <- MCPlaceOf
    Users       <- MCUsers
    FirstUsers  <- MCFirstUsers
    UserOf      <- MCUserOf
    PhoneOf     <- MCPhoneOf
    RoleOf      <- MCRoleOf
    Repositions = {"toStaff"}
    Selves      = {"leave"}
INVARIANTS
    RenameStands
    RowSpentOnce
    RemovedMeansOut
    StaffHaveProfiles
    RemovedMahallaIsEmpty
CHECK_DEADLOCK FALSE
