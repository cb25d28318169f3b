SPECIFICATION Spec
CONSTANTS
    Requests    <- MCRequests
    Scenarios   <- MCSession
    MaxFaults   = 0
    OpOf        <- MCOpOf
    Mahallas    <- MCMahallas
    FirstPlaces <- MCFirstPlaces
    MahallaOf   <- MCMahallaOf
    PlaceOf     <- MCPlaceOf
    Users       <- MCUsers
    FirstUsers  <- MCFirstUsers
    UserOf      <- MCUserOf
    PhoneOf     <- MCPhoneOf
    RoleOf      <- MCRoleOf
    Repositions = {"toStaff"}
    Selves      = {"leave"}
INVARIANTS
    SpentIsRefused
CHECK_DEADLOCK FALSE
