SPECIFICATION FairSpec
CONSTANTS
    Creates  <- AllCreates
    Updates  <- OneUpdate
    Responds <- BothResponds
    ActorOf     <- MCActorOf
    RoleOf      <- MCRoleOf
    ComplaintOf <- MCComplaintOf
    StatusOf    <- MCStatusOf
    MahallaOf   <- MCMahallaOf
    MediaOf     <- MCMediaOf
    Users    <- MCUsers
    Admins   <- OneAdmin
    Mahallas <- MCMahallas
    None     = "none"
    Media    <- TwoMedia
    UploaderOf <- MCUploaderOf
    MaxRequests = 3
    MaxMoves    = 1
    MaxFaults   = 1
CONSTRAINT OneStory
INVARIANTS
    NotesAreTrue
    AuditIsComplete
    ActedAtHome
    OldStatusWasHeld
    MediaHeldOnce
PROPERTIES
    ImplementsContract
    MediaStay
    AuditedUnlessFaults
