SPECIFICATION FairSpec
CONSTANTS
    Complaints <- TwoComplaints
    Admins     <- OneAdmin
    Runs       <- OneRun
    Overlap    = FALSE
    MaxFaults  = 3
INVARIANTS
    EscalatedOnce
PROPERTIES
    OverdueIsFlagged
    HealthRecovers
    EscalationUnlessFaults
