SPECIFICATION Spec
CONSTANTS
    Complaints = {c1, c2}
    Admins     <- OneAdmin
    Runs       = {w1, w2}
    Overlap    = TRUE
    MaxFaults  = 1
SYMMETRY Symmetry
INVARIANTS
    ToldOnlyOfFlagged
    AuditMeansTold
