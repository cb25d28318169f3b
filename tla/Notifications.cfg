SPECIFICATION FairSpec
CONSTANTS
    InAppNotes <- MCInAppNotes
    EmailNotes <- MCEmailNotes
    MaxFaults  = 3
INVARIANTS
    PendingIsAccountedFor
PROPERTIES
    ImplementsContract
    ResolvedEmailIsSettled
