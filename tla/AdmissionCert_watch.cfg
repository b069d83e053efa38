SPECIFICATION FairSpec
CONSTANTS
    Life = 5
    Margin = 2
    Fallback = 1
    Attempts = 2
    MaxTime = 7
    MaxFaults = 2
INVARIANTS
    TypeOK
    OneCheckPending
    RenewedInTime
    ServedInTime
PROPERTIES
    Regenerated
