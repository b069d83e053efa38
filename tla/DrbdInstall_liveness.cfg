SPECIFICATION FairSpec
CONSTANTS
    n1 = n1
    n2 = n2
    Node = {n1, n2}
    Master = {}
    DrbdSpecs <- FullSections
    InHwameistor = TRUE
    MaxFaults = 1
    MaxEdits = 0
    MaxDeletes = 1
PROPERTIES
    Recorded
    DeletedJobRetried
