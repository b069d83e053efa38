SPECIFICATION FairSpec
CONSTANTS
    n1 = n1
    n2 = n2
    Node = {n1, n2}
    Master = {}
    DrbdSpecs <- RemovedSections
    InHwameistor = TRUE
    MaxFaults = 0
    MaxEdits = 1
    MaxDeletes = 1
PROPERTIES
    DeletedJobRetried
