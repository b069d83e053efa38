SPECIFICATION Spec
CONSTANTS
    d1 = d1
    d2 = d2
    g1 = g1
    g2 = g2
    CRD = {"localdisks", "localdiskclaims"}
    Disk = {d1}
    Group = {g1}
    GroupOf <- OneDisk
    ClusterSpecs <- PlainSpecs
    Components = 3
    UpdateErrors = TRUE
    MaxVersion = 2
    MaxFaults = 2
    MaxEdits = 0
INVARIANTS
    CRDsCurrent
