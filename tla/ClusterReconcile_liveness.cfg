SPECIFICATION FairSpec
CONSTANTS
    d1 = d1
    d2 = d2
    g1 = g1
    g2 = g2
    CRD = {"localdisks", "localdiskclaims"}
    Disk = {d1, d2}
    Group = {g1, g2}
    GroupOf <- TwoGroups
    ClusterSpecs <- SwitchSpecs
    Components = 3
    UpdateErrors = FALSE
    MaxVersion = 2
    MaxFaults = 1
    MaxEdits = 0
INVARIANTS
    CRDsCurrent
PROPERTIES
    Installed
