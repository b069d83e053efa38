SPECIFICATION FairSpec
CONSTANTS
    Version = {"v1", "v2"}
    Chains <- Singles
    MaxClusters = 2
    MaxFaults = 1
    MaxDisturbances <- Disturbances
INVARIANTS
    TypeOK
    RestMeansSettled
PROPERTIES
    CopiesConverge
