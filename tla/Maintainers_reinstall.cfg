SPECIFICATION FairSpec
CONSTANTS
    Version = {"v1", "v2"}
    Chains <- ExporterAlone
    MaxClusters = 2
    MaxFaults = 0
    MaxDisturbances <- Disturbances
PROPERTIES
    Converged
