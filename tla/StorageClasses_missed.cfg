SPECIFICATION FairSpec
CHECK_DEADLOCK FALSE
CONSTANTS
    Node = {"n1"}
    PoolClass = {"HDD"}
    Sections <- ChartSection
    MaxJobs = 2
    MaxFaults = 0
    MaxChanges = 1
PROPERTIES
    PoolGetsClass
