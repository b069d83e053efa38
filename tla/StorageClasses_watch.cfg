SPECIFICATION RefreshedSpec
CHECK_DEADLOCK FALSE
CONSTANTS
    Node = {"n1"}
    PoolClass = {"HDD"}
    Sections <- AllSections
    MaxJobs = 2
    MaxFaults = 1
    MaxChanges = 3
INVARIANTS
    TypeOK
    ClassesHadPools
    VariantsHadJobs
PROPERTIES
    ClassesCreated
