SPECIFICATION FairSpec
CONSTANTS
    Account = {"admin", "other"}
    Value = {"v1", "v2"}
    Clusters <- SomeClusters
    Settings <- SomeSettings
    MaxFaults = 1
    MaxDisturbances = 1
INVARIANTS
    TypeOK
    AccountBeforePods
PROPERTIES
    RulesKept
    EntriesKept
    WritesAreFinal
    Settled
