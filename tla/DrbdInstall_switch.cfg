SPECIFICATION Spec
CONSTANTS
    n1 = n1
    n2 = n2
    Node = {n1, n2}
    Master = {n1}
    DrbdSpecs <- SwitchSpecs
    InHwameistor = TRUE
    MaxFaults = 1
    MaxEdits = 1
    MaxDeletes = 1
INVARIANTS
    TypeOK
    DisabledLeavesNothing
    NoRetryAfterCompletion
    CompletionMeansInstalled
CONSTRAINTS
    SectionBound
