SPECIFICATION Spec
CONSTANTS
    d1 = d1
    d2 = d2
    g1 = g1
    g2 = g2
    CRD = {"localdisks"}
    Disk = {d1, d2}
    Group = {g1}
    GroupOf <- OneGroup
    ClusterSpecs <- PhaseSpecs
    Components = 3
    UpdateErrors = TRUE
    MaxVersion = 1
    MaxFaults = 1
    MaxEdits = 1
CONSTRAINTS
    DrbdBound
    BudgetBound
INVARIANTS
    TypeOK
    ReservedNotClaimed
    ClaimsFollowReservation
    WatchersFollowClaims
    WorkerPhaseCurrent
PROPERTIES
    ReservationComplete
    PhaseAdvancesInOrder
    JobNumKept
    ImplementsInstallation
