----------------------- MODULE ClusterReconcileProofs -----------------------
(* Proofs of the safety properties of ClusterReconcile, for every value of  *)
(* its constants.                                                           *)
EXTENDS ClusterReconcile, TLAPS

\* The first values of the counters are in their ranges.
LEMMA Bounds ==
    /\ 0 \in 0..MaxVersion /\ 1 \in 0..MaxVersion
    /\ 1 \in 1..MaxVersion /\ MaxVersion \in 1..MaxVersion
    /\ 0 \in 0..Components /\ Components \in 0..Components
    /\ 0 \in 0..MaxFaults
    /\ 0 \in 0..MaxEdits
  <1>1. MaxVersion \in Nat /\ MaxVersion >= 1
    BY ConstantsAssumption
  <1>2. Components \in Nat
    BY ConstantsAssumption
  <1>3. MaxFaults \in Nat
    BY ConstantsAssumption
  <1>4. MaxEdits \in Nat
    BY ConstantsAssumption
  <1>5. QED
    BY <1>1, <1>2, <1>3, <1>4

\* Types of the data that the actions build.

LEMMA DataTypes ==
    /\ NewStatus \in Status
    /\ NoDisk \in LocalDisk
    /\ NoSpec \in FullSpec
    /\ IdlePass \in Pass
    /\ IdleHandler \in [active: BOOLEAN, status: Status]
  <1>1. NewStatus \in Status
    BY DEF NewStatus, Status, Phase
  <1>2. NoDisk \in LocalDisk
    BY DEF NoDisk, LocalDisk
  <1>3. NoSpec \in FullSpec
    BY DEF NoSpec, FullSpec
  <1>4. IdlePass \in Pass
    BY <1>1, <1>2, <1>3, Bounds DEF IdlePass, Pass
  <1>5. QED
    BY <1>1, <1>2, <1>3, <1>4 DEF IdleHandler

\* A fault keeps its counter within the bound.
LEMMA FaultType ==
    ASSUME faults \in 0..MaxFaults, Fault
    PROVE  faults' \in 0..MaxFaults
  BY ConstantsAssumption DEF Fault

LEMMA UpdateStatusType ==
    ASSUME TypeOK, NEW status \in Status, NEW ACTION Continue,
           UpdateStatus(status, Continue)
    PROVE  /\ cluster' \in [spec: FullSpec, status: Status]
           /\ current' \in SUBSET {"worker", "handler"}
           /\ queued' \in BOOLEAN
           /\ faults' \in 0..MaxFaults
           /\ \/ Continue
              \/ pc' = "idle" /\ pass' = IdlePass /\ process' = process
  <1> USE DEF TypeOK
  <1>1. CASE "worker" \in current /\ StatusUpdated("worker", status)
             /\ Continue /\ UNCHANGED faults
    BY <1>1 DEF StatusUpdated
  <1>2. CASE "worker" \notin current /\ ReturnError
             /\ UNCHANGED <<cluster, current, process, faults>>
    BY <1>2 DEF ReturnError
  <1>3. CASE /\ Fault
             /\ ReturnError
             /\ \/ UNCHANGED <<cluster, current>>
                \/ /\ "worker" \in current
                   /\ cluster' = [cluster EXCEPT !.status = status]
                   /\ current' = IF status = cluster.status
                                 THEN current ELSE {}
             /\ UNCHANGED process
    BY <1>3, FaultType DEF ReturnError
  <1>4. QED
    BY <1>1, <1>2, <1>3 DEF UpdateStatus

-----------------------------------------------------------------------------
(* Type correctness *)

LEMMA PassTypes ==
    ASSUME TypeOK
    PROVE  /\ pass.spec \in FullSpec /\ pass.status \in Status
           /\ cluster.status \in Status /\ cluster.spec \in FullSpec
           /\ \A b \in BOOLEAN :
                [pass.status EXCEPT !.installedCRDS = b] \in Status
           /\ \A phase \in Phase : WithPhase(phase) \in Pass
  BY DEF TypeOK, Pass, Status, WithPhase

LEMMA LoopTypes ==
    ASSUME TypeOK
    PROVE  /\ \A d \in Disk : [pass EXCEPT !.disksLeft = @ \ {d}] \in Pass
           /\ \A g \in Group : [pass EXCEPT !.claimsLeft = @ \ {g}] \in Pass
  <1>1. ASSUME NEW d \in Disk
        PROVE  [pass EXCEPT !.disksLeft = @ \ {d}] \in Pass
    <2>1. pass.disksLeft \ {d} \in SUBSET Disk
      BY DEF TypeOK, Pass
    <2>2. QED
      BY <2>1 DEF TypeOK, Pass
  <1>2. ASSUME NEW g \in Group
        PROVE  [pass EXCEPT !.claimsLeft = @ \ {g}] \in Pass
    <2>1. pass.claimsLeft \ {g} \in SUBSET Group
      BY DEF TypeOK, Pass
    <2>2. QED
      BY <2>1 DEF TypeOK, Pass
  <1>3. QED
    BY <1>1, <1>2

LEMMA DrbdTypes ==
    ASSUME TypeOK
    PROVE  /\ [pass EXCEPT !.status.drbdCreated = TRUE] \in Pass
           /\ [pass EXCEPT !.status.drbdCreated = FALSE,
                           !.status.jobNum = 0] \in Pass
  <1>1. pass \in Pass /\ pass.status \in Status
    BY PassTypes DEF TypeOK
  <1>2. [pass.status EXCEPT !.drbdCreated = TRUE] \in Status
    BY <1>1 DEF Status
  <1>3. 0 \in 0..1
    OBVIOUS
  <1>4. [pass.status EXCEPT !.drbdCreated = FALSE, !.jobNum = 0] \in Status
    BY <1>1, <1>3 DEF Status
  <1>5. QED
    BY <1>1, <1>2, <1>4 DEF Pass

\* A pass stays one when the maintainers have reported.
LEMMA ReportType ==
    ASSUME TypeOK, NEW m \in 0..Components, NEW b \in BOOLEAN
    PROVE  [pass EXCEPT !.known = m, !.status.healthy = b] \in Pass
  <1>1. pass \in Pass /\ pass.status \in Status
    BY PassTypes DEF TypeOK
  <1>2. [pass.status EXCEPT !.healthy = b] \in Status
    BY <1>1 DEF Status
  <1>3. QED
    BY <1>1, <1>2 DEF Pass

\* A disk stays one when it is marked reserved.
LEMMA ReservedDiskType ==
    ASSUME TypeOK, NEW d \in Disk
    PROVE  [disks EXCEPT ![d].reserved = TRUE] \in [Disk -> LocalDisk]
  <1>1. disks[d] \in LocalDisk
    BY DEF TypeOK
  <1>2. [disks[d] EXCEPT !.reserved = TRUE] \in LocalDisk
    BY <1>1 DEF LocalDisk
  <1>3. QED
    BY <1>2 DEF TypeOK

LEMMA ReconcileType ==
    ASSUME TypeOK, Reconcile
    PROVE  TypeOK'
  <1> USE DataTypes, PassTypes DEF TypeOK
  <1>1. CASE StartReconcile
    <2>1. pass' \in Pass
      BY <1>1, ZenonT(60) DEF StartReconcile, Pass
    <2>2. QED
      BY <1>1, <2>1, FaultType, ZenonT(60) DEF StartReconcile, WorkerStates
  <1>2. CASE EnsureTargetNamespaceExist
    BY <1>2, FaultType, ZenonT(60)
       DEF EnsureTargetNamespaceExist, ReturnError, WorkerStates
  <1>3. CASE ResetInstalledCRDS
    <2> DEFINE status == [pass.status EXCEPT !.installedCRDS = FALSE]
               Continue == /\ Return
                           /\ process' = [process EXCEPT !.specGeneration = TRUE]
    <2>1. status \in Status /\ UpdateStatus(status, Continue)
      BY <1>3 DEF ResetInstalledCRDS
    <2> HIDE DEF status, Continue
    <2>2. /\ cluster' \in [spec: FullSpec, status: Status]
          /\ current' \in SUBSET {"worker", "handler"}
          /\ queued' \in BOOLEAN
          /\ faults' \in 0..MaxFaults
          /\ \/ Continue
             \/ pc' = "idle" /\ pass' = IdlePass /\ process' = process
      BY <2>1, UpdateStatusType
    <2>3. /\ pc' = "idle" /\ pass' = IdlePass
          /\ process' \in [version: 1..MaxVersion, specGeneration: BOOLEAN,
                           watching: BOOLEAN]
      BY <2>2 DEF Continue, Return
    <2>4. QED
      BY <1>3, <2>2, <2>3 DEF ResetInstalledCRDS, WorkerStates
  <1>4. CASE InstallCRDs
    <2>1. PICK written \in SUBSET CRD :
            /\ crds' = [c \in CRD |-> IF c \in written THEN process.version
                                                     ELSE crds[c]]
            /\ \/ pc' = "installed" /\ UNCHANGED <<pass, queued, faults>>
               \/ pc' = "installed" /\ Fault /\ UNCHANGED <<pass, queued>>
               \/ Fault /\ ReturnError
      BY <1>4 DEF InstallCRDs
    <2>2. crds' \in [CRD -> 0..MaxVersion]
      BY <2>1, ConstantsAssumption
    <2>3. /\ pc' \in {"idle", "installed"}
          /\ pass' \in Pass
          /\ queued' \in BOOLEAN
          /\ faults' \in 0..MaxFaults
      <3>1. Fault \/ UNCHANGED faults
        BY <2>1
      <3>2. QED
        BY <2>1, <3>1, FaultType DEF ReturnError
    <2>4. QED
      BY <1>4, <2>2, <2>3 DEF InstallCRDs, WorkerStates
  <1>5. CASE RecordInstalledCRDS
    <2> DEFINE status == [pass.status EXCEPT !.installedCRDS = TRUE]
               Continue == /\ pc' = "components"
                           /\ pass' = [pass EXCEPT !.status = status]
                           /\ UNCHANGED process
    <2>1. status \in Status /\ UpdateStatus(status, Continue)
      BY <1>5 DEF RecordInstalledCRDS
    <2> HIDE DEF status, Continue
    <2>2. /\ cluster' \in [spec: FullSpec, status: Status]
          /\ current' \in SUBSET {"worker", "handler"}
          /\ queued' \in BOOLEAN
          /\ faults' \in 0..MaxFaults
          /\ \/ Continue
             \/ pc' = "idle" /\ pass' = IdlePass /\ process' = process
      BY <2>1, UpdateStatusType
    <2>3. /\ pc' \in {"idle", "components"}
          /\ pass' \in Pass
          /\ process' = process
      BY <2>1, <2>2 DEF Continue, Pass
    <2>4. QED
      BY <1>5, <2>2, <2>3 DEF RecordInstalledCRDS, WorkerStates
  <1>6. CASE EnsureComponents
    <2>1. /\ work.made \in 0..Components
          /\ \A m \in work.made..Components : m \in 0..Components
          /\ Components \in 0..Components
      BY ConstantsAssumption
    <2>2. work' \in [made: 0..Components, up: BOOLEAN, podsSeen: BOOLEAN]
      BY <1>6, <2>1 DEF EnsureComponents
    <2>3. /\ pc' \in {"idle", "drbd"}
          /\ queued' \in BOOLEAN
          /\ Fault \/ UNCHANGED faults
      BY <1>6 DEF EnsureComponents, ReturnError
    <2>4. faults' \in 0..MaxFaults
      BY <2>3, FaultType
    <2>5. pass' \in Pass
      <3> DEFINE healthy == work.made = Components /\ work.up
      <3>1. \/ pass' = IdlePass
            \/ pass' = [pass EXCEPT !.known = work.made,
                                    !.status.healthy = healthy]
        BY <1>6 DEF EnsureComponents, ReturnError
      <3>2. healthy \in BOOLEAN
        OBVIOUS
      <3> HIDE DEF healthy
      <3>3. QED
        <4>1. [pass EXCEPT !.known = work.made, !.status.healthy = healthy]
                \in Pass
          BY <2>1, <3>2, ReportType, Zenon
        <4>2. QED
          BY <3>1, <4>1, DataTypes, Zenon
    <2>6. QED
      BY <1>6, <2>2, <2>3, <2>4, <2>5 DEF EnsureComponents, WorkerStates
  <1>7. CASE EnsureDRBD
    <2>1. /\ pc' \in {"idle", "phase"}
          /\ queued' \in BOOLEAN
          /\ \/ pass' = IdlePass
             \/ pass' = pass
             \/ pass' = [pass EXCEPT !.status.drbdCreated = TRUE]
             \/ pass' = [pass EXCEPT !.status.drbdCreated = FALSE,
                                     !.status.jobNum = 0]
          /\ Fault \/ UNCHANGED faults
      BY <1>7 DEF EnsureDRBD, ReturnError
    <2>2. pass' \in Pass /\ faults' \in 0..MaxFaults
      BY <2>1, FaultType, DrbdTypes
    <2>3. job' \in [running: BOOLEAN, complete: BOOLEAN, event: BOOLEAN]
      BY <1>7 DEF EnsureDRBD
    <2>4. QED
      BY <1>7, <2>1, <2>2, <2>3 DEF EnsureDRBD, WorkerStates
  <1>8. CASE CheckComponents
    BY <1>8, FaultType DEF CheckComponents, Think, Elsewhere, WorkerStates,
                           Phase
  <1>9. CASE PanicOnMissingStatus
    BY <1>9 DEF PanicOnMissingStatus, Restart, WorkerStates
  <1>10. CASE ListDisksToReserve
    <2>1. WithPhase("ToReserve") \in Pass
      BY DEF Phase
    <2>2. DisksToReserve(pass.spec, cache) \in SUBSET Disk
      BY DEF DisksToReserve
    <2>3. CASE ListFails
      BY <1>10, <2>3, FaultType DEF ListDisksToReserve, ListFails, Elsewhere, ReturnError,
                                  WorkerStates
    <2>4. CASE ~ListFails
      <3>1. pass' \in Pass
        BY <1>10, <2>1, <2>2, <2>4, ZenonT(60) DEF ListDisksToReserve, Think, Pass
      <3>2. QED
        BY <1>10, <2>4, <3>1 DEF ListDisksToReserve, Think, Elsewhere, WorkerStates
    <2>5. QED
      BY <2>3, <2>4
  <1>11. CASE \E d \in Disk : ReserveDisk(d)
    <2>1. PICK d \in Disk : ReserveDisk(d)
      BY <1>11
    <2>2. disks' \in [Disk -> LocalDisk]
      BY <2>1, ReservedDiskType DEF ReserveDisk
    <2>3. /\ pc' \in {"idle", "reserving"}
          /\ queued' \in BOOLEAN
          /\ pass' = IdlePass \/ pass' = [pass EXCEPT !.disksLeft = @ \ {d}]
          /\ Fault \/ UNCHANGED faults
      BY <2>1 DEF ReserveDisk, ReturnError
    <2>5. pass' \in Pass
      BY <2>3, LoopTypes
    <2>6. faults' \in 0..MaxFaults
      BY <2>3, FaultType
    <2>4. QED
      BY <2>1, <2>2, <2>3, <2>5, <2>6 DEF ReserveDisk, WorkerStates
  <1>12. CASE FinishReserving
    BY <1>12, ZenonT(60)
       DEF FinishReserving, Think, Elsewhere, WorkerStates, Phase
  <1>13. CASE SkipClaims
    BY <1>13, ZenonT(60) DEF SkipClaims, Think, Elsewhere, WorkerStates, Phase
  <1>14. CASE ListDisksToClaim
    <2>1. WithPhase("Reserved") \in Pass
      BY DEF Phase
    <2>2. GenerateLocalDiskClaims(SiftAvailableAndUnreservedDisks(cache))
            \in SUBSET Group
      BY ConstantsAssumption
         DEF GenerateLocalDiskClaims, SiftAvailableAndUnreservedDisks
    <2>3. CASE ListFails
      BY <1>14, <2>3, FaultType DEF ListDisksToClaim, ListFails, Elsewhere, ReturnError,
                                  WorkerStates
    <2>4. CASE ~ListFails
      <3>1. pass' \in Pass
        BY <1>14, <2>1, <2>2, <2>4 DEF ListDisksToClaim, Think, Pass
      <3>2. QED
        BY <1>14, <2>4, <3>1 DEF ListDisksToClaim, Think, Elsewhere, WorkerStates
    <2>5. QED
      BY <2>3, <2>4
  <1>15. CASE \E g \in Group : CreateLocalDiskClaim(g)
    <2>1. PICK g \in Group : CreateLocalDiskClaim(g)
      BY <1>15
    <2>2. claims' \in [Group -> ClaimState]
      BY <2>1 DEF CreateLocalDiskClaim, ClaimState
    <2>3. /\ pc' \in {"idle", "claiming"}
          /\ queued' \in BOOLEAN
          /\ pass' = IdlePass \/ pass' = [pass EXCEPT !.claimsLeft = @ \ {g}]
          /\ Fault \/ UNCHANGED faults
      BY <2>1 DEF CreateLocalDiskClaim, ReturnError
    <2>5. pass' \in Pass
      BY <2>3, LoopTypes
    <2>6. faults' \in 0..MaxFaults
      BY <2>3, FaultType
    <2>4. QED
      BY <2>1, <2>2, <2>3, <2>5, <2>6 DEF CreateLocalDiskClaim, WorkerStates
  <1>16. CASE FinishClaiming
    BY <1>16, ZenonT(60) DEF FinishClaiming, Think, Elsewhere, WorkerStates, Phase
  <1>17. CASE StartWatchers
    BY <1>17 DEF StartWatchers, WorkerStates
  <1>18. CASE UpdateFinalStatus
    <2> DEFINE Continue == Return /\ UNCHANGED process
    <2>1. \/ UpdateStatus(pass.status, Continue)
          \/ Return /\ UNCHANGED <<cluster, current, queued, process, faults>>
      BY <1>18 DEF UpdateFinalStatus
    <2> HIDE DEF Continue
    <2>2. /\ cluster' \in [spec: FullSpec, status: Status]
          /\ current' \in SUBSET {"worker", "handler"}
          /\ queued' \in BOOLEAN
          /\ faults' \in 0..MaxFaults
          /\ \/ Continue
             \/ Return /\ process' = process
             \/ pc' = "idle" /\ pass' = IdlePass /\ process' = process
      BY <2>1, UpdateStatusType
    <2>3. pc' = "idle" /\ pass' = IdlePass /\ process' = process
      BY <2>2 DEF Continue, Return
    <2>4. QED
      BY <1>18, <2>2, <2>3 DEF UpdateFinalStatus, WorkerStates
  <1>19. QED
    BY <1>1, <1>2, <1>3, <1>4, <1>5, <1>6, <1>7, <1>8, <1>9, <1>10, <1>11,
       <1>12, <1>13, <1>14, <1>15, <1>16, <1>17, <1>18 DEF Reconcile

LEMMA RestartType ==
    ASSUME TypeOK, NEW version \in 1..MaxVersion, Restart(version),
           Fault \/ UNCHANGED faults
    PROVE  TypeOK'
  <1>1. faults' \in 0..MaxFaults
    BY FaultType DEF TypeOK
  <1>2. QED
    BY <1>1, DataTypes DEF TypeOK, Restart, WorkerStates

LEMMA HandlerType ==
    ASSUME TypeOK, HandleDrbdJobUpdate
    PROVE  TypeOK'
  <1> USE DataTypes, PassTypes DEF TypeOK
  <1>1. CASE ReadForDrbdJob
    <2>1. Fault \/ UNCHANGED faults
      BY <1>1 DEF ReadForDrbdJob
    <2>2. faults' \in 0..MaxFaults
      BY <2>1, FaultType
    <2>3. job' \in [running: BOOLEAN, complete: BOOLEAN, event: BOOLEAN]
      BY <1>1 DEF ReadForDrbdJob
    <2>4. /\ handler' \in [active: BOOLEAN, status: Status]
          /\ current' \in SUBSET {"worker", "handler"}
      <3>1. \/ /\ handler' = [active |-> TRUE, status |-> cluster.status]
               /\ current' = current \cup {"handler"}
            \/ UNCHANGED <<handler, current>>
        BY <1>1 DEF ReadForDrbdJob
      <3>2. [active |-> TRUE, status |-> cluster.status]
              \in [active: BOOLEAN, status: Status]
        OBVIOUS
      <3>3. current \cup {"handler"} \in SUBSET {"worker", "handler"}
        OBVIOUS
      <3>4. QED
        BY <3>1, <3>2, <3>3
    <2>5. QED
      BY <1>1, <2>2, <2>3, <2>4 DEF ReadForDrbdJob
  <1>2. CASE WriteForDrbdJob
    <2> DEFINE status == [handler.status EXCEPT !.drbdCreated = TRUE,
                                                !.jobNum = 1]
    <2>1. 1 \in 0..1
      OBVIOUS
    <2>2. status \in Status
      BY <2>1 DEF Status
    <2> HIDE DEF status
    <2>3. /\ \/ StatusUpdated("handler", status)
             \/ UNCHANGED <<cluster, current, queued>>
          /\ Fault \/ UNCHANGED faults
      BY <1>2 DEF WriteForDrbdJob, status
    <2>4. /\ cluster' \in [spec: FullSpec, status: Status]
          /\ current' \in SUBSET {"worker", "handler"}
          /\ queued' \in BOOLEAN
      BY <2>2, <2>3 DEF StatusUpdated
    <2>5. faults' \in 0..MaxFaults
      BY <2>3, FaultType
    <2>6. QED
      BY <1>2, <2>4, <2>5 DEF WriteForDrbdJob
  <1>3. QED
    BY <1>1, <1>2 DEF HandleDrbdJobUpdate

LEMMA EnvironmentType ==
    ASSUME TypeOK, Environment
    PROVE  TypeOK'
  <1> USE DEF TypeOK
  <1>1. CASE EditSpec
    <2>1. edits' \in 0..MaxEdits
      BY <1>1, ConstantsAssumption DEF EditSpec
    <2>2. QED
      BY <1>1, <2>1, ConstantsAssumption DEF EditSpec, Operator
  <1>2. CASE ComponentsUp
    BY <1>2 DEF ComponentsUp, Operator
  <1>3. CASE ObservePods
    BY <1>3 DEF ObservePods, Operator
  <1>4. CASE PodsFail
    BY <1>4, FaultType DEF PodsFail, Operator
  <1>5. CASE JobCompletes
    BY <1>5 DEF JobCompletes, Operator
  <1>6. CASE \E d \in Disk : DiscoverDisk(d)
    <2>1. PICK d \in Disk, state \in {"available", "system"} :
             disks' = [disks EXCEPT ![d].state = state]
      BY <1>6 DEF DiscoverDisk
    <2>2. disks[d] \in LocalDisk
      OBVIOUS
    <2>3. [disks[d] EXCEPT !.state = state] \in LocalDisk
      BY <2>2 DEF LocalDisk
    <2>4. disks' \in [Disk -> LocalDisk]
      BY <2>1, <2>3
    <2>5. QED
      BY <1>6, <2>4 DEF DiscoverDisk, Operator
  <1>7. CASE \E d \in Disk : ObserveDisk(d)
    BY <1>7 DEF ObserveDisk, Operator
  <1>8. CASE \E g \in Group : BindClaim(g)
    <2>1. PICK g \in Group : BindClaim(g)
      BY <1>8
    <2>2. \A d \in Disk : [disks[d] EXCEPT !.state = "claimed"] \in LocalDisk
      BY DEF LocalDisk
    <2>3. disks' \in [Disk -> LocalDisk]
      BY <2>1, <2>2 DEF BindClaim
    <2>4. claims' \in [Group -> ClaimState]
      BY <2>1 DEF BindClaim, ClaimState
    <2>5. QED
      BY <2>1, <2>3, <2>4 DEF BindClaim, Operator
  <1>9. CASE \E g \in Group : DeleteClaim(g)
    BY <1>9 DEF DeleteClaim, Operator, ClaimState
  <1>10. CASE Resync
    BY <1>10 DEF Resync, Operator
  <1>11. QED
    BY <1>1, <1>2, <1>3, <1>4, <1>5, <1>6, <1>7, <1>8, <1>9, <1>10
       DEF Environment

LEMMA InitType == Init => TypeOK
  <1> SUFFICES ASSUME Init PROVE TypeOK
    OBVIOUS
  <1>1. PICK spec \in ClusterSpecs, state \in {"", "ToReserve", "Reserved"} :
           /\ cluster = [spec |-> spec,
                         status |-> [NewStatus EXCEPT
                                        !.installedCRDS = (state # ""),
                                        !.diskReserveState = state]]
           /\ namespace = (state # "")
           /\ crds = [c \in CRD |-> IF state # "" THEN 1 ELSE 0]
           /\ work = [made |-> IF state # "" THEN Components ELSE 0,
                      up |-> FALSE, podsSeen |-> FALSE]
           /\ process = [version |-> IF state # "" THEN MaxVersion ELSE 1,
                         specGeneration |-> FALSE, watching |-> FALSE]
    BY DEF Init
  <1>2. cluster \in [spec: FullSpec, status: Status]
    <2>1. (state # "") \in BOOLEAN
      OBVIOUS
    <2>2. NewStatus \in Status
      BY DataTypes
    <2>3. [NewStatus EXCEPT !.installedCRDS = (state # ""),
                            !.diskReserveState = state] \in Status
      BY <2>1, <2>2 DEF Status
    <2>4. spec \in FullSpec
      BY ConstantsAssumption
    <2>5. QED
      BY <1>1, <2>3, <2>4
  <1>3. /\ crds \in [CRD -> 0..MaxVersion]
        /\ work \in [made: 0..Components, up: BOOLEAN, podsSeen: BOOLEAN]
        /\ process \in [version: 1..MaxVersion, specGeneration: BOOLEAN,
                        watching: BOOLEAN]
    <2>1. CASE state = ""
      BY <1>1, <2>1, Bounds
    <2>2. CASE state # ""
      BY <1>1, <2>2, Bounds
    <2>3. QED
      BY <2>1, <2>2
  <1>4. faults \in 0..MaxFaults /\ edits \in 0..MaxEdits
    <2>1. faults = 0 /\ edits = 0
      BY DEF Init
    <2>2. QED
      BY <2>1, Bounds
  <1>5. namespace \in BOOLEAN
    BY <1>1
  <1>6. QED
    BY <1>2, <1>3, <1>4, <1>5, DataTypes
       DEF Init, TypeOK, WorkerStates, ClaimState

\* Every variable keeps its type.
THEOREM TypeCorrect == Spec => []TypeOK
  <1>1. TypeOK /\ [Next]_vars => TypeOK'
    <2> SUFFICES ASSUME TypeOK, [Next]_vars PROVE TypeOK'
      OBVIOUS
    <2>1. CASE Crash
      <3>1. PICK version \in process.version..MaxVersion : Restart(version)
        BY <2>1 DEF Crash
      <3>2. version \in 1..MaxVersion
        BY <3>1, ConstantsAssumption DEF TypeOK
      <3>3. QED
        BY <2>1, <3>1, <3>2, RestartType DEF Crash
    <2>2. CASE UNCHANGED vars
      BY <2>2 DEF vars, TypeOK
    <2>3. QED
      BY <2>1, <2>2, ReconcileType, HandlerType, EnvironmentType DEF Next
  <1>2. QED
    BY <1>1, InitType, PTL DEF Spec

-----------------------------------------------------------------------------
(* Safety *)

\* A handler whose copy is not stale has the status of the API server.
HandlerCurrent ==
    handler.active /\ "handler" \in current => handler.status = cluster.status

\* The inductive invariant.  The two properties wanted of the disks need to
\* know where the worker is relative to the phase in the API server, and that
\* in turn needs the other writer's copy to be the API server's status
\* whenever its write can succeed.
IInv ==
    /\ WorkerPhaseCurrent
    /\ HandlerCurrent
    /\ ClaimsFollowReservation
    /\ ReservedNotClaimed
    /\ WatchersFollowClaims

LEMMA UpdateStatusEffect ==
    ASSUME TypeOK, NEW status \in Status, NEW ACTION Continue,
           UpdateStatus(status, Continue)
    PROVE  /\ \/ cluster' = cluster
              \/ cluster' = [cluster EXCEPT !.status = status]
           /\ "handler" \in current' => "handler" \in current /\ cluster' = cluster
           /\ \/ Continue /\ cluster' = [cluster EXCEPT !.status = status]
              \/ pc' = "idle" /\ process' = process
  <1>1. cluster \in [spec: FullSpec, status: Status]
    BY DEF TypeOK
  <1>2. CASE "worker" \in current /\ StatusUpdated("worker", status)
             /\ Continue /\ UNCHANGED faults
    BY <1>1, <1>2 DEF StatusUpdated
  <1>3. CASE "worker" \notin current /\ ReturnError
             /\ UNCHANGED <<cluster, current, process, faults>>
    BY <1>3 DEF ReturnError
  <1>4. CASE /\ Fault
             /\ ReturnError
             /\ \/ UNCHANGED <<cluster, current>>
                \/ /\ "worker" \in current
                   /\ cluster' = [cluster EXCEPT !.status = status]
                   /\ current' = IF status = cluster.status
                                 THEN current ELSE {}
             /\ UNCHANGED process
    BY <1>1, <1>4 DEF ReturnError
  <1>5. QED
    BY <1>2, <1>3, <1>4 DEF UpdateStatus

\* The values that the phase of a status may be adopted from or set to.
LEMMA AdoptedPhaseFacts ==
    ASSUME NEW status \in Status
    PROVE  /\ AdoptedPhase(status) \in Phase
           /\ \A b \in BOOLEAN :
                AdoptedPhase([status EXCEPT !.installedCRDS = b])
                    = AdoptedPhase(status)
           /\ \A b \in BOOLEAN, n \in 0..1 :
                AdoptedPhase([status EXCEPT !.drbdCreated = b, !.jobNum = n])
                    = AdoptedPhase(status)
           /\ \A b \in BOOLEAN :
                AdoptedPhase([status EXCEPT !.drbdCreated = b])
                    = AdoptedPhase(status)
           /\ \A b \in BOOLEAN :
                AdoptedPhase([status EXCEPT !.healthy = b])
                    = AdoptedPhase(status)
           /\ \A phase \in Phase \ {""} :
                AdoptedPhase([status EXCEPT !.phase = phase]) = phase
  BY DEF AdoptedPhase, Status, Phase

\* The steps that write the status of the Cluster, and what they do to it.
LEMMA PhaseMoves ==
    ASSUME TypeOK, WorkerPhaseCurrent, HandlerCurrent, [Next]_vars
    PROVE  \/ ClusterPhase' = ClusterPhase
           \/ /\ UpdateFinalStatus
              /\ ClusterPhase' = AdoptedPhase(pass.status)
  <1> USE PassTypes
  <1>1. CASE ResetInstalledCRDS
    <2> DEFINE status == [pass.status EXCEPT !.installedCRDS = FALSE]
               Continue == /\ Return
                           /\ process' = [process EXCEPT !.specGeneration = TRUE]
    <2>1. status \in Status /\ UpdateStatus(status, Continue)
      BY <1>1 DEF ResetInstalledCRDS
    <2>2. AdoptedPhase(status) = ClusterPhase
      BY <1>1, AdoptedPhaseFacts DEF ResetInstalledCRDS, WorkerPhaseCurrent
    <2> HIDE DEF status, Continue
    <2>3. cluster' = cluster \/ cluster' = [cluster EXCEPT !.status = status]
      BY <2>1, UpdateStatusEffect
    <2>4. QED
      BY <2>2, <2>3 DEF ClusterPhase, TypeOK
  <1>2. CASE RecordInstalledCRDS
    <2> DEFINE status == [pass.status EXCEPT !.installedCRDS = TRUE]
               Continue == /\ pc' = "components"
                           /\ pass' = [pass EXCEPT !.status = status]
                           /\ UNCHANGED process
    <2>1. status \in Status /\ UpdateStatus(status, Continue)
      BY <1>2 DEF RecordInstalledCRDS
    <2>2. AdoptedPhase(status) = ClusterPhase
      BY <1>2, AdoptedPhaseFacts DEF RecordInstalledCRDS, WorkerPhaseCurrent
    <2> HIDE DEF status, Continue
    <2>3. cluster' = cluster \/ cluster' = [cluster EXCEPT !.status = status]
      BY <2>1, UpdateStatusEffect
    <2>4. QED
      BY <2>2, <2>3 DEF ClusterPhase, TypeOK
  <1>3. CASE UpdateFinalStatus
    <2> DEFINE Continue == Return /\ UNCHANGED process
    <2>1. \/ UpdateStatus(pass.status, Continue)
          \/ UNCHANGED cluster
      BY <1>3 DEF UpdateFinalStatus
    <2> HIDE DEF Continue
    <2>2. \/ cluster' = cluster
          \/ cluster' = [cluster EXCEPT !.status = pass.status]
      BY <2>1, UpdateStatusEffect
    <2>3. QED
      BY <1>3, <2>2 DEF ClusterPhase, TypeOK
  <1>4. CASE WriteForDrbdJob
    <2> DEFINE status == [handler.status EXCEPT !.drbdCreated = TRUE,
                                                !.jobNum = 1]
    <2>1. \/ cluster' = cluster
          \/ /\ handler.status = cluster.status
             /\ cluster' = [cluster EXCEPT !.status = status]
      BY <1>4 DEF WriteForDrbdJob, StatusUpdated, HandlerCurrent
    <2>2. handler.status \in Status /\ 1 \in 0..1
      BY DEF TypeOK
    <2>3. AdoptedPhase(status) = AdoptedPhase(handler.status)
      BY <2>2, AdoptedPhaseFacts
    <2> HIDE DEF status
    <2>4. QED
      BY <2>1, <2>3 DEF ClusterPhase, TypeOK
  <1>5. CASE EditSpec
    BY <1>5 DEF EditSpec, ClusterPhase, TypeOK
  <1>6. CASE UNCHANGED cluster
    BY <1>6 DEF ClusterPhase
  <1>7. QED
    BY <1>1, <1>2, <1>3, <1>4, <1>5, <1>6
       DEF Next, Reconcile, HandleDrbdJobUpdate, Environment, Crash, vars,
           StartReconcile, EnsureTargetNamespaceExist, InstallCRDs,
           EnsureComponents, EnsureDRBD, CheckComponents, Think, Elsewhere, ListFails,
           PanicOnMissingStatus, Restart, ListDisksToReserve, ReserveDisk,
           FinishReserving, SkipClaims, ListDisksToClaim,
           CreateLocalDiskClaim, FinishClaiming, StartWatchers,
           ReadForDrbdJob, ComponentsUp, ObservePods, PodsFail, JobCompletes,
           DiscoverDisk, ObserveDisk, BindClaim, DeleteClaim, Resync

\* The handler's copy is either the status of the API server or stale.
LEMMA HandlerStep ==
    ASSUME TypeOK, HandlerCurrent, [Next]_vars
    PROVE  HandlerCurrent'
  <1> USE PassTypes
  <1>1. CASE ResetInstalledCRDS
    <2> DEFINE status == [pass.status EXCEPT !.installedCRDS = FALSE]
               Continue == /\ Return
                           /\ process' = [process EXCEPT !.specGeneration = TRUE]
    <2>1. status \in Status /\ UpdateStatus(status, Continue)
      BY <1>1 DEF ResetInstalledCRDS
    <2> HIDE DEF status, Continue
    <2>2. "handler" \in current' => "handler" \in current /\ cluster' = cluster
      BY <2>1, UpdateStatusEffect
    <2>3. QED
      BY <1>1, <2>2 DEF ResetInstalledCRDS, HandlerCurrent
  <1>2. CASE RecordInstalledCRDS
    <2> DEFINE status == [pass.status EXCEPT !.installedCRDS = TRUE]
               Continue == /\ pc' = "components"
                           /\ pass' = [pass EXCEPT !.status = status]
                           /\ UNCHANGED process
    <2>1. status \in Status /\ UpdateStatus(status, Continue)
      BY <1>2 DEF RecordInstalledCRDS
    <2> HIDE DEF status, Continue
    <2>2. "handler" \in current' => "handler" \in current /\ cluster' = cluster
      BY <2>1, UpdateStatusEffect
    <2>3. QED
      BY <1>2, <2>2 DEF RecordInstalledCRDS, HandlerCurrent
  <1>3. CASE UpdateFinalStatus
    <2> DEFINE Continue == Return /\ UNCHANGED process
    <2>1. \/ UpdateStatus(pass.status, Continue)
          \/ UNCHANGED <<cluster, current>>
      BY <1>3 DEF UpdateFinalStatus
    <2> HIDE DEF Continue
    <2>2. "handler" \in current' => "handler" \in current /\ cluster' = cluster
      BY <2>1, UpdateStatusEffect
    <2>3. QED
      BY <1>3, <2>2 DEF UpdateFinalStatus, HandlerCurrent
  <1>4. CASE HandleDrbdJobUpdate
    BY <1>4 DEF HandleDrbdJobUpdate, ReadForDrbdJob, WriteForDrbdJob,
                IdleHandler, HandlerCurrent
  <1>5. CASE StartReconcile
    BY <1>5 DEF StartReconcile, HandlerCurrent
  <1>6. CASE Crash \/ PanicOnMissingStatus \/ EditSpec
    BY <1>6 DEF Crash, PanicOnMissingStatus, Restart, EditSpec, IdleHandler,
                HandlerCurrent
  <1>7. CASE UNCHANGED <<cluster, current, handler>>
    BY <1>7 DEF HandlerCurrent
  <1>8. QED
    BY <1>1, <1>2, <1>3, <1>4, <1>5, <1>6, <1>7
       DEF Next, Reconcile, Environment, vars, Operator,
           EnsureTargetNamespaceExist, InstallCRDs, EnsureComponents,
           EnsureDRBD, CheckComponents, Think, Elsewhere, ListFails, ListDisksToReserve,
           ReserveDisk, FinishReserving, SkipClaims, ListDisksToClaim,
           CreateLocalDiskClaim, FinishClaiming, StartWatchers,
           ComponentsUp, ObservePods, PodsFail, JobCompletes, DiscoverDisk,
           ObserveDisk, BindClaim, DeleteClaim, Resync

\* What each phase of the switch leaves for the final write.
LEMMA WithPhaseFacts ==
    ASSUME TypeOK
    PROVE  /\ AdoptedPhase(WithPhase("ToReserve").status) = "ToReserve"
           /\ AdoptedPhase(WithPhase("Reserved").status) = "Reserved"
           /\ AdoptedPhase(WithPhase("CreatedLDC").status) = "CreatedLDC"
  <1>1. \A phase \in {"ToReserve", "Reserved", "CreatedLDC"} :
          WithPhase(phase).status = [pass.status EXCEPT !.phase = phase]
    BY DEF TypeOK, Pass, WithPhase
  <1>2. pass.status \in Status
    BY PassTypes
  <1>3. QED
    BY <1>1, <1>2 DEF AdoptedPhase, Status, Phase

LEMMA WorkerStep ==
    ASSUME TypeOK, WorkerPhaseCurrent, HandlerCurrent, [Next]_vars
    PROVE  WorkerPhaseCurrent'
  <1> USE PassTypes
  <1>1. CASE StartReconcile
    <2>1. pc' = "namespace" => pass'.status = cluster.status
      BY <1>1 DEF StartReconcile, IdlePass
    <2>2. QED
      BY <1>1, <2>1 DEF StartReconcile, WorkerPhaseCurrent, ClusterPhase
  <1>2. CASE pc' = "idle"
    BY <1>2 DEF WorkerPhaseCurrent
  <1>3. CASE RecordInstalledCRDS /\ pc' # "idle"
    <2> DEFINE status == [pass.status EXCEPT !.installedCRDS = TRUE]
               Continue == /\ pc' = "components"
                           /\ pass' = [pass EXCEPT !.status = status]
                           /\ UNCHANGED process
    <2>1. status \in Status /\ UpdateStatus(status, Continue)
      BY <1>3 DEF RecordInstalledCRDS
    <2>2. AdoptedPhase(status) = ClusterPhase
      BY <1>3, AdoptedPhaseFacts DEF RecordInstalledCRDS, WorkerPhaseCurrent
    <2> HIDE DEF status, Continue
    <2>3. Continue /\ cluster' = [cluster EXCEPT !.status = status]
      BY <1>3, <2>1, UpdateStatusEffect
    <2>4. pc' = "components" /\ pass'.status = status
      BY <2>3 DEF Continue, TypeOK, Pass
    <2>5. QED
      BY <2>2, <2>3, <2>4 DEF WorkerPhaseCurrent, ClusterPhase, TypeOK
  <1>4. CASE EnsureDRBD /\ pc' # "idle"
    <2>1. /\ pc = "drbd" /\ pc' = "phase"
          /\ \/ pass' = pass
             \/ pass' = [pass EXCEPT !.status.drbdCreated = TRUE]
             \/ pass' = [pass EXCEPT !.status.drbdCreated = FALSE,
                                     !.status.jobNum = 0]
      BY <1>4 DEF EnsureDRBD, ReturnError
    <2>2. \/ pass'.status = pass.status
          \/ pass'.status = [pass.status EXCEPT !.drbdCreated = TRUE]
          \/ pass'.status = [pass.status EXCEPT !.drbdCreated = FALSE,
                                                !.jobNum = 0]
      BY <2>1 DEF TypeOK, Pass
    <2>3. AdoptedPhase(pass'.status) = AdoptedPhase(pass.status)
      BY <2>2 DEF AdoptedPhase, Status
    <2>4. UNCHANGED cluster
      BY <1>4 DEF EnsureDRBD
    <2>5. QED
      BY <2>1, <2>3, <2>4 DEF WorkerPhaseCurrent, ClusterPhase
  <1>5. CASE CheckComponents
    <2>1. /\ pc' = "final" /\ UNCHANGED cluster
          /\ pass' = pass \/ pass' = WithPhase("ToReserve")
          /\ AdoptedPhase(pass.status) = "" /\ ClusterPhase = ""
      BY <1>5 DEF CheckComponents, InPhase, Think, Elsewhere,
                  WorkerPhaseCurrent
    <2>2. AdoptedPhase(pass'.status) \in {"", "ToReserve"}
      <3>1. AdoptedPhase(WithPhase("ToReserve").status) = "ToReserve"
        BY WithPhaseFacts
      <3>2. QED
        BY <2>1, <3>1
    <2>3. QED
      BY <2>1, <2>2 DEF WorkerPhaseCurrent, ClusterPhase, NextPhase, Phase
  <1>6. CASE ListDisksToReserve \/ ListDisksToClaim
    BY <1>6 DEF ListDisksToReserve, ListDisksToClaim, InPhase, Think,
                ListFails, ReturnError, Elsewhere, WorkerPhaseCurrent,
                ClusterPhase
  <1>7. CASE FinishReserving
    <2>1. /\ pc' = "final" /\ UNCHANGED cluster /\ ClusterPhase = "ToReserve"
          /\ pass' = WithPhase("Reserved")
      BY <1>7 DEF FinishReserving, Think, Elsewhere, WorkerPhaseCurrent
    <2>2. AdoptedPhase(WithPhase("Reserved").status) = "Reserved"
      BY WithPhaseFacts
    <2>3. QED
      BY <2>1, <2>2 DEF WorkerPhaseCurrent, ClusterPhase, NextPhase, Phase
  <1>8. CASE SkipClaims \/ FinishClaiming
    <2>1. /\ pc' = "final" /\ UNCHANGED cluster /\ ClusterPhase = "Reserved"
          /\ pass' = WithPhase("CreatedLDC")
      BY <1>8 DEF SkipClaims, FinishClaiming, InPhase, Think, Elsewhere,
                  WorkerPhaseCurrent
    <2>2. AdoptedPhase(WithPhase("CreatedLDC").status) = "CreatedLDC"
      BY WithPhaseFacts
    <2>3. QED
      BY <2>1, <2>2 DEF WorkerPhaseCurrent, ClusterPhase, NextPhase, Phase
  <1>9. CASE StartWatchers
    BY <1>9 DEF StartWatchers, InPhase, WorkerPhaseCurrent, ClusterPhase
  <1>10. CASE EnsureComponents /\ pc' # "idle"
    <2>1. /\ pc = "components" /\ pc' = "drbd" /\ UNCHANGED cluster
          /\ pass' = [pass EXCEPT
                        !.known = work.made,
                        !.status.healthy = (work.made = Components /\ work.up)]
      BY <1>10 DEF EnsureComponents, ReturnError
    <2>2. pass'.status
            = [pass.status EXCEPT !.healthy = (work.made = Components /\ work.up)]
      BY <2>1 DEF TypeOK, Pass
    <2>3. (work.made = Components /\ work.up) \in BOOLEAN
      BY DEF TypeOK
    <2>4. AdoptedPhase(pass'.status) = AdoptedPhase(pass.status)
      BY <2>2, <2>3, AdoptedPhaseFacts
    <2>5. QED
      BY <2>1, <2>4 DEF WorkerPhaseCurrent, ClusterPhase
  <1>11. CASE (\/ EnsureTargetNamespaceExist \/ InstallCRDs) /\ pc' # "idle"
    BY <1>11 DEF EnsureTargetNamespaceExist, InstallCRDs, ReturnError,
                 WorkerPhaseCurrent, ClusterPhase
  <1>12. CASE /\ \/ \E d \in Disk : ReserveDisk(d)
                 \/ \E g \in Group : CreateLocalDiskClaim(g)
              /\ pc' # "idle"
    BY <1>12 DEF ReserveDisk, CreateLocalDiskClaim, ReturnError,
                 WorkerPhaseCurrent, ClusterPhase
  <1>13. CASE UNCHANGED <<pc, pass>>
    <2>1. ~UpdateFinalStatus \/ pc = "idle"
      BY <1>13 DEF UpdateFinalStatus, UpdateStatus, Return, ReturnError
    <2>2. ClusterPhase' = ClusterPhase \/ pc = "idle"
      BY <2>1, PhaseMoves DEF UpdateFinalStatus
    <2>3. QED
      BY <1>13, <2>2 DEF WorkerPhaseCurrent
  <1>14. CASE ResetInstalledCRDS \/ UpdateFinalStatus
    BY <1>14, <1>2 DEF ResetInstalledCRDS, UpdateFinalStatus, UpdateStatus,
                       Return, ReturnError
  <1>15. QED
    BY <1>1, <1>2, <1>3, <1>4, <1>5, <1>6, <1>7, <1>8, <1>9, <1>10, <1>11,
       <1>12, <1>13, <1>14
       DEF Next, Reconcile, HandleDrbdJobUpdate, Environment, Crash, vars,
           PanicOnMissingStatus, Restart, Operator, ReadForDrbdJob,
           WriteForDrbdJob, EditSpec, ComponentsUp, ObservePods, PodsFail,
           JobCompletes, DiscoverDisk, ObserveDisk, BindClaim, DeleteClaim,
           Resync

\* The phase in the API server stays or takes its next value.
LEMMA PhaseOrder ==
    ASSUME TypeOK, WorkerPhaseCurrent, HandlerCurrent, [Next]_vars
    PROVE  ClusterPhase' \in {ClusterPhase, NextPhase[ClusterPhase]}
  <1>1. CASE ClusterPhase' = ClusterPhase
    BY <1>1
  <1>2. CASE UpdateFinalStatus /\ ClusterPhase' = AdoptedPhase(pass.status)
    BY <1>2 DEF UpdateFinalStatus, WorkerPhaseCurrent
  <1>3. QED
    BY <1>1, <1>2, PhaseMoves

\* A phase that has passed "ToReserve" does not come back.
LEMMA ReservedStays ==
    ASSUME TypeOK, WorkerPhaseCurrent, HandlerCurrent, [Next]_vars,
           ClusterPhase \in {"Reserved", "CreatedLDC"}
    PROVE  ClusterPhase' \in {"Reserved", "CreatedLDC"}
  BY PhaseOrder DEF NextPhase, Phase

\* Reserving disks and claiming them are in different phases; a claim binds
\* only disks that are not reserved.
LEMMA ClaimsStep ==
    ASSUME TypeOK, WorkerPhaseCurrent, HandlerCurrent,
           ClaimsFollowReservation, ReservedNotClaimed, [Next]_vars
    PROVE  ClaimsFollowReservation' /\ ReservedNotClaimed'
  <1>1. CASE \E d \in Disk : ReserveDisk(d)
    <2>1. PICK d \in Disk : ReserveDisk(d)
      BY <1>1
    <2>2. /\ ClusterPhase = "ToReserve"
          /\ UNCHANGED <<claims, cluster>>
      BY <2>1 DEF ReserveDisk, WorkerPhaseCurrent
    <2>3. /\ \A e \in Disk : disks[e].state # "claimed"
          /\ \A g \in Group : claims[g] = "none"
      BY <2>2 DEF ClaimsFollowReservation, TypeOK, ClaimState
    <2>4. \A e \in Disk : disks'[e].state = disks[e].state
      <3>1. disks' = disks \/ disks' = [disks EXCEPT ![d].reserved = TRUE]
        BY <2>1 DEF ReserveDisk
      <3>2. disks \in [Disk -> LocalDisk]
        BY DEF TypeOK
      <3>3. QED
        BY <3>1, <3>2 DEF LocalDisk
    <2>5. QED
      BY <2>2, <2>3, <2>4 DEF ClaimsFollowReservation, ReservedNotClaimed
  <1>2. CASE \E g \in Group : CreateLocalDiskClaim(g)
    <2>1. ClusterPhase = "Reserved" /\ UNCHANGED <<cluster, disks>>
      BY <1>2 DEF CreateLocalDiskClaim, WorkerPhaseCurrent
    <2>2. QED
      BY <2>1 DEF ClaimsFollowReservation, ReservedNotClaimed, ClusterPhase
  <1>3. CASE \E g \in Group : BindClaim(g)
    <2>1. PICK g \in Group : BindClaim(g)
      BY <1>3
    <2>2. ClusterPhase \in {"Reserved", "CreatedLDC"} /\ UNCHANGED cluster
      BY <2>1 DEF BindClaim, ClaimsFollowReservation
    <2>3. ASSUME NEW d \in Disk, disks'[d].reserved
          PROVE  disks'[d].state # "claimed"
      <3>1. disks[d] \in LocalDisk
        BY DEF TypeOK
      <3>2. \/ disks'[d] = disks[d]
            \/ /\ ~disks[d].reserved
               /\ disks'[d] = [disks[d] EXCEPT !.state = "claimed"]
        BY <2>1 DEF BindClaim
      <3>3. disks'[d] = disks[d]
        BY <3>1, <3>2, <2>3 DEF LocalDisk
      <3>4. QED
        BY <3>3, <2>3 DEF ReservedNotClaimed
    <2>4. QED
      BY <2>2, <2>3 DEF ClaimsFollowReservation, ReservedNotClaimed, ClusterPhase
  <1>4. CASE \E g \in Group : DeleteClaim(g)
    <2>1. PICK g \in Group : DeleteClaim(g)
      BY <1>4
    <2>2. claims[g] # "none" /\ UNCHANGED <<disks, cluster>>
      BY <2>1 DEF DeleteClaim
    <2>3. QED
      BY <2>2 DEF ClaimsFollowReservation, ReservedNotClaimed, ClusterPhase
  <1>5. CASE \E d \in Disk : DiscoverDisk(d)
    <2>1. PICK d \in Disk, state \in {"available", "system"} :
            disks' = [disks EXCEPT ![d].state = state]
      BY <1>5 DEF DiscoverDisk
    <2>2. UNCHANGED <<claims, cluster>>
      BY <1>5 DEF DiscoverDisk
    <2>3. ASSUME NEW e \in Disk
          PROVE  disks'[e] = disks[e] \/ disks'[e].state # "claimed"
      BY <2>1 DEF TypeOK, LocalDisk
    <2>4. QED
      BY <2>2, <2>3 DEF ClaimsFollowReservation, ReservedNotClaimed, ClusterPhase
  <1>6. CASE UNCHANGED <<claims, disks>>
    BY <1>6, ReservedStays DEF ClaimsFollowReservation, ReservedNotClaimed
  <1>7. QED
    BY <1>1, <1>2, <1>3, <1>4, <1>5, <1>6
       DEF Next, Reconcile, HandleDrbdJobUpdate, Environment, Crash, vars,
           Operator, StartReconcile, EnsureTargetNamespaceExist,
           ResetInstalledCRDS, InstallCRDs, RecordInstalledCRDS,
           EnsureComponents, EnsureDRBD, CheckComponents, Think, Elsewhere, ListFails,
           PanicOnMissingStatus, Restart, ListDisksToReserve,
           FinishReserving, SkipClaims, ListDisksToClaim, FinishClaiming,
           StartWatchers, UpdateFinalStatus, ReadForDrbdJob,
           WriteForDrbdJob, EditSpec, ComponentsUp, ObservePods, PodsFail,
           JobCompletes, ObserveDisk, Resync

\* The watchers start in the last phase, which is kept.
LEMMA WatchersStep ==
    ASSUME TypeOK, WorkerPhaseCurrent, HandlerCurrent, WatchersFollowClaims,
           [Next]_vars
    PROVE  WatchersFollowClaims'
  <1> USE PassTypes
  <1>1. CASE StartWatchers
    BY <1>1 DEF StartWatchers, InPhase, WorkerPhaseCurrent,
                WatchersFollowClaims, ClusterPhase
  <1>2. CASE ~process'.watching
    BY <1>2 DEF WatchersFollowClaims
  <1>3. CASE process'.watching = process.watching
    BY <1>3, PhaseOrder DEF WatchersFollowClaims, NextPhase, Phase
  <1>4. CASE ResetInstalledCRDS
    <2> DEFINE status == [pass.status EXCEPT !.installedCRDS = FALSE]
               Continue == /\ Return
                           /\ process' = [process EXCEPT !.specGeneration = TRUE]
    <2>1. status \in Status /\ UpdateStatus(status, Continue)
      BY <1>4 DEF ResetInstalledCRDS
    <2> HIDE DEF status, Continue
    <2>2. Continue \/ process' = process
      BY <2>1, UpdateStatusEffect
    <2>3. process'.watching = process.watching
      BY <2>2 DEF Continue, TypeOK
    <2>4. QED
      BY <1>3, <2>3
  <1>5. CASE RecordInstalledCRDS
    <2> DEFINE status == [pass.status EXCEPT !.installedCRDS = TRUE]
               Continue == /\ pc' = "components"
                           /\ pass' = [pass EXCEPT !.status = status]
                           /\ UNCHANGED process
    <2>1. status \in Status /\ UpdateStatus(status, Continue)
      BY <1>5 DEF RecordInstalledCRDS
    <2> HIDE DEF status, Continue
    <2>2. Continue \/ process' = process
      BY <2>1, UpdateStatusEffect
    <2>3. QED
      BY <1>3, <2>2 DEF Continue
  <1>6. CASE UpdateFinalStatus
    <2> DEFINE Continue == Return /\ UNCHANGED process
    <2>1. UpdateStatus(pass.status, Continue) \/ UNCHANGED process
      BY <1>6 DEF UpdateFinalStatus
    <2> HIDE DEF Continue
    <2>2. Continue \/ process' = process
      BY <2>1, UpdateStatusEffect
    <2>3. QED
      BY <1>3, <2>2 DEF Continue
  <1>7. CASE Crash \/ PanicOnMissingStatus
    <2>1. \E version : process' = [version |-> version,
                                  specGeneration |-> FALSE, watching |-> FALSE]
      BY <1>7 DEF Crash, PanicOnMissingStatus, Restart
    <2>2. ~process'.watching
      BY <2>1
    <2>3. QED
      BY <1>2, <2>2
  <1>8. CASE UNCHANGED process
    BY <1>3, <1>8
  <1>9. QED
    BY <1>1, <1>4, <1>5, <1>6, <1>7, <1>8
       DEF Next, Reconcile, HandleDrbdJobUpdate, Environment, vars, Operator,
           StartReconcile, EnsureTargetNamespaceExist, InstallCRDs,
           EnsureComponents, EnsureDRBD, CheckComponents, Think, Elsewhere, ListFails,
           ListDisksToReserve, ReserveDisk, FinishReserving, SkipClaims,
           ListDisksToClaim, CreateLocalDiskClaim, FinishClaiming,
           ReadForDrbdJob, WriteForDrbdJob, EditSpec, ComponentsUp,
           ObservePods, PodsFail, JobCompletes, DiscoverDisk, ObserveDisk,
           BindClaim, DeleteClaim, Resync

\* No worker, no handler, no claim and no watcher to begin with.
LEMMA InitInv == Init => IInv
  <1> SUFFICES ASSUME Init PROVE IInv
    OBVIOUS
  <1>1. /\ pc = "idle"
        /\ handler = IdleHandler
        /\ disks = [d \in Disk |-> NoDisk]
        /\ claims = [g \in Group |-> "none"]
    BY DEF Init
  <1>2. ~process.watching
    <2>1. \E a, b : process = [version |-> a, specGeneration |-> b,
                               watching |-> FALSE]
      BY DEF Init
    <2>2. QED
      BY <2>1
  <1>3. WorkerPhaseCurrent /\ HandlerCurrent
    BY <1>1 DEF WorkerPhaseCurrent, HandlerCurrent, IdleHandler
  <1>4. ClaimsFollowReservation /\ ReservedNotClaimed
    BY <1>1 DEF ClaimsFollowReservation, ReservedNotClaimed, NoDisk
  <1>5. QED
    BY <1>2, <1>3, <1>4 DEF IInv, WatchersFollowClaims

\* The inductive invariant holds in every reachable state.
LEMMA Invariance == Spec => []IInv
  <1>1. TypeOK /\ IInv /\ [Next]_vars => IInv'
    BY WorkerStep, HandlerStep, ClaimsStep, WatchersStep DEF IInv
  <1>2. QED
    BY <1>1, InitInv, TypeCorrect, PTL DEF Spec

\* What a pass does is right for the phase the API server shows when it does
\* it, however long ago the worker read the status.
THEOREM WorkerIsCurrent == Spec => []WorkerPhaseCurrent
  <1>1. IInv => WorkerPhaseCurrent
    BY DEF IInv
  <1>2. QED
    BY <1>1, Invariance, PTL

\* A disk marked reserved is never given to a claim.
THEOREM ReservedDisksStayFree == Spec => []ReservedNotClaimed
  <1>1. IInv => ReservedNotClaimed
    BY DEF IInv
  <1>2. QED
    BY <1>1, Invariance, PTL

\* Claims exist only once the reservation has been recorded.
THEOREM ClaimsAfterReservation == Spec => []ClaimsFollowReservation
  <1>1. IInv => ClaimsFollowReservation
    BY DEF IInv
  <1>2. QED
    BY <1>1, Invariance, PTL

\* The storage class watchers run only once the claims have been recorded.
THEOREM WatchersAfterClaims == Spec => []WatchersFollowClaims
  <1>1. IInv => WatchersFollowClaims
    BY DEF IInv
  <1>2. QED
    BY <1>1, Invariance, PTL

\* The phase in the API server goes through its values in order.
THEOREM PhaseInOrder == Spec => PhaseAdvancesInOrder
  <1>1. /\ TypeOK /\ IInv /\ [Next]_vars
        => [ClusterPhase' # ClusterPhase
              => ClusterPhase' = NextPhase[ClusterPhase]]_vars
    BY PhaseOrder DEF IInv
  <1>2. QED
    BY <1>1, Invariance, TypeCorrect, PTL DEF Spec, PhaseAdvancesInOrder

=============================================================================
