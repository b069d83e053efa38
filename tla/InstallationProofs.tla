------------------------- MODULE InstallationProofs -------------------------
(* ClusterReconcile implements Installation, for every value of the         *)
(* constants, and the properties of single writes that this does not cover: *)
(* the reservation is complete, the number of jobs is kept, the CRDs are    *)
(* current.                                                                 *)
EXTENDS ClusterReconcileProofs

\* The type of the state and what the worker and the handler know.
Known == TypeOK /\ IInv

LEMMA AlwaysKnown == Spec => []Known
  BY TypeCorrect, Invariance, PTL DEF Known

-----------------------------------------------------------------------------
(* The reservation *)

AllReserved ==
    \A d \in DisksToReserve(pass.spec, pass.listed) : disks[d].reserved

\* Where the worker is in its list of disks.
Reserving ==
    /\ pc = "reserving" =>
         /\ pass.disksLeft \subseteq DisksToReserve(pass.spec, pass.listed)
         /\ \A d \in DisksToReserve(pass.spec, pass.listed) :
               d \in pass.disksLeft \/ disks[d].reserved
    /\ /\ pc = "final" /\ ClusterPhase = "ToReserve"
       /\ AdoptedPhase(pass.status) = "Reserved"
       => AllReserved

\* Nobody takes the mark off a disk.
LEMMA ReservedKept ==
    ASSUME Known, [Next]_vars
    PROVE  \A d \in Disk : disks[d].reserved => disks'[d].reserved
  <1>1. disks \in [Disk -> LocalDisk]
    BY DEF Known, TypeOK
  <1>2. CASE UNCHANGED disks
    BY <1>2
  <1>3. CASE \E d \in Disk : ReserveDisk(d)
    BY <1>1, <1>3 DEF ReserveDisk, LocalDisk
  <1>4. CASE \E d \in Disk : DiscoverDisk(d)
    BY <1>1, <1>4 DEF DiscoverDisk, LocalDisk
  <1>5. CASE \E g \in Group : BindClaim(g)
    <2>1. PICK g \in Group : BindClaim(g)
      BY <1>5
    <2>2. \A d \in Disk : \/ disks'[d] = disks[d]
                          \/ disks'[d] = [disks[d] EXCEPT !.state = "claimed"]
      BY <2>1 DEF BindClaim
    <2>3. QED
      BY <1>1, <2>2 DEF LocalDisk
  <1>6. QED
    BY <1>2, <1>3, <1>4, <1>5
       DEF Next, Reconcile, HandleDrbdJobUpdate, Environment, Crash, vars,
           Operator, StartReconcile, EnsureTargetNamespaceExist,
           ResetInstalledCRDS, InstallCRDs, RecordInstalledCRDS,
           EnsureComponents, EnsureDRBD, CheckComponents, Think, Elsewhere,
           ListFails, PanicOnMissingStatus, Restart, ListDisksToReserve,
           FinishReserving, SkipClaims, ListDisksToClaim,
           CreateLocalDiskClaim, FinishClaiming, StartWatchers,
           UpdateFinalStatus, ReadForDrbdJob, WriteForDrbdJob, EditSpec,
           ComponentsUp, ObservePods, PodsFail, JobCompletes, ObserveDisk,
           DeleteClaim, Resync

\* A pass that is at work on its list of disks, or about to write.
LEMMA ReservingStep ==
    ASSUME Known, Reserving, [Next]_vars
    PROVE  Reserving'
  <1>1. CASE pc' \notin {"reserving", "final"}
    BY <1>1 DEF Reserving
  <1>2. CASE UNCHANGED <<pc, pass>>
    <2>1. pc = "final" => ClusterPhase' = ClusterPhase
      BY <1>2, PhaseMoves
         DEF Known, IInv, UpdateFinalStatus, UpdateStatus, Return, ReturnError
    <2>2. DisksToReserve(pass.spec, pass.listed)' =
            DisksToReserve(pass.spec, pass.listed)
      BY <1>2 DEF DisksToReserve
    <2>3. DisksToReserve(pass.spec, pass.listed) \subseteq Disk
      BY DEF DisksToReserve
    <2>4. QED
      BY <1>2, <2>1, <2>2, <2>3, ReservedKept DEF Reserving, AllReserved
  <1>3. CASE ListDisksToReserve /\ pc' = "reserving"
    <2>1. pass' = [WithPhase("ToReserve") EXCEPT
                     !.listed = cache,
                     !.disksLeft = DisksToReserve(pass.spec, cache)]
      BY <1>3 DEF ListDisksToReserve, Think, ListFails, ReturnError
    <2>2. WithPhase("ToReserve") \in Pass
          /\ WithPhase("ToReserve").spec = pass.spec
      BY PassTypes DEF Known, TypeOK, Pass, WithPhase, Phase
    <2>3. /\ pass'.spec = pass.spec
          /\ pass'.listed = cache
          /\ pass'.disksLeft = DisksToReserve(pass.spec, cache)
      BY <2>1, <2>2 DEF Pass
    <2>4. DisksToReserve(pass.spec, pass.listed)' =
            DisksToReserve(pass.spec, cache)
      BY <2>3 DEF DisksToReserve
    <2>5. QED
      BY <1>3, <2>3, <2>4 DEF Reserving
  <1>4. CASE (\E d \in Disk : ReserveDisk(d)) /\ pc' \in {"reserving", "final"}
    <2>1. PICK d \in Disk : ReserveDisk(d)
      BY <1>4
    <2>2. /\ pc = "reserving" /\ pc' = "reserving"
          /\ disks' = [disks EXCEPT ![d].reserved = TRUE]
          /\ pass' = [pass EXCEPT !.disksLeft = @ \ {d}]
      BY <1>4, <2>1 DEF ReserveDisk, ReturnError
    <2>3. /\ pass'.spec = pass.spec /\ pass'.listed = pass.listed
          /\ pass'.disksLeft = pass.disksLeft \ {d}
      BY <2>2 DEF Known, TypeOK, Pass
    <2>4. DisksToReserve(pass.spec, pass.listed)' =
            DisksToReserve(pass.spec, pass.listed)
      BY <2>3 DEF DisksToReserve
    <2>5. disks'[d].reserved
      BY <2>2 DEF Known, TypeOK, LocalDisk
    <2>6. DisksToReserve(pass.spec, pass.listed) \subseteq Disk
      BY DEF DisksToReserve
    <2>7. QED
      BY <2>2, <2>3, <2>4, <2>5, <2>6, ReservedKept DEF Reserving
  <1>5. CASE FinishReserving
    <2>1. /\ pc = "reserving" /\ pass.disksLeft = {} /\ pc' = "final"
          /\ pass' = WithPhase("Reserved") /\ UNCHANGED disks
      BY <1>5 DEF FinishReserving, Think, Elsewhere
    <2>2. pass'.spec = pass.spec /\ pass'.listed = pass.listed
      BY <2>1 DEF Known, TypeOK, Pass, WithPhase
    <2>3. DisksToReserve(pass.spec, pass.listed)' =
            DisksToReserve(pass.spec, pass.listed)
      BY <2>2 DEF DisksToReserve
    <2>4. QED
      BY <2>1, <2>3 DEF Reserving, AllReserved
  <1>6. CASE CheckComponents
    <2>1. /\ pc' = "final" /\ AdoptedPhase(pass.status) = ""
          /\ pass' = pass \/ pass' = WithPhase("ToReserve")
      BY <1>6 DEF CheckComponents, InPhase, Think, Elsewhere
    <2>2. AdoptedPhase(WithPhase("ToReserve").status) = "ToReserve"
      BY WithPhaseFacts DEF Known
    <2>3. AdoptedPhase(pass'.status) \in {"", "ToReserve"}
      BY <2>1, <2>2
    <2>4. QED
      BY <2>1, <2>3 DEF Reserving
  <1>7. CASE SkipClaims \/ FinishClaiming
    <2>1. pc' = "final" /\ pass' = WithPhase("CreatedLDC")
      BY <1>7 DEF SkipClaims, FinishClaiming, Think
    <2>2. AdoptedPhase(WithPhase("CreatedLDC").status) = "CreatedLDC"
      BY WithPhaseFacts DEF Known
    <2>3. QED
      BY <2>1, <2>2 DEF Reserving
  <1>8. CASE StartWatchers
    <2>1. pc' = "final" /\ AdoptedPhase(pass'.status) = "CreatedLDC"
      BY <1>8 DEF StartWatchers, InPhase
    <2>2. QED
      BY <2>1 DEF Reserving
  <1>9. QED
    BY <1>1, <1>2, <1>3, <1>4, <1>5, <1>6, <1>7, <1>8
       DEF Next, Reconcile, HandleDrbdJobUpdate, Environment, Crash, vars,
           Operator, StartReconcile, EnsureTargetNamespaceExist,
           ResetInstalledCRDS, InstallCRDs, RecordInstalledCRDS,
           UpdateStatus, Return, ReturnError, EnsureComponents, EnsureDRBD,
           PanicOnMissingStatus, Restart, ListDisksToReserve, ListFails,
           ListDisksToClaim, Think, CreateLocalDiskClaim, UpdateFinalStatus,
           ReadForDrbdJob, WriteForDrbdJob, EditSpec, ComponentsUp,
           ObservePods, PodsFail, JobCompletes, DiscoverDisk, ObserveDisk,
           BindClaim, DeleteClaim, Resync

LEMMA ReservingInvariance == Spec => []Reserving
  <1>1. Init => Reserving
    BY DEF Init, Reserving
  <1>2. Known /\ Reserving /\ [Next]_vars => Reserving'
    BY ReservingStep
  <1>3. QED
    BY <1>1, <1>2, AlwaysKnown, PTL DEF Spec

\* The phase "Reserved" is only ever written by a pass whose whole list of
\* disks is reserved, by itself or by the passes before it.
THEOREM ReservedIsComplete == Spec => ReservationComplete
  <1>1. Known /\ Reserving /\ [Next]_vars =>
          [ClusterPhase = "ToReserve" /\ ClusterPhase' = "Reserved"
             => \A d \in DisksToReserve(pass.spec, pass.listed) :
                   disks[d].reserved]_vars
    <2> SUFFICES ASSUME Known, Reserving, [Next]_vars,
                        ClusterPhase = "ToReserve", ClusterPhase' = "Reserved"
                 PROVE  AllReserved
      BY DEF AllReserved
    <2>1. UpdateFinalStatus /\ AdoptedPhase(pass.status) = "Reserved"
      BY PhaseMoves DEF Known, IInv
    <2>2. QED
      BY <2>1 DEF UpdateFinalStatus, Reserving
  <1>2. QED
    BY <1>1, AlwaysKnown, ReservingInvariance, PTL
       DEF Spec, ReservationComplete

-----------------------------------------------------------------------------
(* The number of jobs *)

\* A worker whose copy is not stale has the number of the API server in it,
\* unless its pass has found drbd disabled.
JobNumSeen ==
    "worker" \in current /\ pc # "idle" =>
        \/ pass.status.jobNum = cluster.status.jobNum
        \/ pass.spec.drbdDisable

\* What a write of the worker leaves behind.
LEMMA WriteOrReturn ==
    ASSUME TypeOK, NEW status \in Status, NEW ACTION Continue,
           UpdateStatus(status, Continue)
    PROVE  /\ \/ cluster' = cluster
              \/ "worker" \in current /\ cluster' = [cluster EXCEPT !.status = status]
           /\ \/ Continue /\ cluster' = [cluster EXCEPT !.status = status]
              \/ pc' = "idle" /\ process' = process
  <1>1. CASE "worker" \in current /\ StatusUpdated("worker", status)
             /\ Continue /\ UNCHANGED faults
    BY <1>1 DEF StatusUpdated
  <1>2. CASE "worker" \notin current /\ ReturnError
             /\ UNCHANGED <<cluster, current, process, faults>>
    BY <1>2 DEF ReturnError
  <1>3. CASE /\ Fault
             /\ ReturnError
             /\ \/ UNCHANGED <<cluster, current>>
                \/ /\ "worker" \in current
                   /\ cluster' = [cluster EXCEPT !.status = status]
                   /\ current' = IF status = cluster.status
                                 THEN current ELSE {}
             /\ UNCHANGED process
    BY <1>3 DEF ReturnError
  <1>4. QED
    BY <1>1, <1>2, <1>3 DEF UpdateStatus

\* The steps that write the status, and the number of jobs they write.
LEMMA JobNumMoves ==
    ASSUME Known, JobNumSeen, [Next]_vars
    PROVE  /\ cluster.status.jobNum > 0 /\ cluster'.status.jobNum = 0
                => pass.spec.drbdDisable
           /\ pc' # "idle" => \/ cluster' = cluster
                              \/ "worker" \notin current'
                              \/ RecordInstalledCRDS
  <1> USE PassTypes DEF Known
  <1>1. CASE ResetInstalledCRDS
    <2> DEFINE status == [pass.status EXCEPT !.installedCRDS = FALSE]
               Continue == /\ Return
                           /\ process' = [process EXCEPT !.specGeneration = TRUE]
    <2>1. /\ status \in Status /\ UpdateStatus(status, Continue)
          /\ pc = "crds" /\ status.jobNum = pass.status.jobNum
      BY <1>1 DEF ResetInstalledCRDS, Status
    <2> HIDE DEF status
    <2>2. Continue => pc' = "idle"
      BY DEF Return
    <2> HIDE DEF Continue
    <2>3. /\ \/ cluster' = cluster
             \/ /\ "worker" \in current
                /\ cluster' = [cluster EXCEPT !.status = status]
          /\ pc' = "idle"
      BY <2>1, <2>2, WriteOrReturn
    <2>4. QED
      BY <2>1, <2>3 DEF JobNumSeen, TypeOK
  <1>2. CASE RecordInstalledCRDS
    <2> DEFINE status == [pass.status EXCEPT !.installedCRDS = TRUE]
               Continue == /\ pc' = "components"
                           /\ pass' = [pass EXCEPT !.status = status]
                           /\ UNCHANGED process
    <2>1. /\ status \in Status /\ UpdateStatus(status, Continue)
          /\ pc = "installed" /\ status.jobNum = pass.status.jobNum
      BY <1>2 DEF RecordInstalledCRDS, Status
    <2> HIDE DEF status, Continue
    <2>2. \/ cluster' = cluster
          \/ "worker" \in current /\ cluster' = [cluster EXCEPT !.status = status]
      BY <2>1, WriteOrReturn
    <2>3. QED
      BY <1>2, <2>1, <2>2 DEF JobNumSeen, TypeOK
  <1>3. CASE UpdateFinalStatus
    <2> DEFINE Continue == Return /\ UNCHANGED process
    <2>1. /\ pc = "final"
          /\ \/ UpdateStatus(pass.status, Continue)
             \/ Return /\ UNCHANGED cluster
      BY <1>3 DEF UpdateFinalStatus
    <2>2. Continue => pc' = "idle"
      BY DEF Return
    <2> HIDE DEF Continue
    <2>3. /\ \/ cluster' = cluster
             \/ /\ "worker" \in current
                /\ cluster' = [cluster EXCEPT !.status = pass.status]
          /\ pc' = "idle"
      BY <2>1, <2>2, WriteOrReturn DEF Return
    <2>4. QED
      BY <2>1, <2>3 DEF JobNumSeen, TypeOK
  <1>4. CASE WriteForDrbdJob
    <2> DEFINE status == [handler.status EXCEPT !.drbdCreated = TRUE,
                                                !.jobNum = 1]
    <2>1. \/ cluster' = cluster
          \/ /\ handler.status = cluster.status
             /\ cluster' = [cluster EXCEPT !.status = status]
             /\ current' = IF status = cluster.status THEN current
                                                      ELSE {"handler"}
      BY <1>4 DEF WriteForDrbdJob, StatusUpdated, IInv, HandlerCurrent
    <2>2. status.jobNum = 1
      BY DEF TypeOK, Status
    <2> HIDE DEF status
    <2>3. \/ cluster' = cluster
          \/ "worker" \notin current' /\ cluster'.status.jobNum = 1
      BY <2>1, <2>2 DEF TypeOK
    <2>4. QED
      BY <2>3
  <1>5. CASE EditSpec
    BY <1>5 DEF EditSpec, TypeOK
  <1>6. CASE UNCHANGED cluster
    BY <1>6 DEF TypeOK
  <1>7. QED
    BY <1>1, <1>2, <1>3, <1>4, <1>5, <1>6
       DEF Next, Reconcile, HandleDrbdJobUpdate, Environment, Crash, vars,
           StartReconcile, EnsureTargetNamespaceExist, InstallCRDs,
           EnsureComponents, EnsureDRBD, CheckComponents, Think, Elsewhere,
           ListFails, PanicOnMissingStatus, Restart, ListDisksToReserve,
           ReserveDisk, FinishReserving, SkipClaims, ListDisksToClaim,
           CreateLocalDiskClaim, FinishClaiming, StartWatchers,
           ReadForDrbdJob, ComponentsUp, ObservePods, PodsFail, JobCompletes,
           DiscoverDisk, ObserveDisk, BindClaim, DeleteClaim, Resync

\* A new phase changes nothing else of the pass.
LEMMA WithPhaseKeeps ==
    ASSUME TypeOK
    PROVE  \A phase :
             /\ WithPhase(phase).spec = pass.spec
             /\ WithPhase(phase).status.jobNum = pass.status.jobNum
  <1>1. pass \in Pass /\ pass.status \in Status
    BY PassTypes DEF TypeOK
  <1>2. SUFFICES ASSUME NEW phase
                 PROVE  /\ WithPhase(phase).spec = pass.spec
                        /\ WithPhase(phase).status.jobNum = pass.status.jobNum
    OBVIOUS
  <1>3. /\ WithPhase(phase).spec = pass.spec
        /\ WithPhase(phase).status = [pass.status EXCEPT !.phase = phase]
    BY <1>1 DEF WithPhase, Pass
  <1>4. QED
    BY <1>1, <1>3 DEF Status

\* What a step leaves in the worker's copy.
LEMMA JobNumStep ==
    ASSUME Known, JobNumSeen, [Next]_vars
    PROVE  JobNumSeen'
  <1> USE PassTypes DEF Known
  <1>1. CASE pc' = "idle" \/ "worker" \notin current'
    BY <1>1 DEF JobNumSeen
  <1>2. CASE StartReconcile
    BY <1>2 DEF StartReconcile, JobNumSeen, IdlePass
  <1>3. CASE RecordInstalledCRDS /\ pc' # "idle"
    <2> DEFINE status == [pass.status EXCEPT !.installedCRDS = TRUE]
               Continue == /\ pc' = "components"
                           /\ pass' = [pass EXCEPT !.status = status]
                           /\ UNCHANGED process
    <2>1. status \in Status /\ UpdateStatus(status, Continue)
      BY <1>3 DEF RecordInstalledCRDS
    <2> HIDE DEF status, Continue
    <2>2. Continue /\ cluster' = [cluster EXCEPT !.status = status]
      BY <1>3, <2>1, WriteOrReturn
    <2>3. pass'.status = status /\ cluster'.status = status
      BY <2>2 DEF Continue, TypeOK, Pass
    <2>4. QED
      BY <2>3 DEF JobNumSeen
  <1>4. CASE EnsureDRBD /\ pc' # "idle"
    <2>1. /\ pc = "drbd" /\ UNCHANGED <<cluster, current>>
          /\ \/ pass' = pass
             \/ pass' = [pass EXCEPT !.status.drbdCreated = TRUE]
             \/ /\ pass.spec.drbdDisable
                /\ pass' = [pass EXCEPT !.status.drbdCreated = FALSE,
                                        !.status.jobNum = 0]
      BY <1>4 DEF EnsureDRBD, ReturnError
    <2>2. /\ pass'.spec = pass.spec
          /\ \/ pass' = pass
             \/ pass'.status = [pass.status EXCEPT !.drbdCreated = TRUE]
             \/ pass.spec.drbdDisable
      BY <2>1 DEF TypeOK, Pass
    <2>3. pass.status \in Status
      OBVIOUS
    <2>4. \/ pass'.status.jobNum = pass.status.jobNum
          \/ pass.spec.drbdDisable
      BY <2>2, <2>3 DEF Status
    <2>5. QED
      BY <2>1, <2>2, <2>4 DEF JobNumSeen
  <1>5. CASE EnsureComponents /\ pc' # "idle"
    <2>1. /\ pc = "components" /\ UNCHANGED <<cluster, current>>
          /\ pass' = [pass EXCEPT
                        !.known = work.made,
                        !.status.healthy = (work.made = Components /\ work.up)]
      BY <1>5 DEF EnsureComponents, ReturnError
    <2>2. /\ pass'.spec = pass.spec
          /\ pass'.status
               = [pass.status EXCEPT !.healthy = (work.made = Components /\ work.up)]
      BY <2>1 DEF TypeOK, Pass
    <2>3. pass.status \in Status
      OBVIOUS
    <2>4. pass'.status.jobNum = pass.status.jobNum
      BY <2>2, <2>3 DEF Status
    <2>5. QED
      BY <2>1, <2>2, <2>4 DEF JobNumSeen
  <1>6. CASE /\ pc # "idle" /\ UNCHANGED <<cluster, current>>
             /\ pass'.spec = pass.spec
             /\ pass'.status.jobNum = pass.status.jobNum
    BY <1>6 DEF JobNumSeen
  <1>7. CASE CheckComponents
    <2>1. /\ pc = "phase" /\ UNCHANGED <<cluster, current>>
          /\ pass' = pass \/ pass' = WithPhase("ToReserve")
      BY <1>7 DEF CheckComponents, InPhase, Think, Elsewhere
    <2>2. QED
      BY <1>6, <2>1, WithPhaseKeeps
  <1>8. CASE ListDisksToReserve \/ ListDisksToClaim
    <2>1. /\ pc = "phase" /\ UNCHANGED <<cluster, current>>
          /\ \/ pc' = "idle"
             \/ \E listed, left :
                  pass' = [WithPhase("ToReserve") EXCEPT !.listed = listed,
                                                         !.disksLeft = left]
             \/ \E left :
                  pass' = [WithPhase("Reserved") EXCEPT !.claimsLeft = left]
      BY <1>8 DEF ListDisksToReserve, ListDisksToClaim, InPhase, Think,
                  Elsewhere, ListFails, ReturnError
    <2>2. \A phase \in {"ToReserve", "Reserved"} :
            /\ WithPhase(phase) \in Pass
            /\ WithPhase(phase).spec = pass.spec
            /\ WithPhase(phase).status.jobNum = pass.status.jobNum
      BY WithPhaseKeeps DEF Phase
    <2>3. \/ pc' = "idle"
          \/ /\ pass'.spec = pass.spec
             /\ pass'.status.jobNum = pass.status.jobNum
      BY <2>1, <2>2 DEF Pass
    <2>4. QED
      BY <1>1, <1>6, <2>1, <2>3
  <1>9. CASE FinishReserving \/ SkipClaims \/ FinishClaiming
    <2>1. /\ pc # "idle" /\ UNCHANGED <<cluster, current>>
          /\ pass' = WithPhase("Reserved") \/ pass' = WithPhase("CreatedLDC")
      BY <1>9 DEF FinishReserving, SkipClaims, FinishClaiming, InPhase, Think,
                  Elsewhere
    <2>2. QED
      BY <1>6, <2>1, WithPhaseKeeps
  <1>10. CASE /\ \/ \E d \in Disk : ReserveDisk(d)
                 \/ \E g \in Group : CreateLocalDiskClaim(g)
              /\ pc' # "idle"
    <2>1. /\ pc # "idle" /\ UNCHANGED <<cluster, current>>
          /\ \/ \E left : pass' = [pass EXCEPT !.disksLeft = left]
             \/ \E left : pass' = [pass EXCEPT !.claimsLeft = left]
      BY <1>10 DEF ReserveDisk, CreateLocalDiskClaim, ReturnError
    <2>2. QED
      BY <1>6, <2>1 DEF TypeOK, Pass
  <1>11. CASE /\ \/ EnsureTargetNamespaceExist \/ InstallCRDs \/ StartWatchers
              /\ pc' # "idle"
    BY <1>6, <1>11 DEF EnsureTargetNamespaceExist, InstallCRDs, StartWatchers,
                       InPhase, ReturnError
  <1>12. CASE UNCHANGED <<pc, pass>> /\ pc' # "idle" /\ ~RecordInstalledCRDS
    <2>1. cluster' = cluster \/ "worker" \notin current'
      BY <1>12, JobNumMoves
    <2>2. ~ResetInstalledCRDS /\ ~UpdateFinalStatus /\ ~StartReconcile
      BY <1>12 DEF ResetInstalledCRDS, UpdateFinalStatus, StartReconcile,
                   UpdateStatus, Return, ReturnError
    <2>3. "worker" \in current' => "worker" \in current
      <3>1. CASE WriteForDrbdJob
        BY <3>1 DEF WriteForDrbdJob, StatusUpdated
      <3>2. CASE ReadForDrbdJob
        BY <3>2 DEF ReadForDrbdJob
      <3>3. CASE UNCHANGED current \/ current' = {}
        BY <3>3
      <3>4. QED
        BY <1>12, <2>2, <3>1, <3>2, <3>3
           DEF Next, Reconcile, HandleDrbdJobUpdate, Environment, Crash, vars,
               Operator, Restart, PanicOnMissingStatus,
               EnsureTargetNamespaceExist, InstallCRDs, EnsureComponents,
               EnsureDRBD, CheckComponents, Think, Elsewhere, ListFails,
               ListDisksToReserve, ReserveDisk, FinishReserving, SkipClaims,
               ListDisksToClaim, CreateLocalDiskClaim, FinishClaiming,
               StartWatchers, EditSpec, ComponentsUp, ObservePods, PodsFail,
               JobCompletes, DiscoverDisk, ObserveDisk, BindClaim,
               DeleteClaim, Resync
    <2>4. QED
      BY <1>1, <1>12, <2>1, <2>3 DEF JobNumSeen
  <1>13. CASE ResetInstalledCRDS \/ UpdateFinalStatus
    BY <1>1, <1>13 DEF ResetInstalledCRDS, UpdateFinalStatus, UpdateStatus,
                       Return, ReturnError
  <1>14. QED
    BY <1>1, <1>2, <1>3, <1>4, <1>5, <1>7, <1>8, <1>9, <1>10, <1>11, <1>12,
       <1>13
       DEF Next, Reconcile, HandleDrbdJobUpdate, Environment, Crash, vars,
           PanicOnMissingStatus, Restart, Operator, ReadForDrbdJob,
           WriteForDrbdJob, EditSpec, ComponentsUp, ObservePods, PodsFail,
           JobCompletes, DiscoverDisk, ObserveDisk, BindClaim, DeleteClaim,
           Resync, RecordInstalledCRDS

\* The number of jobs falls to 0 only by a pass that saw drbd disabled.
THEOREM JobNumStays == Spec => JobNumKept
  <1>1. Init => JobNumSeen
    BY DEF Init, JobNumSeen
  <1>2. Known /\ JobNumSeen /\ [Next]_vars => JobNumSeen'
    BY JobNumStep
  <1>3. Known /\ JobNumSeen /\ [Next]_vars =>
          [cluster.status.jobNum > 0 /\ cluster'.status.jobNum = 0
             => pass.spec.drbdDisable]_vars
    BY JobNumMoves
  <1>4. QED
    BY <1>1, <1>2, <1>3, AlwaysKnown, PTL DEF Spec, JobNumKept

-----------------------------------------------------------------------------
(* The CRDs *)

\* A pass that has come past InstallCRDs has brought every CRD to its version.
CRDsWritten ==
    pc \in {"installed", "components", "drbd", "phase", "reserving",
            "claiming", "final"}
        => \A c \in CRD : crds[c] = process.version

\* The steps that set installedCRDS, specGeneration, or the version.
LEMMA CRDsStep ==
    ASSUME UpdateErrors = FALSE, Known, CRDsWritten, CRDsCurrent, [Next]_vars
    PROVE  CRDsWritten' /\ CRDsCurrent'
  <1> USE PassTypes DEF Known
  <1>1. CASE ResetInstalledCRDS
    <2> DEFINE status == [pass.status EXCEPT !.installedCRDS = FALSE]
               Continue == /\ Return
                           /\ process' = [process EXCEPT !.specGeneration = TRUE]
    <2>1. /\ status \in Status /\ UpdateStatus(status, Continue)
          /\ ~status.installedCRDS /\ UNCHANGED crds
      BY <1>1 DEF ResetInstalledCRDS, Status
    <2> HIDE DEF status
    <2>2. Continue => /\ pc' = "idle"
                      /\ process'.version = process.version
      BY DEF Return, TypeOK
    <2> HIDE DEF Continue
    <2>3. /\ cluster' = cluster \/ ~cluster'.status.installedCRDS
          /\ pc' = "idle"
          /\ \/ ~cluster'.status.installedCRDS
             \/ process' = process
      BY <2>1, <2>2, WriteOrReturn DEF TypeOK
    <2>4. QED
      BY <2>1, <2>3 DEF CRDsWritten, CRDsCurrent
  <1>2. CASE RecordInstalledCRDS
    <2> DEFINE status == [pass.status EXCEPT !.installedCRDS = TRUE]
               Continue == /\ pc' = "components"
                           /\ pass' = [pass EXCEPT !.status = status]
                           /\ UNCHANGED process
    <2>1. /\ status \in Status /\ UpdateStatus(status, Continue)
          /\ pc = "installed" /\ UNCHANGED crds
      BY <1>2 DEF RecordInstalledCRDS
    <2> HIDE DEF status
    <2>2. Continue => process' = process
      OBVIOUS
    <2> HIDE DEF Continue
    <2>3. process' = process
      BY <2>1, <2>2, WriteOrReturn
    <2>4. QED
      BY <2>1, <2>3 DEF CRDsWritten, CRDsCurrent
  <1>3. CASE UpdateFinalStatus
    <2> DEFINE Continue == Return /\ UNCHANGED process
    <2>1. /\ pc = "final" /\ UNCHANGED crds
          /\ \/ UpdateStatus(pass.status, Continue)
             \/ Return /\ UNCHANGED process
      BY <1>3 DEF UpdateFinalStatus
    <2>2. Continue => process' = process
      OBVIOUS
    <2> HIDE DEF Continue
    <2>3. process' = process
      BY <2>1, <2>2, WriteOrReturn
    <2>4. QED
      BY <2>1, <2>3 DEF CRDsWritten, CRDsCurrent
  <1>4. CASE InstallCRDs
    <2>1. PICK written \in SUBSET CRD :
            /\ crds' = [c \in CRD |-> IF c \in written THEN process.version
                                                       ELSE crds[c]]
            /\ \/ written = CRD
               \/ pc' = "idle"
      BY <1>4 DEF InstallCRDs, ReturnError
    <2>2. UNCHANGED <<cluster, process>> /\ pc' \in {"installed", "idle"}
      BY <1>4 DEF InstallCRDs, ReturnError
    <2>3. QED
      BY <2>1, <2>2 DEF CRDsWritten, CRDsCurrent
  <1>5. CASE StartWatchers
    <2>1. /\ pc = "phase" /\ UNCHANGED <<cluster, crds>>
          /\ process'.version = process.version
      BY <1>5 DEF StartWatchers, InPhase, TypeOK
    <2>2. process'.specGeneration = process.specGeneration
      BY <1>5 DEF StartWatchers, TypeOK
    <2>3. QED
      BY <2>1, <2>2 DEF CRDsWritten, CRDsCurrent
  <1>6. CASE Crash \/ PanicOnMissingStatus
    <2>1. PICK version : Restart(version)
      BY <1>6 DEF Crash, PanicOnMissingStatus
    <2>2. ~process'.specGeneration /\ pc' = "idle"
      BY <2>1 DEF Restart
    <2>3. QED
      BY <2>2 DEF CRDsWritten, CRDsCurrent
  <1>7. CASE WriteForDrbdJob
    <2> DEFINE status == [handler.status EXCEPT !.drbdCreated = TRUE,
                                                !.jobNum = 1]
    <2>1. \/ cluster' = cluster
          \/ /\ handler.status = cluster.status
             /\ cluster' = [cluster EXCEPT !.status = status]
      BY <1>7 DEF WriteForDrbdJob, StatusUpdated, IInv, HandlerCurrent
    <2>2. status.installedCRDS = handler.status.installedCRDS
      BY DEF TypeOK, Status
    <2> HIDE DEF status
    <2>3. cluster'.status.installedCRDS = cluster.status.installedCRDS
      BY <2>1, <2>2 DEF TypeOK
    <2>4. UNCHANGED <<crds, process, pc>>
      BY <1>7 DEF WriteForDrbdJob
    <2>5. QED
      BY <2>3, <2>4 DEF CRDsWritten, CRDsCurrent
  <1>8. CASE EditSpec
    BY <1>8 DEF EditSpec, Operator, TypeOK, CRDsWritten, CRDsCurrent
  <1>9. CASE UNCHANGED <<cluster, crds, process>>
             /\ (pc' = pc \/ pc \notin {"idle", "namespace", "crds"}
                    \/ pc' \in {"idle", "namespace", "crds"})
    BY <1>9 DEF CRDsWritten, CRDsCurrent, TypeOK, WorkerStates
  <1>10. QED
    BY <1>1, <1>2, <1>3, <1>4, <1>5, <1>6, <1>7, <1>8, <1>9
       DEF Next, Reconcile, HandleDrbdJobUpdate, Environment, vars, Operator,
           StartReconcile, EnsureTargetNamespaceExist, Return, ReturnError,
           EnsureComponents, EnsureDRBD, CheckComponents, InPhase, Think,
           Elsewhere, ListFails, ListDisksToReserve, ReserveDisk,
           FinishReserving, SkipClaims, ListDisksToClaim,
           CreateLocalDiskClaim, FinishClaiming, ReadForDrbdJob, ComponentsUp,
           ObservePods, PodsFail, JobCompletes, DiscoverDisk, ObserveDisk,
           BindClaim, DeleteClaim, Resync

\* As long as updates of CRDs do not fail, a process that has reset
\* installedCRDS and shows it again has written every CRD.
THEOREM CRDsStayCurrent == UpdateErrors = FALSE /\ Spec => []CRDsCurrent
  <1> SUFFICES ASSUME UpdateErrors = FALSE PROVE Spec => []CRDsCurrent
    OBVIOUS
  <1>1. Init => CRDsWritten /\ CRDsCurrent
    <2> SUFFICES ASSUME Init PROVE CRDsWritten /\ CRDsCurrent
      OBVIOUS
    <2>1. \E a, b : process = [version |-> a, specGeneration |-> FALSE,
                               watching |-> b]
      BY DEF Init
    <2>2. pc = "idle"
      BY DEF Init
    <2>3. QED
      BY <2>1, <2>2 DEF CRDsWritten, CRDsCurrent
  <1>2. Known /\ CRDsWritten /\ CRDsCurrent /\ [Next]_vars
          => CRDsWritten' /\ CRDsCurrent'
    BY CRDsStep
  <1>3. QED
    BY <1>1, <1>2, AlwaysKnown, PTL DEF Spec

-----------------------------------------------------------------------------
(* The refinement *)

\* The installation starts as Installation does.
LEMMA InitRefines == Init => Abstract!Init
  <1> SUFFICES ASSUME Init PROVE Abstract!Init
    OBVIOUS
  <1>1. /\ disks = [d \in Disk |-> [state |-> "absent", reserved |-> FALSE]]
        /\ claims = [g \in Group |-> "none"]
    BY DEF Init, NoDisk
  <1>2. process.watching = FALSE
    <2>1. \E a, b : process = [version |-> a, specGeneration |-> b,
                               watching |-> FALSE]
      BY DEF Init
    <2>2. QED
      BY <2>1
  <1>3. ClusterPhase \in {"", "ToReserve", "Reserved"}
    <2>1. PICK spec \in ClusterSpecs, state \in {"", "ToReserve", "Reserved"} :
            cluster = [spec |-> spec,
                       status |-> [NewStatus EXCEPT
                                     !.installedCRDS = (state # ""),
                                     !.diskReserveState = state]]
      BY DEF Init
    <2>2. cluster.status = [NewStatus EXCEPT !.installedCRDS = (state # ""),
                                             !.diskReserveState = state]
      BY <2>1
    <2>3. /\ cluster.status.phase = ""
          /\ cluster.status.diskReserveState = state
      BY <2>2 DEF NewStatus
    <2>4. QED
      BY <2>1, <2>3 DEF ClusterPhase, AdoptedPhase
  <1>4. QED
    BY <1>1, <1>2, <1>3 DEF Abstract!Init

\* The steps that are none of Installation.
Silent == UNCHANGED <<ClusterPhase, disks, claims, process.watching>>

\* A status written with a new phase is an Advance.
LEMMA FinalWriteRefines ==
    ASSUME Known, UpdateFinalStatus, [Next]_vars
    PROVE  Silent \/ Abstract!Advance
  <1> USE PassTypes DEF Known
  <1> DEFINE Continue == Return /\ UNCHANGED process
  <1>1. /\ UNCHANGED <<disks, claims>>
        /\ \/ UpdateStatus(pass.status, Continue)
           \/ UNCHANGED process
    BY DEF UpdateFinalStatus
  <1>2. Continue => process' = process
    OBVIOUS
  <1> HIDE DEF Continue
  <1>3. process' = process
    BY <1>1, <1>2, WriteOrReturn
  <1>4. ClusterPhase' = ClusterPhase \/ ClusterPhase' = NextPhase[ClusterPhase]
    BY PhaseOrder DEF IInv
  <1>5. CASE ClusterPhase' = ClusterPhase
    BY <1>1, <1>3, <1>5 DEF Silent
  <1>6. CASE ClusterPhase' # ClusterPhase
    <2>1. ClusterPhase \in Phase
      BY AdoptedPhaseFacts DEF ClusterPhase
    <2>2. /\ ClusterPhase \in {"", "ToReserve", "Reserved"}
          /\ ClusterPhase' = Abstract!NextPhase[ClusterPhase]
      BY <1>4, <1>6, <2>1 DEF NextPhase, Phase, Abstract!NextPhase
    <2>3. QED
      BY <1>1, <1>3, <2>2 DEF Abstract!Advance
  <1>7. QED
    BY <1>5, <1>6

\* Each step on disks and claims is the step of the same name.
LEMMA StepRefines ==
    ASSUME Known, Reserving, [Next]_vars
    PROVE  [Abstract!Next]_(Abstract!vars)
  <1> USE PassTypes DEF Known
  <1>1. CASE UpdateFinalStatus
    BY <1>1, FinalWriteRefines DEF Silent, Abstract!Next, Abstract!vars
  <1>2. ~UpdateFinalStatus => ClusterPhase' = ClusterPhase
    BY PhaseMoves DEF IInv
  <1>3. CASE \E d \in Disk : ReserveDisk(d)
    <2>1. PICK d \in Disk : ReserveDisk(d)
      BY <1>3
    <2>2. /\ pc = "reserving" /\ d \in pass.disksLeft
          /\ UNCHANGED <<cluster, claims, process>>
          /\ \/ UNCHANGED disks
             \/ /\ pass.listed[d] = disks[d]
                /\ disks' = [disks EXCEPT ![d].reserved = TRUE]
      BY <2>1 DEF ReserveDisk
    <2>3. ClusterPhase = "ToReserve" /\ ClusterPhase' = ClusterPhase
      BY <2>2 DEF IInv, WorkerPhaseCurrent, ClusterPhase
    <2>4. pass.listed[d].state # "absent"
      BY <2>2 DEF Reserving, DisksToReserve
    <2>5. \/ UNCHANGED disks
          \/ Abstract!ReserveDisk(d)
      BY <2>2, <2>3, <2>4 DEF Abstract!ReserveDisk
    <2>6. QED
      BY <2>2, <2>3, <2>5 DEF Abstract!Next, Abstract!vars
  <1>4. CASE \E g \in Group : CreateLocalDiskClaim(g)
    <2>1. PICK g \in Group : CreateLocalDiskClaim(g)
      BY <1>4
    <2>2. /\ pc = "claiming"
          /\ UNCHANGED <<cluster, disks, process>>
          /\ \/ UNCHANGED claims
             \/ /\ claims[g] = "none"
                /\ claims' = [claims EXCEPT ![g] = "open"]
      BY <2>1 DEF CreateLocalDiskClaim
    <2>3. ClusterPhase = "Reserved" /\ ClusterPhase' = ClusterPhase
      BY <2>2 DEF IInv, WorkerPhaseCurrent, ClusterPhase
    <2>4. UNCHANGED claims \/ Abstract!CreateClaim(g)
      BY <2>2, <2>3 DEF Abstract!CreateClaim
    <2>5. QED
      BY <2>2, <2>3, <2>4 DEF Abstract!Next, Abstract!vars
  <1>5. CASE \E d \in Disk : DiscoverDisk(d)
    <2>1. PICK d \in Disk : DiscoverDisk(d)
      BY <1>5
    <2>2. Abstract!DiscoverDisk(d)
      BY <2>1 DEF DiscoverDisk, Operator, Abstract!DiscoverDisk, ClusterPhase
    <2>3. QED
      BY <2>2 DEF Abstract!Next
  <1>6. CASE \E g \in Group : BindClaim(g)
    <2>1. PICK g \in Group : BindClaim(g)
      BY <1>6
    <2>2. Abstract!BindClaim(g)
      BY <2>1 DEF BindClaim, Operator, Abstract!BindClaim, ClusterPhase
    <2>3. QED
      BY <2>2 DEF Abstract!Next
  <1>7. CASE \E g \in Group : DeleteClaim(g)
    <2>1. PICK g \in Group : DeleteClaim(g)
      BY <1>7
    <2>2. Abstract!DeleteClaim(g)
      BY <2>1 DEF DeleteClaim, Operator, Abstract!DeleteClaim, ClusterPhase
    <2>3. QED
      BY <2>2 DEF Abstract!Next
  <1>8. CASE StartWatchers
    <2>1. /\ UNCHANGED <<cluster, disks, claims>>
          /\ ClusterPhase = "CreatedLDC"
          /\ process' = [process EXCEPT !.watching = @ \/ ~pass.spec.scDisable]
      BY <1>8 DEF StartWatchers, InPhase, IInv, WorkerPhaseCurrent
    <2>2. process'.watching = TRUE \/ process'.watching = process.watching
      BY <2>1 DEF TypeOK
    <2>3. ClusterPhase' = ClusterPhase
      BY <2>1 DEF ClusterPhase
    <2>4. QED
      BY <2>1, <2>2, <2>3
         DEF Abstract!Next, Abstract!vars, Abstract!StartWatchers
  <1>9. CASE Crash \/ PanicOnMissingStatus
    <2>1. PICK version : Restart(version)
      BY <1>9 DEF Crash, PanicOnMissingStatus
    <2>2. /\ process'.watching = FALSE
          /\ UNCHANGED <<cluster, disks, claims>>
      BY <2>1 DEF Restart
    <2>3. QED
      BY <2>2 DEF ClusterPhase, Abstract!Next, Abstract!StopWatchers
  <1>10. CASE /\ UNCHANGED <<disks, claims>>
              /\ process'.watching = process.watching
              /\ ~UpdateFinalStatus
    BY <1>2, <1>10 DEF Abstract!vars
  <1>11. CASE ResetInstalledCRDS
    <2> DEFINE status == [pass.status EXCEPT !.installedCRDS = FALSE]
               Continue == /\ Return
                           /\ process' = [process EXCEPT !.specGeneration = TRUE]
    <2>1. status \in Status /\ UpdateStatus(status, Continue)
      BY <1>11 DEF ResetInstalledCRDS
    <2>2. Continue => process'.watching = process.watching
      BY DEF TypeOK
    <2> HIDE DEF status, Continue
    <2>3. process'.watching = process.watching
      BY <2>1, <2>2, WriteOrReturn
    <2>4. QED
      BY <1>1, <1>10, <1>11, <2>3 DEF ResetInstalledCRDS
  <1>12. CASE RecordInstalledCRDS
    <2> DEFINE status == [pass.status EXCEPT !.installedCRDS = TRUE]
               Continue == /\ pc' = "components"
                           /\ pass' = [pass EXCEPT !.status = status]
                           /\ UNCHANGED process
    <2>1. status \in Status /\ UpdateStatus(status, Continue)
      BY <1>12 DEF RecordInstalledCRDS
    <2> HIDE DEF status
    <2>2. Continue => process' = process
      OBVIOUS
    <2> HIDE DEF Continue
    <2>3. process' = process
      BY <2>1, <2>2, WriteOrReturn
    <2>4. QED
      BY <1>1, <1>10, <1>12, <2>3 DEF RecordInstalledCRDS
  <1>13. QED
    BY <1>1, <1>3, <1>4, <1>5, <1>6, <1>7, <1>8, <1>9, <1>10, <1>11, <1>12
       DEF Next, Reconcile, HandleDrbdJobUpdate, Environment, vars, Operator,
           StartReconcile, EnsureTargetNamespaceExist, InstallCRDs,
           EnsureComponents, EnsureDRBD, CheckComponents, Think, Elsewhere,
           ListFails, ListDisksToReserve, FinishReserving, SkipClaims,
           ListDisksToClaim, FinishClaiming, ReadForDrbdJob, WriteForDrbdJob,
           EditSpec, ComponentsUp, ObservePods, PodsFail, JobCompletes,
           ObserveDisk, Resync

\* The operator implements Installation: every pass, write, retry, crash and
\* panic is a step of it or changes nothing it speaks of.
THEOREM Refinement == Spec => ImplementsInstallation
  <1>1. Known /\ Reserving /\ [Next]_vars => [Abstract!Next]_(Abstract!vars)
    BY StepRefines
  <1>2. QED
    BY <1>1, InitRefines, AlwaysKnown, ReservingInvariance, PTL
       DEF Spec, ImplementsInstallation, Abstract!Spec

=============================================================================
