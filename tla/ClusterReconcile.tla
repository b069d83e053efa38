-------------------------- MODULE ClusterReconcile --------------------------
(***************************************************************************)
(* The Cluster controller (controllers/cluster_controller.go): one         *)
(* Reconcile worker that takes a Cluster object from nothing to            *)
(* "CreatedLDC", the drbd job handler that runs concurrently with it in    *)
(* the informer's goroutine and writes the same status, the operator       *)
(* process that may stop at any point, and what surrounds them (the user,  *)
(* local-disk-manager, the informer caches).                               *)
(*                                                                         *)
(* Simplifications.                                                        *)
(*  - A resourceVersion is not a number: `current' holds the clients whose *)
(*    copy of the Cluster carries the version the API server has now.  A   *)
(*    write by one of them succeeds and makes the others' copies stale; a  *)
(*    write by another is a conflict.  As in the API server, a write that  *)
(*    changes nothing leaves the version alone and raises no event.        *)
(*  - An update of a LocalDisk read from the cache succeeds only if the    *)
(*    cached copy is what the API server has; any other failure is a fault.*)
(*  - The maintainers whose statuses the phases look at are the chain      *)
(*    1..Components, in the order Reconcile calls them; local-disk-manager *)
(*    and local-storage are its first two links.  The statuses they write  *)
(*    are one flag, healthy: every component is Normal.                    *)
(*  - The drbd-adapter jobs of all nodes are one job, and the drbd section *)
(*    is complete, as the chart's; DrbdInstall has the other ones.         *)
(*  - A claim is named by its group, the node:type key of the code.        *)
(***************************************************************************)
EXTENDS Naturals, FiniteSets

CONSTANTS
    CRD,          \* the CRD files of /hwameistorcrds
    Disk,         \* LocalDisks that may be discovered
    Group,        \* the node:type keys
    GroupOf,      \* the key of each disk
    ClusterSpecs, \* the specs a user may write
    Components,   \* the length of the chain of maintainers
    UpdateErrors, \* may the update of an existing CRD fail?
    MaxVersion,   \* bound: operator versions
    MaxFaults,    \* bound: failed calls, crashes and pod failures
    MaxEdits      \* bound: edits of the spec by the user

FullSpec == [notClaim: BOOLEAN, scDisable: BOOLEAN, drbdDisable: BOOLEAN,
             reserve: SUBSET Disk]

ASSUME ConstantsAssumption ==
    /\ GroupOf \in [Disk -> Group]
    /\ ClusterSpecs \subseteq FullSpec
    /\ Components \in Nat /\ Components >= 2
    /\ UpdateErrors \in BOOLEAN
    /\ MaxVersion \in Nat \ {0}
    /\ MaxFaults \in Nat
    /\ MaxEdits \in Nat

VARIABLES
    cluster,   \* the Cluster object in the API server
    current,   \* the clients holding its current resourceVersion
    namespace, \* does the target namespace exist?
    crds,      \* operator version each CRD was last written by, 0 if absent
    work,      \* workloads: links created, pods up, pod informer caught up
    job,       \* the drbd-adapter job: running, complete, event undelivered
    disks,     \* LocalDisks in the API server
    cache,     \* LocalDisks in the informer cache
    claims,    \* LocalDiskClaims in the API server
    queued,    \* is the Cluster in the controller's workqueue?
    process,   \* the operator process: version and memory
    pc,        \* where the Reconcile worker is
    pass,      \* the locals of the current Reconcile
    handler,   \* the locals of handleDrbdJobUpdate
    faults,    \* faults so far
    edits      \* edits so far

vars == <<cluster, current, namespace, crds, work, job, disks, cache, claims,
          queued, process, pc, pass, handler, faults, edits>>

-----------------------------------------------------------------------------
(* Data *)

Phase == {"", "ToReserve", "Reserved", "CreatedLDC"}

Status == [installedCRDS: BOOLEAN, drbdCreated: BOOLEAN, jobNum: 0..1,
           diskReserveState: {"", "ToReserve", "Reserved"}, phase: Phase,
           healthy: BOOLEAN]

LocalDisk == [state: {"absent", "available", "system", "claimed"},
              reserved: BOOLEAN]

ClaimState == {"none", "open", "bound"}

\* Phase adopts the value an older operator left in DiskReserveState.
AdoptedPhase(status) ==
    IF status.phase = "" THEN status.diskReserveState ELSE status.phase

\* The disks of a listing that checkLocalDiskReserveCondition selects.
DisksToReserve(spec, listing) ==
    {d \in Disk : listing[d].state # "absent" /\ d \in spec.reserve}

SiftAvailableAndUnreservedDisks(listing) ==
    {d \in Disk : listing[d].state = "available" /\ ~listing[d].reserved}

GenerateLocalDiskClaims(available) == {GroupOf[d] : d \in available}

NewStatus == [installedCRDS |-> FALSE, drbdCreated |-> FALSE, jobNum |-> 0,
              diskReserveState |-> "", phase |-> "", healthy |-> FALSE]

NoDisk == [state |-> "absent", reserved |-> FALSE]

NoSpec == [notClaim |-> FALSE, scDisable |-> FALSE, drbdDisable |-> FALSE,
           reserve |-> {}]

\* The locals of a worker, or of a handler, that is not running.
IdlePass == [spec |-> NoSpec, read |-> NewStatus, status |-> NewStatus,
             known |-> 0, listed |-> [d \in Disk |-> NoDisk],
             disksLeft |-> {}, claimsLeft |-> {}]

IdleHandler == [active |-> FALSE, status |-> NewStatus]

\* A Cluster the user just created, or one left by an operator that wrote
\* DiskReserveState and no Phase.
Init ==
    /\ \E spec \in ClusterSpecs, state \in {"", "ToReserve", "Reserved"} :
        LET upgraded == state # ""
        IN /\ cluster = [spec |-> spec,
                         status |-> [NewStatus EXCEPT
                                        !.installedCRDS = upgraded,
                                        !.diskReserveState = state]]
           /\ namespace = upgraded
           /\ crds = [c \in CRD |-> IF upgraded THEN 1 ELSE 0]
           /\ work = [made |-> IF upgraded THEN Components ELSE 0,
                      up |-> FALSE, podsSeen |-> FALSE]
           /\ process = [version |-> IF upgraded THEN MaxVersion ELSE 1,
                         specGeneration |-> FALSE, watching |-> FALSE]
    /\ current = {}
    /\ job = [running |-> FALSE, complete |-> FALSE, event |-> FALSE]
    /\ disks = [d \in Disk |-> NoDisk]
    /\ cache = [d \in Disk |-> NoDisk]
    /\ claims = [g \in Group |-> "none"]
    /\ queued = TRUE
    /\ pc = "idle"
    /\ pass = IdlePass
    /\ handler = IdleHandler
    /\ faults = 0
    /\ edits = 0

-----------------------------------------------------------------------------
(* Calls to the API server and the ends of a pass *)

Fault == faults < MaxFaults /\ faults' = faults + 1

\* Status().Update accepted: the other clients' copies are stale unless
\* nothing changed, and a change is an event that queues the Cluster.
StatusUpdated(client, status) ==
    /\ cluster' = [cluster EXCEPT !.status = status]
    /\ current' = IF status = cluster.status THEN current ELSE {client}
    /\ queued' = (queued \/ status # cluster.status)

\* Reconcile returns without an error.
Return ==
    /\ pc' = "idle"
    /\ pass' = IdlePass

\* Reconcile returns an error: the workqueue takes the Cluster again.
ReturnError ==
    /\ pc' = "idle"
    /\ pass' = IdlePass
    /\ queued' = TRUE

\* Mutant: a write that ignores the resourceVersion of the copy.
UpdateStatusForced(status, Continue) ==
    /\ StatusUpdated("worker", status)
    /\ Continue
    /\ UNCHANGED faults

\* The worker writes status and goes on to the state Continue describes.  The
\* write may be a conflict, or fail before or after it took effect; the pass
\* then ends with the error.
UpdateStatus(status, Continue) ==
    \/ /\ "worker" \in current
       /\ StatusUpdated("worker", status)
       /\ Continue
       /\ UNCHANGED faults
    \/ /\ "worker" \notin current
       /\ ReturnError
       /\ UNCHANGED <<cluster, current, process, faults>>
    \/ /\ Fault
       /\ ReturnError
       /\ \/ UNCHANGED <<cluster, current>>
          \/ /\ "worker" \in current
             /\ cluster' = [cluster EXCEPT !.status = status]
             /\ current' = IF status = cluster.status THEN current ELSE {}
       /\ UNCHANGED process

-----------------------------------------------------------------------------
(* Reconcile, in the order of its calls *)

\* The worker takes the Cluster from the queue and reads it from the API
\* server (the manager does not cache Clusters).
StartReconcile ==
    /\ pc = "idle" /\ queued
    /\ \/ /\ queued' = FALSE
          /\ pc' = "namespace"
          /\ pass' = [IdlePass EXCEPT !.spec = cluster.spec,
                                      !.read = cluster.status,
                                      !.status = cluster.status]
          /\ current' = current \cup {"worker"}
          /\ UNCHANGED faults
       \/ /\ Fault
          /\ UNCHANGED <<queued, pc, pass, current>>
    /\ UNCHANGED <<cluster, namespace, crds, work, job, disks, cache, claims,
                   process, handler, edits>>

\* Creating the namespace ends the pass and asks for another.
EnsureTargetNamespaceExist ==
    /\ pc = "namespace"
    /\ \/ /\ namespace
          /\ pc' = "crds"
          /\ UNCHANGED <<namespace, pass, queued, faults>>
       \/ /\ ~namespace
          /\ namespace' = TRUE
          /\ ReturnError
          /\ UNCHANGED faults
       \/ /\ Fault
          /\ ReturnError
          /\ UNCHANGED namespace
    /\ UNCHANGED <<cluster, current, crds, work, job, disks, cache, claims,
                   process, handler, edits>>

\* Mutant: the generation is remembered even if the write failed.
ResetInstalledCRDSEarly ==
    /\ pc = "crds"
    /\ ~process.specGeneration /\ pass.status.installedCRDS
    /\ process' = [process EXCEPT !.specGeneration = TRUE]
    /\ ReturnError
    /\ UNCHANGED <<cluster, current, namespace, crds, work, job, disks, cache,
                   claims, handler, faults, edits>>

\* A process that has not yet seen an installed Cluster turns installedCRDS
\* off, remembers the generation and waits for the event of its own write.
ResetInstalledCRDS ==
    /\ pc = "crds"
    /\ ~process.specGeneration /\ pass.status.installedCRDS
    /\ UpdateStatus([pass.status EXCEPT !.installedCRDS = FALSE],
                    Return /\ process' = [process EXCEPT !.specGeneration = TRUE])
    /\ UNCHANGED <<namespace, crds, work, job, disks, cache, claims, handler,
                   edits>>

\* Every CRD file is created or updated.  A failed creation (or read) is
\* returned; createOrUpdateCRD tests the wrong variable after an update, so a
\* failed update is not.
InstallCRDs ==
    /\ pc = "crds"
    /\ process.specGeneration \/ ~pass.status.installedCRDS
    /\ \E written \in SUBSET CRD :
        /\ crds' = [c \in CRD |-> IF c \in written THEN process.version
                                                   ELSE crds[c]]
        /\ \/ /\ written = CRD
              /\ pc' = "installed"
              /\ UNCHANGED <<pass, queued, faults>>
           \/ /\ UpdateErrors
              /\ written # CRD
              /\ \A c \in CRD \ written : crds[c] # 0
              /\ Fault
              /\ pc' = "installed"
              /\ UNCHANGED <<pass, queued>>
           \/ /\ Fault
              /\ ReturnError
    /\ UNCHANGED <<cluster, current, namespace, work, job, disks, cache,
                   claims, process, handler, edits>>

RecordInstalledCRDS ==
    /\ pc = "installed"
    /\ LET status == [pass.status EXCEPT !.installedCRDS = TRUE]
       IN UpdateStatus(status, /\ pc' = "components"
                               /\ pass' = [pass EXCEPT !.status = status]
                               /\ UNCHANGED process)
    /\ UNCHANGED <<namespace, crds, work, job, disks, cache, claims, handler,
                   edits>>

\* The maintainers create the links of the chain that are missing, in order;
\* the first error ends the pass and leaves the links before it.  A maintainer
\* that has just created its workload returns without a component status:
\* only the links that existed before have one (known), and it shows what the
\* maintainer saw of the pods at that moment.
EnsureComponents ==
    /\ pc = "components"
    /\ \/ /\ work' = [work EXCEPT !.made = Components]
          /\ pc' = "drbd"
          /\ pass' = [pass EXCEPT
                        !.known = work.made,
                        !.status.healthy = work.made = Components /\ work.up]
          /\ UNCHANGED <<queued, faults>>
       \/ /\ Fault
          /\ \E m \in work.made..Components : work' = [work EXCEPT !.made = m]
          /\ ReturnError
    /\ UNCHANGED <<cluster, current, namespace, crds, job, disks, cache,
                   claims, process, handler, edits>>

\* CreateDRBDAdapter or DeleteDRBDAdapter.  Their effect on the status is in
\* the copy only, and an error here or in the two managers that follow (the
\* fault) forgets it.
EnsureDRBD ==
    /\ pc = "drbd"
    /\ \/ /\ ~pass.spec.drbdDisable
          /\ ~pass.status.drbdCreated
          /\ job' = [job EXCEPT !.running = TRUE]
          /\ pass' = [pass EXCEPT !.status.drbdCreated = TRUE]
          /\ pc' = "phase"
          /\ UNCHANGED <<queued, faults>>
       \/ /\ ~pass.spec.drbdDisable
          /\ pass.status.drbdCreated
          /\ pc' = "phase"
          /\ UNCHANGED <<job, pass, queued, faults>>
       \/ /\ pass.spec.drbdDisable
          /\ job' = [job EXCEPT !.running = FALSE, !.complete = FALSE]
          /\ pass' = [pass EXCEPT !.status.drbdCreated = FALSE,
                                  !.status.jobNum = 0]
          /\ pc' = "phase"
          /\ UNCHANGED <<queued, faults>>
       \/ /\ Fault
          /\ ReturnError
          /\ \/ UNCHANGED job
             \/ /\ ~pass.spec.drbdDisable /\ ~pass.status.drbdCreated
                /\ job' = [job EXCEPT !.running = TRUE]
             \/ /\ pass.spec.drbdDisable
                /\ job' = [job EXCEPT !.running = FALSE, !.complete = FALSE]
    /\ UNCHANGED <<cluster, current, namespace, crds, work, disks, cache,
                   claims, process, handler, edits>>

\* What a step that stays in memory leaves alone.
Elsewhere == <<cluster, current, namespace, crds, work, job, disks, cache,
               claims, process, handler, edits>>

\* A pass that stays in memory until the final write: only its own locals.
Think(next, newPass) ==
    /\ pc' = next
    /\ pass' = newPass
    /\ UNCHANGED <<Elsewhere, queued, faults>>

\* ListLocalDisks fails, and the pass with it.
ListFails ==
    /\ Fault
    /\ ReturnError
    /\ UNCHANGED Elsewhere

InPhase(phase) == pc = "phase" /\ AdoptedPhase(pass.status) = phase

\* Mutant: the phase goes to the field of the older operator.
WithOldPhase(phase) == [pass EXCEPT !.status.diskReserveState = phase]

WithPhase(phase) == [pass EXCEPT !.status.phase = phase]

\* All components were Normal earlier in the pass, and local-disk-manager is
\* really ready as far as the pod informer has seen.
CheckComponentsInstalledSuccessfully ==
    pass.known = Components /\ pass.status.healthy /\ work.podsSeen

\* A call of CheckLDMReallyReady that fails counts as not ready.
CheckComponents ==
    /\ InPhase("")
    /\ \/ Think("final", IF CheckComponentsInstalledSuccessfully
                         THEN WithPhase("ToReserve") ELSE pass)
       \/ /\ Fault
          /\ pc' = "final"
          /\ UNCHANGED <<Elsewhere, pass, queued>>

\* Mutant: the reservation is repeated once everything is installed.
ListDisksAgain ==
    /\ InPhase("ToReserve") \/ InPhase("CreatedLDC")
    /\ Think("reserving", [pass EXCEPT
                             !.listed = cache,
                             !.disksLeft = DisksToReserve(pass.spec, cache)])

\* The list of LocalDisks is read after the two minutes of sleep.
ListDisksToReserve ==
    /\ InPhase("ToReserve")
    /\ \/ Think("reserving",
                [WithPhase("ToReserve") EXCEPT
                   !.listed = cache,
                   !.disksLeft = DisksToReserve(pass.spec, cache)])
       \/ ListFails

\* Mutant: the loop ends at a disk that an earlier pass has reserved.
ReserveDiskUntilReserved(d) ==
    /\ pc = "reserving" /\ d \in pass.disksLeft
    /\ \/ /\ pass.listed[d].reserved
          /\ pass' = [pass EXCEPT !.disksLeft = {}]
          /\ UNCHANGED <<disks, pc, queued, faults>>
       \/ /\ ~pass.listed[d].reserved
          /\ pass.listed[d] = disks[d]
          /\ disks' = [disks EXCEPT ![d].reserved = TRUE]
          /\ pass' = [pass EXCEPT !.disksLeft = @ \ {d}]
          /\ UNCHANGED <<pc, queued, faults>>
       \/ /\ pass.listed[d] # disks[d]
          /\ ReturnError
          /\ UNCHANGED <<disks, faults>>
       \/ /\ Fault
          /\ ReturnError
          /\ UNCHANGED disks
    /\ UNCHANGED <<cluster, current, namespace, crds, work, job, cache, claims,
                   process, handler, edits>>

\* One iteration of ReserveDisk's loop.
ReserveDisk(d) ==
    /\ pc = "reserving" /\ d \in pass.disksLeft
    /\ \/ /\ pass.listed[d] = disks[d]
          /\ disks' = [disks EXCEPT ![d].reserved = TRUE]
          /\ pass' = [pass EXCEPT !.disksLeft = @ \ {d}]
          /\ UNCHANGED <<pc, queued, faults>>
       \/ /\ pass.listed[d] # disks[d]
          /\ ReturnError
          /\ UNCHANGED <<disks, faults>>
       \/ /\ Fault
          /\ ReturnError
          /\ \/ UNCHANGED disks
             \/ /\ pass.listed[d] = disks[d]
                /\ disks' = [disks EXCEPT ![d].reserved = TRUE]
    /\ UNCHANGED <<cluster, current, namespace, crds, work, job, cache, claims,
                   process, handler, edits>>

\* Mutant: the switch falls through to the claims in the same pass.
FinishReservingAndClaim ==
    /\ pc = "reserving" /\ pass.disksLeft = {}
    /\ Think("claiming", [WithPhase("Reserved") EXCEPT
                             !.claimsLeft = GenerateLocalDiskClaims(
                               SiftAvailableAndUnreservedDisks(pass.listed))])

\* Mutant: the phase is not advanced after the reservation.
FinishReservingOnly ==
    /\ pc = "reserving" /\ pass.disksLeft = {}
    /\ Think("final", pass)

FinishReserving ==
    /\ pc = "reserving" /\ pass.disksLeft = {}
    /\ Think("final", WithPhase("Reserved"))

SkipClaims ==
    /\ InPhase("Reserved")
    /\ pass.spec.notClaim
    /\ Think("final", WithPhase("CreatedLDC"))

ListDisksToClaim ==
    /\ InPhase("Reserved")
    /\ ~pass.spec.notClaim
    /\ \/ Think("claiming",
                [WithPhase("Reserved") EXCEPT
                   !.claimsLeft = GenerateLocalDiskClaims(
                                    SiftAvailableAndUnreservedDisks(cache))])
       \/ ListFails

\* One iteration of CreateLocalDiskClaims' loop: that the claim already exists
\* is an error like any other.
CreateLocalDiskClaim(g) ==
    /\ pc = "claiming" /\ g \in pass.claimsLeft
    /\ \/ /\ claims[g] = "none"
          /\ claims' = [claims EXCEPT ![g] = "open"]
          /\ pass' = [pass EXCEPT !.claimsLeft = @ \ {g}]
          /\ UNCHANGED <<pc, queued, faults>>
       \/ /\ claims[g] # "none"
          /\ ReturnError
          /\ UNCHANGED <<claims, faults>>
       \/ /\ Fault
          /\ ReturnError
          /\ \/ UNCHANGED claims
             \/ /\ claims[g] = "none"
                /\ claims' = [claims EXCEPT ![g] = "open"]
    /\ UNCHANGED <<cluster, current, namespace, crds, work, job, disks, cache,
                   process, handler, edits>>

\* Mutant: the watchers start in the pass that creates the claims.
FinishClaimingAndWatch ==
    /\ pc = "claiming" /\ pass.claimsLeft = {}
    /\ pc' = "final"
    /\ pass' = WithPhase("CreatedLDC")
    /\ process' = [process EXCEPT !.watching = TRUE]
    /\ UNCHANGED <<cluster, current, namespace, crds, work, job, disks, cache,
                   claims, queued, handler, faults, edits>>

FinishClaiming ==
    /\ pc = "claiming" /\ pass.claimsLeft = {}
    /\ Think("final", WithPhase("CreatedLDC"))

\* The storage class watchers run from then on until the process ends.
StartWatchers ==
    /\ InPhase("CreatedLDC")
    /\ pc' = "final"
    /\ process' = [process EXCEPT !.watching = @ \/ ~pass.spec.scDisable]
    /\ UNCHANGED <<cluster, current, namespace, crds, work, job, disks, cache,
                   claims, queued, pass, handler, faults, edits>>

\* The status is written back whole; only a copy that equals what was read,
\* defaults of the spec included, needs no write.
UpdateFinalStatus ==
    /\ pc = "final"
    /\ \/ UpdateStatus(pass.status, Return /\ UNCHANGED process)
       \/ /\ pass.status = pass.read
          /\ Return
          /\ UNCHANGED <<cluster, current, queued, process, faults>>
    /\ UNCHANGED <<namespace, crds, work, job, disks, cache, claims, handler,
                   edits>>

-----------------------------------------------------------------------------
(* The operator process *)

\* A new process lists everything again: caches are filled, the Cluster is
\* queued and a completed job is delivered as a create event.
Restart(version) ==
    /\ process' = [version |-> version, specGeneration |-> FALSE,
                   watching |-> FALSE]
    /\ pc' = "idle"
    /\ pass' = IdlePass
    /\ handler' = IdleHandler
    /\ queued' = TRUE
    /\ current' = {}
    /\ cache' = disks
    /\ work' = [work EXCEPT !.podsSeen = work.up]
    /\ job' = [job EXCEPT !.event = job.complete]
    /\ UNCHANGED <<cluster, namespace, crds, disks, claims, edits>>

\* The process stops at any point and comes back, possibly upgraded.
Crash ==
    /\ Fault
    /\ \E version \in process.version..MaxVersion : Restart(version)

\* Past the first two links the check reads the health of a component without
\* testing that its status is there: the nil pointer takes the process down.
PanicOnMissingStatus ==
    /\ InPhase("")
    /\ pass.known \in 2..(Components - 1)
    /\ Restart(process.version)
    /\ UNCHANGED faults

-----------------------------------------------------------------------------
(* handleDrbdJobUpdate, called in the informer's goroutine *)

\* A job event also queues the Cluster that owns the job.
ReadForDrbdJob ==
    /\ job.event /\ ~handler.active
    /\ job' = [job EXCEPT !.event = FALSE]
    /\ queued' = TRUE
    /\ \/ /\ job.complete
          /\ handler' = [active |-> TRUE, status |-> cluster.status]
          /\ current' = current \cup {"handler"}
          /\ UNCHANGED faults
       \/ /\ ~job.complete
          /\ UNCHANGED <<handler, current, faults>>
       \/ /\ Fault
          /\ UNCHANGED <<handler, current>>
    /\ UNCHANGED <<cluster, namespace, crds, work, disks, cache, claims,
                   process, pc, pass, edits>>

\* Mutant: the handler's write ignores the resourceVersion of its copy.
WriteForDrbdJobForced ==
    /\ handler.active
    /\ handler' = IdleHandler
    /\ StatusUpdated("handler", [handler.status EXCEPT !.drbdCreated = TRUE,
                                                       !.jobNum = 1])
    /\ UNCHANGED <<namespace, crds, work, job, disks, cache, claims, process,
                   pc, pass, faults, edits>>

\* The predicate discards the error of a write that fails.
WriteForDrbdJob ==
    /\ handler.active
    /\ handler' = IdleHandler
    /\ \/ /\ "handler" \in current
          /\ StatusUpdated("handler", [handler.status EXCEPT
                                          !.drbdCreated = TRUE,
                                          !.jobNum = 1])
          /\ UNCHANGED faults
       \/ /\ "handler" \notin current
          /\ UNCHANGED <<cluster, current, queued, faults>>
       \/ /\ Fault
          /\ UNCHANGED <<cluster, current, queued>>
    /\ UNCHANGED <<namespace, crds, work, job, disks, cache, claims, process,
                   pc, pass, edits>>

-----------------------------------------------------------------------------
(* What surrounds the operator *)

Operator == <<namespace, crds, process, pc, pass, handler>>

EditSpec ==
    /\ edits < MaxEdits
    /\ edits' = edits + 1
    /\ \E spec \in ClusterSpecs \ {cluster.spec} :
        cluster' = [cluster EXCEPT !.spec = spec]
    /\ current' = {}
    /\ queued' = TRUE
    /\ UNCHANGED <<Operator, work, job, disks, cache, claims, faults>>

\* The workloads become available: the events of the DaemonSets and
\* Deployments queue the Cluster.  The operator does not watch pods, so the
\* pod informer may only catch up after that pass.
ComponentsUp ==
    /\ work.made = Components /\ ~work.up
    /\ work' = [work EXCEPT !.up = TRUE]
    /\ queued' = TRUE
    /\ UNCHANGED <<Operator, cluster, current, job, disks, cache, claims,
                   faults, edits>>

ObservePods ==
    /\ work.up /\ ~work.podsSeen
    /\ work' = [work EXCEPT !.podsSeen = TRUE]
    /\ UNCHANGED <<Operator, cluster, current, job, disks, cache, claims,
                   queued, faults, edits>>

PodsFail ==
    /\ work.up
    /\ Fault
    /\ work' = [work EXCEPT !.up = FALSE, !.podsSeen = FALSE]
    /\ queued' = TRUE
    /\ UNCHANGED <<Operator, cluster, current, job, disks, cache, claims,
                   edits>>

JobCompletes ==
    /\ job.running
    /\ job' = [running |-> FALSE, complete |-> TRUE, event |-> TRUE]
    /\ UNCHANGED <<Operator, cluster, current, work, disks, cache, claims,
                   queued, faults, edits>>

\* local-disk-manager reports a disk: free, or in use by the system.
DiscoverDisk(d) ==
    /\ disks[d].state = "absent"
    /\ \E state \in {"available", "system"} :
        disks' = [disks EXCEPT ![d].state = state]
    /\ UNCHANGED <<Operator, cluster, current, work, job, cache, claims,
                   queued, faults, edits>>

ObserveDisk(d) ==
    /\ cache[d] # disks[d]
    /\ cache' = [cache EXCEPT ![d] = disks[d]]
    /\ UNCHANGED <<Operator, cluster, current, work, job, disks, claims,
                   queued, faults, edits>>

\* local-disk-manager gives a claim the available disks of its group that are
\* not reserved.
BindClaim(g) ==
    /\ claims[g] = "open"
    /\ LET free == {d \in Disk : /\ GroupOf[d] = g
                                  /\ disks[d].state = "available"
                                  /\ ~disks[d].reserved}
       IN /\ free # {}
          /\ disks' = [d \in Disk |-> IF d \in free
                                      THEN [disks[d] EXCEPT !.state = "claimed"]
                                      ELSE disks[d]]
    /\ claims' = [claims EXCEPT ![g] = "bound"]
    /\ UNCHANGED <<Operator, cluster, current, work, job, cache, queued,
                   faults, edits>>

\* A bound claim is consumed by local-storage and deleted.
DeleteClaim(g) ==
    /\ claims[g] = "bound"
    /\ claims' = [claims EXCEPT ![g] = "none"]
    /\ UNCHANGED <<Operator, cluster, current, work, job, disks, cache, queued,
                   faults, edits>>

\* The informers' periodic resync delivers every object again.
Resync ==
    /\ queued' = TRUE
    /\ job' = [job EXCEPT !.event = @ \/ job.complete]
    /\ UNCHANGED <<Operator, cluster, current, work, disks, cache, claims,
                   faults, edits>>

-----------------------------------------------------------------------------
(* Specification *)

Reconcile ==
    \/ StartReconcile
    \/ EnsureTargetNamespaceExist
    \/ ResetInstalledCRDS
    \/ InstallCRDs
    \/ RecordInstalledCRDS
    \/ EnsureComponents
    \/ EnsureDRBD
    \/ CheckComponents
    \/ PanicOnMissingStatus
    \/ ListDisksToReserve
    \/ \E d \in Disk : ReserveDisk(d)
    \/ FinishReserving
    \/ SkipClaims
    \/ ListDisksToClaim
    \/ \E g \in Group : CreateLocalDiskClaim(g)
    \/ FinishClaiming
    \/ StartWatchers
    \/ UpdateFinalStatus

HandleDrbdJobUpdate == ReadForDrbdJob \/ WriteForDrbdJob

Environment ==
    \/ EditSpec
    \/ ComponentsUp
    \/ ObservePods
    \/ PodsFail
    \/ JobCompletes
    \/ \E d \in Disk : DiscoverDisk(d) \/ ObserveDisk(d)
    \/ \E g \in Group : BindClaim(g) \/ DeleteClaim(g)
    \/ Resync

Next == Reconcile \/ HandleDrbdJobUpdate \/ Crash \/ Environment

Spec == Init /\ [][Next]_vars

\* Go runs the worker and the informers' goroutines; local-disk-manager,
\* local-storage and the workload controllers do their work; resyncs recur.
\* Nothing is assumed of the user, of job completion or of new disks, and
\* faults and edits are finitely many.
FairSpec ==
    /\ Spec
    /\ WF_vars(Reconcile)
    /\ WF_vars(HandleDrbdJobUpdate)
    /\ WF_vars(ComponentsUp)
    /\ WF_vars(ObservePods)
    /\ \A d \in Disk : WF_vars(ObserveDisk(d))
    /\ \A g \in Group : WF_vars(BindClaim(g)) /\ WF_vars(DeleteClaim(g))
    /\ WF_vars(Resync)

-----------------------------------------------------------------------------
(* Properties *)

WorkerStates == {"idle", "namespace", "crds", "installed", "components",
                 "drbd", "phase", "reserving", "claiming", "final"}

Pass == [spec: FullSpec, read: Status, status: Status, known: 0..Components,
         listed: [Disk -> LocalDisk], disksLeft: SUBSET Disk,
         claimsLeft: SUBSET Group]

\* The types of the variables.
TypeOK ==
    /\ cluster \in [spec: FullSpec, status: Status]
    /\ current \in SUBSET {"worker", "handler"}
    /\ namespace \in BOOLEAN
    /\ crds \in [CRD -> 0..MaxVersion]
    /\ work \in [made: 0..Components, up: BOOLEAN, podsSeen: BOOLEAN]
    /\ job \in [running: BOOLEAN, complete: BOOLEAN, event: BOOLEAN]
    /\ disks \in [Disk -> LocalDisk]
    /\ cache \in [Disk -> LocalDisk]
    /\ claims \in [Group -> ClaimState]
    /\ queued \in BOOLEAN
    /\ process \in [version: 1..MaxVersion, specGeneration: BOOLEAN,
                    watching: BOOLEAN]
    /\ pc \in WorkerStates
    /\ pass \in Pass
    /\ handler \in [active: BOOLEAN, status: Status]
    /\ faults \in 0..MaxFaults
    /\ edits \in 0..MaxEdits

ClusterPhase == AdoptedPhase(cluster.status)

NextPhase == [p \in Phase |-> CASE p = "" -> "ToReserve"
                                [] p = "ToReserve" -> "Reserved"
                                [] OTHER -> "CreatedLDC"]

\* What the worker does in a pass is right for the phase the API server shows
\* at that moment, though it read the status long before (ToReserve sleeps for
\* two minutes) and the status has another writer.
WorkerPhaseCurrent ==
    /\ pc \in {"namespace", "crds", "installed", "components", "drbd", "phase"}
        => AdoptedPhase(pass.status) = ClusterPhase
    /\ pc = "reserving" => ClusterPhase = "ToReserve"
    /\ pc = "claiming" => ClusterPhase = "Reserved"
    /\ pc = "final"
        => AdoptedPhase(pass.status) \in {ClusterPhase, NextPhase[ClusterPhase]}

\* A disk marked reserved is never given to a claim ("the disk won't be used
\* in hwameistor later", LocalDiskSpec.Reserved), whatever the interleaving
\* of ReserveDisk, its retries, crashes, the stale listing and the claims.
ReservedNotClaimed ==
    \A d \in Disk : disks[d].reserved => disks[d].state # "claimed"

\* No claim exists, and no disk is claimed, before the phase the API server
\* shows has passed "ToReserve": a claim that preceded the reservation of a
\* disk could take it.
ClaimsFollowReservation ==
    (\/ \E g \in Group : claims[g] # "none"
     \/ \E d \in Disk : disks[d].state = "claimed")
        => ClusterPhase \in {"Reserved", "CreatedLDC"}

\* The storage class watchers only run once the API server shows CreatedLDC.
WatchersFollowClaims ==
    process.watching => ClusterPhase = "CreatedLDC"

\* A process that has reset installedCRDS and shows it true again has brought
\* every CRD to its own version ("That will ensure hwameistor crds updating
\* not missed when upgrading", cluster_controller.go:131).
CRDsCurrent ==
    process.specGeneration /\ cluster.status.installedCRDS
        => \A c \in CRD : crds[c] = process.version

\* The phase in the API server advances one step at a time and never goes
\* back, although the worker and the job handler both write whole statuses
\* from copies they read earlier.
PhaseAdvancesInOrder ==
    [][ClusterPhase' # ClusterPhase
        => ClusterPhase' = NextPhase[ClusterPhase]]_vars

\* When the API server first shows "Reserved", every disk of the worker's list
\* that the spec it read names is reserved, after any number of passes
\* that stopped half way through the list.
ReservationComplete ==
    [][ClusterPhase = "ToReserve" /\ ClusterPhase' = "Reserved"
        => \A d \in DisksToReserve(pass.spec, pass.listed) :
              disks[d].reserved]_vars

\* The number of completed jobs that the handler recorded is only lost by a
\* pass that saw drbd disabled, never by a pass that read the status earlier.
JobNumKept ==
    [][cluster.status.jobNum > 0 /\ cluster'.status.jobNum = 0
        => pass.spec.drbdDisable]_vars

Abstract == INSTANCE Installation WITH phase <- ClusterPhase,
                                       watching <- process.watching

\* The operator implements Installation: whatever a pass that was started
\* under an older status, a second writer, a failed call or a restart does, it
\* reserves disks, creates claims, advances the phase and starts watchers one
\* at a time, each in the phase the API server shows.
ImplementsInstallation == Abstract!Spec

\* An installation reaches CreatedLDC: partial failures, conflicts, claims
\* that exist already, a lost wake-up and a panic delay it only.
Installed == <>(ClusterPhase = "CreatedLDC")

=============================================================================
