# Specifications of the HwameiStor operator

TLA+ models of hwameistor-operator, the configurations that model-check them,
and proofs of their main properties.  The reference is the Go code of this
repository; every definition names the lines it stands for in `PROJECT.json`
(`map`).

Run from this directory:

    tlc -config ClusterReconcile_phases.cfg MCClusterReconcile
    tlc -config DrbdInstall_switch.cfg MCDrbdInstall
    tlc -config Maintainers_settle.cfg MCMaintainers
    tlc -config AdmissionCert_watch.cfg AdmissionCert
    tlc -config StorageClasses_watch.cfg MCStorageClasses
    tlc -config SharedObjects_shared.cfg MCSharedObjects
    tlapm ClusterReconcileProofs.tla

The modules with proofs are `ClusterReconcileProofs`, `InstallationProofs`,
`DrbdInstallProofs`, `MaintainersProofs`, `AdmissionCertProofs`,
`StorageClassesProofs`, `MemberEnvProofs` and `SharedObjectsProofs`.

## 1. The system

The operator is one Go process.  It watches one kind of object, `Cluster`, and
installs HwameiStor from it.

| Part | State it keeps | Operations | Talks to |
|---|---|---|---|
| Cluster controller (`controllers/cluster_controller.go`) | `ClusterSpecGeneration` in memory; everything else is the status of the Cluster | `Reconcile`, one at a time; `handleDrbdJobUpdate`, `handleDrbdJobDelete` called by the informers | all the parts below, by direct calls |
| CRD and namespace installation (`pkg/install/installcrds.go`, `utils.go`) | CRDs, namespace | `InstallCRDs`, `EnsureTargetNamespaceExist` | API server |
| Disk reservation and claims (`pkg/install/utils`) | LocalDisks, LocalDiskClaims | `CheckComponentsInstalledSuccessfully`, `ReserveDisk`, `CreateLocalDiskClaims` | API server, informer cache, local-disk-manager |
| Maintainers (`pkg/install/<component>`) | a template in a package variable; a Deployment or DaemonSet each, with a ConfigMap (scheduler) or Services | `Ensure`, `Uninstall`, `Fulfill...Spec` | API server, informer cache |
| drbd-adapter (`pkg/install/drbd`) | configuration in package variables; one Job per node | `CreateDRBDAdapter`, `DeleteDRBDAdapter`, `CreateDRBDForNode` | API server; the controller's job handlers |
| Admission controller's certificate (`pkg/install/admissioncontroller`) | a Secret, a channel, a timer | `ensureAdmissionCA`, `rollingUpdateCertificate`, `StartCertificateWatcher` | API server, clock |
| Storage classes (`pkg/install/storageclass`) | StorageClasses; "started" flags | two informers that run from the phase CreatedLDC to the end of the process | API server, a second informer's cache |
| RBAC (`pkg/install/rbac`) and the member container (`pkg/install/localstorage/member_env.go`) | a ClusterRole, a ServiceAccount, a ClusterRoleBinding; a container's environment and arguments | `rbac.Ensure`, `mergeMemberEnv`, `setMigrationCheck` | API server, informer cache, administrators who edit the same objects |
| Process (`main.go`) | the informer caches | start, stop; the chart recreates its pod, so there is one at a time | |

The parts interact through the Cluster's status and through the API server.
`Cluster` and `Job` are read from the API server, all other kinds from
informer caches that lag behind it (`main.go:81`).  Writes carry the
resourceVersion that was read.

What is hard here:

* **Two writers of one status.**  The Reconcile worker reads the Cluster once
  and writes the whole status up to three times in a pass; in the phase
  `ToReserve` it sleeps two minutes in between.  The drbd job handler runs in an
  informer's goroutine meanwhile and writes the whole status too.
* **A protocol in phases** (`""`, `ToReserve`, `Reserved`, `CreatedLDC`), one
  step per pass, each with several calls of which any may fail, with a record in
  the status only at the end of the pass.
* **Other actors on the same objects**: local-disk-manager discovers disks and
  gives them to claims; the user edits the spec; an administrator edits the
  role or a container's environment.
* **Two caches of one kind**: the storage class watchers are woken by one
  informer and look into another's cache.
* **Stops and upgrades**: memory is lost at any point, events are delivered
  again, and the new process may be of another version.
* **Wake-ups**: a pass that finds components not ready returns without an error.

What makes each part correct:

* Controller: the phase advances in order and is never written back; what a
  pass does belongs to the phase the API server shows; an installation ends.
* Reservation and claims: a reserved disk is never given to a claim; the record
  `Reserved` means that the disks are reserved; claims come after the record.
* CRDs: a process that shows `installedCRDS` has written its own CRDs.
* Maintainers: the workload converges to the spec; a disabled component goes
  away with all its objects and stays away; a pass is not held up for ever by
  one component.
* drbd-adapter: one job per node; completion is recorded once and survives;
  a disabled adapter leaves no job.
* Certificate: a certificate is replaced before it expires as long as the API
  server answers from time to time.
* Storage classes: a storage class exists for every pool that has capacity, and
  for no other; the classes for replicated volumes wait for the drbd jobs.
* Shared objects: a write loses nothing of somebody else's and leaves nothing
  for a next one; pods are asked for after what they run as.

## 2. Modules

Six models look at the operator from six sides.  Each keeps one part in full
and reduces the others to what that part sees of them:

| Module | Kept in full | Reduced |
|---|---|---|
| `ClusterReconcile` | the phases, disks and claims, CRDs, the two writers of the status | the drbd jobs of all nodes are one job; the components are a chain of links created in order |
| `DrbdInstall` | the drbd jobs of each node, the job handlers, the switch of DRBD | a pass is the drbd section of `Reconcile` and its last write |
| `Maintainers` | `Ensure` and `Uninstall` of each component, deletion and creation of the Cluster | a pass is the chain of components and its last write |
| `AdmissionCert` | the Secret of the admission controller, its watcher, the rolling update | a pass is `ensureAdmissionCA` |
| `StorageClasses` | both watchers, from the event to the creations, with the manager's cache | the phases are a flag; the pass that starts the watchers is one step |
| `SharedObjects` | role, account, binding, and environment and arguments of the member container | a pass is RBAC's `Ensure` and local-storage's; images and volumes are left to `Maintainers` |

`Installation` is an abstract specification: what the installation of a Cluster
promises (phases, disks, claims, watchers), with no pass, cache, conflict or
failure in it.  `ClusterReconcile` implements it: `Abstract` is its instance with
the phase read off the status (`ClusterPhase`) and the started watchers off the
process, and `ImplementsInstallation` is checked and proved.

Definitions commented as mutants are variants of the definition that follows
them with a plausible mistake.  No action uses them: each shows that a property
fails when the code is wrong in that way.

### ClusterReconcile

| State | Code |
|---|---|
| `cluster` | spec and status of the Cluster; the status keeps `InstalledCRDS`, `DRBDAdapterCreated`, `DRBDAdapterCreatedJobNum`, `DiskReserveState`, `Phase`, and one flag for the component statuses (`healthy`) |
| `current` | which of the two writers holds the current resourceVersion: the others' writes are conflicts |
| `pc`, `pass` | where the worker is in `Reconcile`; its locals `instance` (`spec`, `read`) and `newInstance` (`status`), the list of disks, what is left of each loop |
| `handler` | the locals of `handleDrbdJobUpdate` |
| `process` | `ClusterSpecGeneration` (set or not), the started watchers, the version of the operator |
| `queued` | whether the workqueue holds the Cluster |
| `crds`, `namespace`, `work`, `job`, `disks`, `claims` | objects in the API server |
| `cache`, `work.podsSeen` | what the informers have seen of LocalDisks and pods |

Each call of `Reconcile` that reaches the API server is an action, and each
iteration of the loops of `ReserveDisk` and `CreateLocalDiskClaims` is one, so
that everything else may happen between them.  Each such call may fail; a
failed write may have taken effect (the reply is lost).  A nil pointer that the
code dereferences stops the process (`PanicOnMissingStatus`).  `Crash` stops it
anywhere, and what is in memory is lost.

Abstracted: the maintainers whose statuses the phases look at are a chain of
links created in order (`EnsureComponents`), of which the first two are
local-disk-manager and local-storage; a claim is its group (node and disk
type); resourceVersions are the set `current`.  Disks that are discovered after
`ReserveDisk` has listed them are outside of what `ReservationComplete`
promises: the code reserves once.

### DrbdInstall

| State | Code |
|---|---|
| `cluster`, `current` | as above, with `DRBDAdapterCreated` and `DRBDAdapterCreatedJobNum` of the status |
| `jobs` | the number of running, complete and failed jobs of each node |
| `events` | what the job informer has not delivered yet: a completion, deletions per node |
| `deployOnMaster` | the package variable that `GetDistro` reads and `handleDrbdJobUpdate` does not set |
| `configs` | the section that `HandelDRBDConfigs` last set the other package variables from: `"none"` in a new process (the namespace of the jobs is empty), `"affinity"` where `useAffinity` is "yes", else `"full"` |
| `worker` | where `Reconcile` is, its two copies of the status, the nodes left in `CreateDRBDAdapter`'s loop |
| `handler` | where the informer's goroutine is, the number of jobs counted, the status read |
| `installed`, `twice`, `restarted` | history, for the properties |

The worker and the handler take their steps in any order.  The handler counts
the completed jobs (`CountCompletedJobs`), reads the Cluster and writes its
status; the predicate drops the error if the write is a conflict.  Or it reads
the Cluster (`ReadForJobDelete`) and creates the job again.  A job's name holds
the second of its creation, so that a pass that is repeated creates further
jobs: jobs are counted per node.

Worker and handler both give `HandelDRBDConfigs` the Cluster as it is stored;
the one with the defaults filled in is another copy.  What comes of that depends
on the `drbd` section.  Where it is missing, the package variables keep their
values: in a process that has seen no other section the namespace is empty and
every job is refused (`CreateDRBDForNode`).  Where a nested section is missing
the worker panics (`PanicOnCreating`), and the handler where it would have
created the job (`PanicOnJobDelete`); the handler also where the whole section
is missing.  Where `useAffinity` is "yes" whoever creates a job dereferences the
affinity it has not got (`PanicOnCreating`, `PanicOnRecreating`).  Nobody
recovers, so that every panic is a restart.

### Maintainers

The 16 maintainers are written after one scheme.  A `Shape` says in what a
component departs from it: whether its template is copied or changed in its
package variable, when `Uninstall` removes the workload, whether a Service or a
ConfigMap belongs to it, which fields are compared with the spec and which are
assigned, whether its pods are counted, whether its health is reported and
whether the controller looks at the error of its `Uninstall`.  `Auditor`,
`Exporter`, `Scheduler`, ... are the shapes of the components of those names.

| State | Code |
|---|---|
| `chain`, `foreign` | constant: the shapes considered, and the workloads the user had installed himself |
| `cluster` | the Cluster (`exists`, `uid`), the version and the switches of its spec, the health in its status |
| `live`, `seen` | the workloads in the API server and in the cache: owners, fields, ready or not |
| `companion`, `companionSeen` | the same of Services and ConfigMaps |
| `unseen` | the workloads whose event will queue their owner |
| `lingering` | components with more labelled pods than replicas |
| `template` | the owners collected in the package variables |
| `pass` | where `Reconcile` is in the chain, and its copy of the Cluster |

An `Ensure` reads caches, makes at most one write, and is one action: that the
cache catches up between the reading and the write has the same effect as
having read the older cache.  The evictor's `Ensure` deletes and then reads
again, and is two.  A pass goes through `chain` and writes the status if a
health has changed.  A write to an object that is not as the cache has it is a
conflict, or a name that is taken, and ends the pass.

Abstracted: the fields are the image and the replicas, and the image of the
snapshotter that the local-storage CSI controller compares and never assigns;
`local-disk-manager` and `local-storage` have one health from two workloads
each in the code and one per workload here; the target namespace does not
change.

### AdmissionCert

| State | Code |
|---|---|
| `now` | the clock, in units much longer than an API call or a back-off |
| `secret`, `seen` | the Secret in the API server and in the cache: absent, without data, or a certificate, which is the time it expires |
| `pods` | the certificate the admission controller's pod has loaded |
| `started` | whether this process has called `NewAdmissionControllerMaintainer` (`once`) |
| `scheduling`, `watchChan`, `timers`, `update` | where the watcher's next check is: a goroutine in `scheduleNextCertificateCheck`, the channel, a timer, a rolling update with the number of its attempt |
| `worker` | whether the Reconcile worker is generating, that is, holds the lock |
| `gaveUp`, `forgot` | history, for the properties |

`ensureAdmissionCA` is two steps under a lock, a reading of the cache and a
write; the rolling update is a clearing, an `ensureAdmissionCA` and the deletion
of the pods, each of which may fail and leads to the next attempt.  Time passes
only when nothing is under way, so that "in time" does not depend on how fast an
API call is.  The Secret is changed by nobody else, and the component is not
disabled.

### StorageClasses

| State | Code |
|---|---|
| `cluster` | the `storageClass` section as stored, the phase reached (`installed`), `DRBDAdapterCreatedJobNum` |
| `pools` | `Status.Pools` of LocalStorageNodes and LocalDiskNodes, as sets of pool classes |
| `cache`, `synced` | what `m.Client.List` shows: the cache of the manager, which the first `List` of a process fills |
| `watching`, `events` | the informers of `storageclass.go:228` and what they have not delivered |
| `watcher` | the locals of each informer's goroutine: about to list, the section and the number of jobs it read, the classes left to create |
| `classes` | the StorageClasses in the API server |
| `pooled`, `recorded` | history, for the properties |

Taking an event, listing and each creation of the loop are steps of their own, so
that pools, Cluster and classes may change in between.  A failed `Get` or `List`
loses the event, a failed creation is passed over, as in the code.
`PanicOnNoSection` is the stored Cluster without a section, which the watcher
dereferences.  A storage class is its name: the code compares nothing else.

### SharedObjects

| State | Code |
|---|---|
| `cluster` | the account's name, the value of a field that becomes a variable, the annotation with the extra environment (parsed or not) |
| `settings` | the environment the operator is deployed with: JuiceFS version, `MIGRATE_CHECK` |
| `role`, `accounts`, `binding` | the objects of `rbac.go`; a rule is one on ConfigMaps with or without `delete`, or another |
| `member` | the DaemonSet: its account, and environment and arguments of the member container, as sequences |
| `seen`, `stale` | the caches of these, and which hold an older resourceVersion |
| `pass` | which of the four calls is next, and the Cluster that was read |

`MergeMemberEnv`, `OtherArgs` and `SetMigrationCheck` are translations of
`mergeMemberEnv` and of the flag's handling for any sequences.  A read and the
write made of it are one step.  The Cluster owns the DaemonSet, whose events
therefore queue it; a change of role, account or binding is seen by the next
pass, at the latest after a resync.

## 3. Runs

| Run | Question | Instance |
|---|---|---|
| `phases` | do reservation and claims keep apart, do the two writers of the status disturb each other, and is what happens an installation? (`ReservedNotClaimed`, `ClaimsFollowReservation`, `ReservationComplete`, `WatchersFollowClaims`, `WorkerPhaseCurrent`, `PhaseAdvancesInOrder`, `JobNumKept`, `ImplementsInstallation`) | 2 disks of 1 group, specs that reserve both or one of them, 1 fault or 1 edit, both with 1 disk; drbd on with 1 disk, no edit, and 1 fault before it is discovered |
| `liveness` | does an installation end, and are the CRDs those of the process that says so? (`Installed`, `CRDsCurrent`) | 2 disks of 2 groups, claims or storage classes off, 2 CRDs, 2 versions, 1 fault; updates of CRDs do not fail |
| `crd_update_error` | the same when updates of CRDs may fail: **violated** | 2 CRDs, 2 versions, 2 faults |
| `drbd_switch` | does disabling DRBD leave anything behind, does a recorded installation start again, does it mean that DRBD is on the worker nodes? (`DisabledLeavesNothing`, `NoRetryAfterCompletion`, `CompletionMeansInstalled`) | 1 master, 1 worker, 6 drbd sections, 1 edit, 1 deleted job and 1 fault, or one of the two where the section is not the chart's |
| `drbd_liveness` | is a completion recorded although errors are dropped, does a deleted job come back? (`Recorded`, `DeletedJobRetried`) | 2 nodes, the chart's drbd section, 1 deleted job, 1 fault |
| `drbd_removed_section` | does a deleted job come back if the drbd section may be taken out of the Cluster? **violated** | 2 nodes, 1 deleted job, 1 edit, no fault |
| `maint_settle` | does the operator come to rest with a workload it owns unsettled, and do workloads and Services settle in the end? (`RestMeansSettled`, `CopiesConverge`) | each of the 16 shapes alone, 2 versions, 2 Clusters, 1 fault, 2 disturbances (1 for a component that can be disabled), workloads of the user |
| `maint_reinstall` | convergence, for a template that is not copied: **violated** | the exporter, 2 Clusters, no fault |
| `cert_watch` | is one check always pending, is the certificate replaced in time, is a cleared Secret filled again? (`OneCheckPending`, `RenewedInTime`, `ServedInTime`, `Regenerated`) | lifetime 5, margin 2, fallback 1, 2 attempts, clock to 7, 2 faults |
| `storage_watch` | is there a class only where there was a pool, and the jobs, and does every class that is called for come to stay? (`ClassesHadPools`, `VariantsHadJobs`, `ClassesCreated`) | 1 node of each kind, 1 pool class, 3 sections, 2 jobs, 1 fault, 3 changes |
| `storage_missed` | does a class come after a pool whose node then writes nothing more? **violated** | 1 node, 1 change, no fault |
| `shared` | do writes keep what others wrote, are they final, do pods come after their account, does what is asked for arrive? (`RulesKept`, `EntriesKept`, `WritesAreFinal`, `AccountBeforePods`, `Settled`) | a new or an older installation, 3 Clusters, 2 environments of the operator, 1 fault, 1 edit by somebody else |

Every module has one type invariant, checked in its first run.

### Bounds

Faults are bounded because without a bound every pass may fail.  One is enough
for a pass that stops half way and a next one that goes on in what it left; a
second fault multiplies the states and repeats the first.  The safety
properties are proved for any number of faults and edits.

`ClusterReconcile`: one edit is enough for a pass to work with a spec that is no
longer the Cluster's; the specs differ in what the phases look at.  Two disks of
one group are needed for a claim to have one disk to take and one to leave; two
groups for a loop of claims that stops half way.  Three links (`Components = 3`)
is the least for which one lies beyond the first two, where the missing status
is not tested.  In `phases` one of the specs reserves both disks: a fault at the
second leaves the list half done, and the next pass finds the first disk
reserved, which the mutant for `ReservationComplete` takes for the end of the
list.  All runs begin with a new Cluster and with Clusters that an
older operator left in `ToReserve` or `Reserved`.  In `phases` two constraints
keep the states few.  `BudgetBound`: once the second disk is there, a fault or
an edit may happen, not both (a fault for a pass that stops half way, an edit
for a list that is another in the next one); with one disk they may both.  `DrbdBound`: where
the job handler takes part there is one disk and no edit, and a fault only
while there is no disk, which is enough for a stale write of either writer.

`DrbdInstall`: two nodes are the least for a loop that stops half way and for
two jobs of one node to be taken for one job of each.  The runs begin with each
of the sections, so that one edit is DRBD switched off or on, jobs on masters
asked for, or a section taken away or damaged, while jobs and events of before
are on the way; one deletion by the user is one retry.  `SectionBound` keeps
`drbd_switch` small: with a section other than the chart's there is a fault or a
deletion, not both, since a panic is a restart already.  Masters are absent
where the question is not about them.

`Maintainers`: one component at a time suffices for what a maintainer does with
its own objects, since no maintainer touches those of another; what they have in
common is the pass, which ends early by a fault or by pods that linger with one
component as with many.  Two versions are an edit; two Clusters a
reinstallation; two disturbances a change that meets the reaction to another.
`RestMeansSettled` is moreover proved for chains of any length.

`AdmissionCert`: the numbers are the least for which a lifetime has a part that
is before the margin, and the clock passes the first renewal and comes near the
second.  Two attempts are a failure that is retried and one that is not, and two
faults can end a watch.

`StorageClasses`: the nodes of a kind are independent but for the listing that
takes all of them, so that one of each kind shows a listing older than its
event; three changes are a pool, the jobs, and one that undoes either.  Two jobs
are what a class of two replicas needs.

`SharedObjects`: the older installation differs from the wanted one in
everything a merge distinguishes (an entry of somebody else between two wanted
ones, a flag in two arguments, another value and account, a rule without the
verb).  One edit is an entry anywhere at the ends, or a missing one; the fault is
a lost reply or a restart with another environment.  Settings that are no value of
the flag end a pass as an annotation that does not parse does (`Malformed`), which
is the one tried.

Deadlock is checked, except for `StorageClasses`, where there may be nothing
left to do: nodes and watchers at rest need no step.  In the other modules
`Resync` or a pass is possible when nothing else is, so that a deadlock is not
what a stuck installation looks like: the liveness properties would show one.

### Fairness

`ClusterReconcile`: the worker and the informers' goroutines run (Go
schedules them); the workload controllers bring pods up; the informers
catch up; local-disk-manager and local-storage process claims; the periodic
resync of the informers recurs (every 10 hours by default).  Nothing is assumed
of the user, of the drbd job or of the discovery of disks.  The resync is
necessary: a pass that finds the pods of local-disk-manager missing from the
cache leaves no wake-up behind.

`DrbdInstall`: the worker and the informer's goroutine run, jobs end in one way
or the other, the resync recurs.  The informer's queue is first in, first out:
an event is not passed over for ever, which is strong fairness of the step that
takes it, for the handler is busy with another event again and again.

`Maintainers`: the worker runs, each informer catches up, the garbage collector
and the workload controllers act, pods that linger are cleaned up (weak fairness
per component), the resync recurs.  Nothing is assumed of the user, who may or
may not create a second Cluster.

`AdmissionCert`: the goroutines run, the cache follows, passes of `Reconcile`
recur (the deletion of the pods wakes it), and the worker gets the lock in the
end: a Go mutex is handed over to who has waited for long, hence strong
fairness.  Time need not pass.

`StorageClasses`: passes recur and the installation ends (`liveness` shows it),
the goroutines run, the manager's cache follows.  The watchers' informers have
no resync, so that nothing more can be said of an event that was lost; what
repairs it is the next status that the node writes.  `ClassesCreated` is
therefore checked under `RefreshedSpec`, in which nodes write their status again
and again, and `PoolGetsClass` under `FairSpec`, in which they need not.

`SharedObjects`: the worker runs, each informer catches up, the resync recurs.

### What the violated runs show

* `crd_update_error`: after its update `createOrUpdateCRD`
  (`pkg/install/installcrds.go:81`) tests `err`, which is nil there, instead of
  `updatingErr`.  A failed update of an existing CRD is taken for a success,
  `InstalledCRDS` is recorded, and the purpose stated at
  `controllers/cluster_controller.go:131` ("That will ensure hwameistor crds
  updating not missed when upgrading") is missed until a later pass.
* `drbd_removed_section`: `handleDrbdJobDelete`
  (`controllers/cluster_controller.go:746`) reads `Spec.DRBD` of the stored
  Cluster, where the defaults are not filled in.  The jobs are created while the
  section is complete; the user takes it out of the Cluster and deletes a job
  "to retry installation" (line 743), or the other way round, and the process
  panics.  The new one has not seen the deletion.  If the jobs were recorded as
  created it has nothing to do; if not, it has no namespace for them and every
  one is refused.  The node stays without a job.
* `maint_reinstall`: `SetExporter` (`pkg/install/exporter/exporter.go:92`), like
  those of scheduler, evictor and UI, appends an owner to its package variable
  on every call.  After a second Cluster was created the template has two
  controllers, which the API server refuses, until the operator restarts.
* `storage_missed`: a watcher is woken by its own informer and lists the nodes
  from the manager's cache (`pkg/install/storageclass/storageclass.go:66`), which
  may not show the pool yet.  No resync follows (line 228), so that the pool has
  no class until its node writes its status again.  `README.md:43` promises one
  "once there are disks in the pool".

`CopiesConverge` is about the shapes that copy their template, for the reason
that `maint_reinstall` shows.  More things no run is listed for, since no
document says otherwise:

* The scheduler's `Uninstall` reaches the ConfigMap
  (`pkg/install/scheduler/scheduler_configmap.go:139`) only if the Deployment is
  still in the cache, so that it may stay for ever.
* The error of the local-storage CSI controller's `Uninstall` is not assigned
  (`controllers/cluster_controller.go:190`), and `err` of the call before is
  tested again; `RestMeansSettled` would not hold for that shape, and asks
  nothing of it (`errorsReturned`).
* The `Ensure` of a disabled evictor deletes the Deployment and goes on
  (`pkg/install/evictor/evictor.go:153`) to create it if the cache no longer
  shows it, which queues a pass that deletes it again.
* The timer's rolling update
  (`pkg/install/admissioncontroller/admission_controller.go:449`) does not look
  at the certificate again.  In a new installation the watcher starts before the
  Secret exists and waits for the fallback time (line 461): the certificate
  generated a moment later is replaced after an hour.
* A ClusterRoleBinding that exists is left alone (`pkg/install/rbac/rbac.go:278`):
  when the account's name is edited, the new account is bound to nothing.
* The worker creates the drbd jobs from the stored Cluster
  (`controllers/cluster_controller.go:521`), so that the defaults of
  `FulfillDRBDSpec` have no effect: without a drbd section no job is ever
  created, without its `shipper` or `nodeAffinity` every pass panics
  (`pkg/install/drbd/drbd_adapter.go:91`, 99), and so it does with
  `useAffinity: "yes"` (line 390).  The chart's section is complete and says
  "no".  In `DrbdInstall` an installation then simply is not recorded.
* `FulfillClusterInstance` fills in no `auditor`, `failoverAssistant`,
  `pvcAutoResizer` or `localDiskActionController` section, which `Reconcile`
  dereferences (`controllers/cluster_controller.go:314`): the simple sample
  makes every pass panic.  The Clusters of the models have them, as the chart
  writes them.
* A variable that leaves the extra environment stays in the member container,
  on purpose (`member_env.go:5` and its tests); `EntriesKept` says so.

In `AdmissionCert`, `gaveUp` in the properties is not a formality: a rolling
update that reads the cache before it shows the cleared Secret skips the
generation, and one that reads it after tests the data that are not there
(line 521) and fails; if no pass generates a certificate within its attempts
the watch ends, without any failure of the API server.

## 4. Proofs

The theorems hold for every value of the constants that the named assumptions
allow; nothing else is assumed.

### ClusterReconcileProofs

From `ConstantsAssumption`, for all sets of disks, groups, CRDs and specs and all
bounds:

* `TypeCorrect`: `Spec => []TypeOK`.
* `WorkerIsCurrent`, `ReservedDisksStayFree`, `ClaimsAfterReservation`,
  `WatchersAfterClaims`: `WorkerPhaseCurrent`, `ReservedNotClaimed`,
  `ClaimsFollowReservation` and `WatchersFollowClaims`.
* `PhaseInOrder`: `Spec => PhaseAdvancesInOrder`.

The argument.  That a reserved disk is never claimed does not follow from
itself: it needs that reserving and claiming never happen in the same phase.
That needs `WorkerPhaseCurrent`: the worker, who read the phase long ago, is
still right about it.  The worker is the only one who changes the phase, but
not the only one who writes it; the handler's write leaves the phase alone only
if the copy it writes back is the status of the API server (`HandlerCurrent`).
Together they are `IInv`, which is inductive (with `TypeOK`).  `PhaseMoves`
says which steps can change the phase, and `PhaseOrder` how.

### InstallationProofs

On the invariant of `ClusterReconcileProofs`:

* `Refinement`: `Spec => ImplementsInstallation`.
* `ReservedIsComplete`: `Spec => ReservationComplete`.
* `JobNumStays`: `Spec => JobNumKept`.
* `CRDsStayCurrent`: `UpdateErrors = FALSE /\ Spec => []CRDsCurrent`; the run
  `crd_update_error` shows why the assumption is needed.

The argument.  `Refinement` maps the few actions that move phase, disks, claims
or watchers to the action of `Installation` of the same purpose, whose guard is
what `IInv` says of the worker at that place; all others are `Silent`.
`ReservationComplete` needs where the worker is in its list (`Reserving`): the
disks it has passed are reserved.  `JobNumKept` needs that a worker that still
holds the current resourceVersion has the API server's number (`JobNumSeen`), and
`CRDsCurrent` that a pass beyond `InstallCRDs` has written every CRD
(`CRDsWritten`).

### DrbdInstallProofs

From `DrbdAssumption`, for any finite set of nodes, all masters and drbd sections
and all bounds:

* `TypeCorrect`: `Spec => []TypeOK`.
* `DeletedStaysDeleted`: `Spec => []NoRetryAfterCompletion`.
* `NothingLeft`: `Spec => []DisabledLeavesNothing`.
* `RecordedIsInstalled`: `Spec => []CompletionMeansInstalled`.

The argument.  The handler reads `DRBDAdapterCreatedJobNum` as zero and creates
the job later.  In between only the worker can write the status.  The worker
never makes the number positive by itself: it writes back the number it has
read (`WorkerKeepsJobNum`) or resets it, and if it still holds the current
resourceVersion the number it has read is that of the API server
(`WorkerCurrent`); a handler that could record completion is the same goroutine,
which is busy.  These and the types the argument needs (`Types`) are `IInv`; the
other types (`OtherTypes`) follow from it.

For `NothingLeft`, whatever changes the Cluster or the jobs queues the Cluster or
leaves the handler or an event under way.  So a pass that nothing will follow has
read the Cluster as it is (`PassIsCurrent`), has deleted every job if DRBD is off
(`DisabledPass`), and what it leaves stays until something is queued
(`DisabledRest`).

For `RecordedIsInstalled`, a number has to stand for a set.  The completed jobs of
all nodes are a set of pairs (`Total` is its cardinality).  While no node has had
two jobs, and none is on a node that needs no installation (`JobsTell`), they are
among the pairs of a node that needs one and 1; if there are as many, they are all
of these (`AllCounted`).  From then on the number is carried by the handler, the
status and the worker's copy of it (`NumbersTell`), each of which may be older
than the others, but nodes do not become uninstalled.  Both conditions of the
property are needed at the counting: two jobs of one node are taken for one of
each, and a process that has restarted no longer needs the masters, whose jobs
are still counted.

### MaintainersProofs

From `MaintainersAssumption` and `ShapesAssumption` (a chain is a sequence of
shapes), for chains of any length and any shapes, also such as no component has:

* `TypeCorrect`: `Spec => []TypeOK`.
* `RestIsSettled`: `Spec => []RestMeansSettled`.

The argument is in terms of passes that nothing will follow, that is, while the
Cluster is not queued.  Such a pass has the Cluster of the API server
(`PassCurrent`), and every component it is through with (`Done`) either is
settled or has an event on the way that will queue the Cluster (`DoneSettled`);
at the end of the pass that holds of all components, and for the status it has
written (`RestSettled`).  A maintainer looks at its cache: it may, because a
workload whose cache is behind has an event on the way (`CachesCurrent`), and
that needs that what the operator did not find there has an owner
(`OwnedOrAbsent`).  `ToldOf` is the lemma for all steps of others,
`CallKeepsRest` the one for all calls of a pass.

### AdmissionCertProofs

From `CertAssumption`, for all lifetimes, margins, fallbacks and numbers of
attempts, as long as margin and fallback together are below the lifetime:

* `NeverExpires`: `Spec => []RenewedInTime`.
* `PodsServed`: `Spec => []ServedInTime`.
* `OneCheck`: `Spec => []OneCheckPending`.
* `TypeCorrect`: `Spec => []TypeOK`.

The argument.  Time passes only if no timer is due, so that a certificate whose
check comes before it expires (`CheckInTime`) survives each unit of time, if
there is a check (`CheckPending`).  The time of a check is computed from the
cache: it is early enough because the cache shows an older certificate than the
API server, never a newer one (`CertificatesInOrder`), and because a certificate
that the cache does not show at all is new (`UnseenIsNew`).  These are `IInv`.
The pods have the certificate of the Secret, or an update that will delete them
is under way (`PodsFollow`).  That the check is in exactly one place
(`OnePlace`) is an invariant of its own; it also bounds the channel.

### StorageClassesProofs

From `StorageAssumption`, for all nodes, pool classes, sections and bounds:

* `TypeCorrect`: `Spec => []TypeOK`.
* `ClassesAreBacked`: `Spec => []ClassesHadPools`.
* `VariantsAreBacked`: `Spec => []VariantsHadJobs`.

The argument.  What the API server, the caches and the goroutines hold of pools
and jobs is known to the history, which only grows (`HistoryGrows`); so are the
names worked out of a listing and a number of jobs that are both old by now.

### SharedObjectsProofs

From `SharedAssumption`, for all accounts, values, Clusters, settings and bounds:

* `TypeCorrect`: `Spec => []TypeOK`.
* `AccountFirst`: `Spec => []AccountBeforePods`.
* `RulesStay`: `Spec => RulesKept`.
* `EntriesStay`: `Spec => EntriesKept`.
* `OneWriteIsEnough`: `Spec => WritesAreFinal`.

The argument.  What the caches of role, accounts and binding hold exists, since
nobody takes these away (`CachesBehind`), and each place of a pass knows what the
calls before it have left (`PassHasEnsured`).  `RulesKept` needs only that a
cache that is not stale holds the role (`RoleInv`): the write is refused
otherwise.  For the same reason the DaemonSet that a write replaces is the one
the write was made of, so that `EntriesKept` and `WritesAreFinal` come down to
what the two functions on lists compute (`MemberWritten`).

### MemberEnvProofs

What `MergeMemberEnv` and `SetMigrationCheck` compute, for lists of every length:

* `MergeKeepsAndPlaces`: of the configured names the result has the wanted
  entries, in their order and with their duplicates; of the other names it has
  what the current list has.
* `MergeIsFinal`: a list that has the wanted entries in their order is not
  changed, wherever other entries stand between them.  With the theorem before,
  a second merge changes nothing.
* `FlagIsSet`: the other arguments stay, the flag is there once, and to set it
  again changes nothing.

Both functions recurse over a list.  The induction theorems of the library take
the formula as an operator, which no prover here can instantiate; `Induction`
states the principle for a set of numbers instead (one that has 0 and, with
every number, the next has them all), and each proof names the set.
`MergedSoFar` is the invariant of the code's loop: after n current entries
exactly the first `next` wanted ones are placed, and the others' entries of the
first n.

### Only model-checked

Liveness under fairness, which the prover has no backend for: `Installed`,
`Recorded`, `DeletedJobRetried`, `CopiesConverge`, `Regenerated`,
`ClassesCreated` and `Settled`.  Every safety property that a passing run checks
is a theorem.

## 5. Plan

The models planned at the outset are there, the environment of the member
container as a part of `SharedObjects`.  What may come next:

1. The two workloads each of local-disk-manager and local-storage with the one
   health the controller makes of them.
2. Clusters in a target namespace other than `hwameistor`: jobs are counted in
   `hwameistor` (`controllers/cluster_controller.go:688`), so that completion is
   never recorded.  `InHwameistor` of `DrbdInstall` is the constant for it.
3. Safety lemmas that the liveness properties rest on, such as that a
   completion that is not recorded has an event or a handler under way, so that
   only the argument from fairness is left to TLC.

## 6. Not modelled

Kubernetes client configuration, Helm chart, manifests, generated deep copies,
vendored code: no state machine of their own, or not the operator's.
Formatting, logging, container images and resources are data that no property
is about.  The `Fulfill...Spec` functions fill in constants; where their absence
matters (the stored Cluster of the drbd adapter, the job handlers and the storage
class watchers) `DrbdInstall` and `StorageClasses` keep it.  Leader election is off by
default, and the operator's pod is recreated rather than rolled, so that there
is one process at a time.
