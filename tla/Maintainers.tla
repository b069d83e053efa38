---------------------------- MODULE Maintainers ----------------------------
(***************************************************************************)
(* The maintainers of the components (pkg/install/<component>): Ensure     *)
(* brings a Deployment or DaemonSet to what the Cluster's spec says, and   *)
(* Uninstall takes it away when the component is disabled.  Reconcile      *)
(* calls them in a chain, and the first error ends the pass.               *)
(*                                                                         *)
(* The maintainers are variations of one scheme.  What varies is a shape,  *)
(* a record per component below; the actions are the scheme, and ask the   *)
(* shape.                                                                  *)
(*                                                                         *)
(* Workloads, Services and ConfigMaps are read from informer caches and    *)
(* written to the API server; what comes between is the user, the garbage  *)
(* collector and the controllers of the workloads.  An Ensure is one step: *)
(* it writes at most once, and that the cache may catch up between its     *)
(* reading and its write is as if it had read the old cache.               *)
(*                                                                         *)
(* Simplifications.  The target namespace does not change.  The controller *)
(* computes one health of local-disk-manager and of local-storage from two *)
(* workloads each; here every workload has its own.  A mutation of the     *)
(* pods' template that no shape compares (resources, volumes) is no field. *)
(***************************************************************************)
EXTENDS Naturals, Sequences, FiniteSets

LOCAL INSTANCE FiniteSetsExt

CONSTANTS
    Version,         \* what a spec may ask of the fields of a workload
    Chains,          \* the sequences of shapes to consider
    MaxClusters,     \* bound: Clusters created one after the other
    MaxFaults,       \* bound: failed calls and crashes
    MaxDisturbances  \* bound: what the user and the nodes do, by chain

ASSUME MaintainersAssumption ==
    /\ Version # {} /\ {"none", "drifted"} \cap Version = {}
    /\ MaxClusters \in Nat \ {0}
    /\ MaxFaults \in Nat /\ MaxDisturbances \in [Chains -> Nat]

-----------------------------------------------------------------------------
(* The shapes *)

\* The fields of a workload that some maintainer compares with the spec.
Field == {"image", "replicas", "snapshotter"}

Shape == [
    \* Set... copies the template, or changes it in its package variable?
    template: {"copied", "kept"},
    \* Uninstall asks for an owner of the Cluster's name, or does not ask;
    \* never called; or part of Ensure.
    removal: {"ifOwned", "always", "never", "inEnsure"},
    companion: {"none", "service", "configMap"},
    compared: SUBSET Field,      \* the fields needOrNotToUpdate... compares
    assigned: SUBSET Field,      \* those it sets
    checksPods: BOOLEAN,         \* are more pods than replicas an error?
    reports: BOOLEAN,            \* does Ensure fill in the ComponentStatus?
    errorsReturned: BOOLEAN]     \* does Reconcile look at Uninstall's error?

Auditor == [
    template |-> "copied", removal |-> "ifOwned", companion |-> "none",
    compared |-> {"image", "replicas"}, assigned |-> {"image", "replicas"},
    checksPods |-> TRUE, reports |-> TRUE, errorsReturned |-> TRUE]

FailoverAssistant == Auditor

PVCAutoResizer == Auditor

\* The replicas are fixed in the template and not compared.
LocalDiskActionController ==
    [Auditor EXCEPT !.compared = {"image"}, !.assigned = {"image"}]

LocalDiskManager ==
    [LocalDiskActionController EXCEPT !.removal = "never",
                                      !.checksPods = FALSE]

LDMCSIController == [Auditor EXCEPT !.removal = "never"]

LocalStorage == [LocalDiskActionController EXCEPT !.checksPods = FALSE]

\* The snapshotter's image is compared and not assigned.
LSCSIController ==
    [Auditor EXCEPT !.compared = @ \cup {"snapshotter"},
                    !.errorsReturned = FALSE]

DataLoadManager == LocalStorage

DataSetManager == [LocalStorage EXCEPT !.reports = FALSE]

AdmissionController == [Auditor EXCEPT !.companion = "service"]

ApiServer == [Auditor EXCEPT !.companion = "service"]

Exporter == [ApiServer EXCEPT !.template = "kept"]

UI == [Exporter EXCEPT !.removal = "always", !.checksPods = FALSE,
                       !.reports = FALSE]

Scheduler == [Auditor EXCEPT !.template = "kept", !.companion = "configMap"]

Evictor == [Auditor EXCEPT !.template = "kept", !.removal = "inEnsure"]

ASSUME ShapesAssumption == Chains \subseteq Seq(Shape)

-----------------------------------------------------------------------------

VARIABLES
    chain,        \* the shapes of this behaviour, constant
    foreign,      \* constant: the workloads the user installed himself
    cluster,      \* the Cluster in the API server
    live, seen,   \* the workloads: in the API server, in the cache
    companion, companionSeen,  \* the same of Services and ConfigMaps
    unseen,       \* components with events of owned workloads on the way
    lingering,    \* components with more labelled pods than replicas
    template,     \* owners collected in the package variables
    queued,       \* is the Cluster in the workqueue?
    pass,         \* where the worker is, and its locals
    faults, disturbances

vars == <<chain, foreign, cluster, live, seen, companion, companionSeen,
          unseen, lingering, template, queued, pass, faults, disturbances>>

setting == <<chain, foreign>>

workload == <<live, lingering, unseen>>

objects == <<workload, companion>>

caches == <<seen, companionSeen>>

Component == DOMAIN chain

Health == {"none", "Normal", "Abnormal"}

UID == 1..MaxClusters

NoHealth == [c \in Component |-> "none"]

\* The Clusters a user may create, one at a time and all of one name.
Specs(uid) ==
    [exists: {TRUE}, uid: {uid}, version: Version,
     disabled: SUBSET {c \in Component : chain[c].removal # "never"},
     health: {NoHealth}]

NoWorkload == [owners |-> {}, fields |-> [f \in Field |-> "none"],
               ready |-> FALSE]

\* The workload a template becomes.
WorkloadFor(owners, version) ==
    [owners |-> owners, fields |-> [f \in Field |-> version], ready |-> FALSE]

\* What the locals hold between two passes does not matter.
Idle == [at |-> 0, step |-> 1, health |-> NoHealth,
         cluster |-> [exists |-> FALSE, uid |-> 0, version |-> "none",
                      disabled |-> {}, health |-> NoHealth]]

\* A workload may be there that the user has installed without an owner.
Init ==
    /\ chain \in Chains
    /\ cluster \in Specs(1)
    /\ foreign \in SUBSET Component
    /\ \E version \in Version :
          live = [c \in Component |->
                    IF c \in foreign THEN WorkloadFor({}, version)
                                     ELSE NoWorkload]
    /\ seen = live
    /\ companion = [c \in Component |-> "none"]
    /\ companionSeen = companion
    /\ unseen = {} /\ lingering = {}
    /\ template = [c \in Component |-> {}]
    /\ queued = TRUE
    /\ pass = Idle
    /\ faults = 0 /\ disturbances = 0

-----------------------------------------------------------------------------
(* A pass *)

\* A workload changes: an event is on the way if it is or was owned.
Changed(c, w) ==
    /\ live' = [live EXCEPT ![c] = w]
    /\ unseen' = IF w # live[c] /\ w.owners \cup live[c].owners # {}
                 THEN unseen \cup {c} ELSE unseen

\* A workload goes; its pods take a while.
Gone(c) ==
    /\ Changed(c, NoWorkload)
    /\ lingering' = IF chain[c].checksPods THEN lingering \cup {c}
                                           ELSE lingering

Fault == faults < MaxFaults /\ faults' = faults + 1

\* What Reconcile calls for a component, in order.  That the ConfigMap is
\* ensured before the Deployment and removed after it, and the Service after
\* the Deployment both times, is the order of the code.
Calls(shape, disabled) ==
    IF ~disabled
    THEN CASE shape.companion = "none"      -> <<"ensure">>
           [] shape.companion = "service"   -> <<"ensure", "ensureService">>
           [] shape.companion = "configMap" -> <<"ensureConfigMap", "ensure">>
    ELSE CASE shape.removal = "inEnsure"    -> <<"remove", "ensure">>
           [] shape.companion = "none"      -> <<"remove">>
           [] OTHER                         -> <<"remove", "removeCompanion">>

CallsFor(c) == Calls(chain[c], c \in pass.cluster.disabled)

At(c, call) == pass.at = c /\ CallsFor(c)[pass.step] = call

\* Mutant: a component is left out.
SkipComponent == [pass EXCEPT !.at = @ + 2, !.step = 1]

\* The pass goes on to the next component, or to the next call.
NextComponent == [pass EXCEPT !.at = @ + 1, !.step = 1]

NextCall == IF pass.step < Len(CallsFor(pass.at))
            THEN [pass EXCEPT !.step = @ + 1]
            ELSE NextComponent

ReturnError == pass' = Idle /\ queued' = TRUE

\* The Cluster is read from the API server, and filled in.
StartReconcile ==
    /\ pass.at = 0 /\ queued
    /\ queued' = FALSE
    /\ pass' = IF cluster.exists
               THEN [at |-> 1, step |-> 1, cluster |-> cluster,
                     health |-> cluster.health]
               ELSE pass
    /\ UNCHANGED <<setting, cluster, objects, caches, template, faults,
                   disturbances>>

\* Mutant: no template is copied.
KeptByAll(c) == TRUE

\* Does Set... change the template in its package variable?
Kept(c) == chain[c].template = "kept"

\* The Cluster becomes an owner, in addition to those of earlier calls.
Owners(c) == IF Kept(c) THEN template[c] \cup {pass.cluster.uid}
                        ELSE {pass.cluster.uid}

SetTemplate(c) ==
    template' = IF Kept(c) THEN [template EXCEPT ![c] = Owners(c)]
                           ELSE template

\* The API server refuses a name that is taken, and two controllers of one
\* object.
CreateWorkload(c) ==
    /\ At(c, "ensure") /\ seen[c] = NoWorkload
    /\ SetTemplate(c)
    /\ LET accepted == live[c] = NoWorkload /\ Cardinality(Owners(c)) = 1
           created  == WorkloadFor(Owners(c), pass.cluster.version)
       IN \/ /\ accepted
             /\ Changed(c, created)
             /\ pass' = NextCall
             /\ UNCHANGED <<queued, faults>>
          \/ /\ ~accepted
             /\ ReturnError
             /\ UNCHANGED <<live, unseen, faults>>
          \/ /\ accepted
             /\ Fault
             /\ ReturnError
             /\ Changed(c, created) \/ UNCHANGED <<live, unseen>>
    /\ UNCHANGED <<setting, cluster, companion, lingering, caches,
                   disturbances>>

\* needOrNotToUpdate...
Differs(c) ==
    \E f \in chain[c].compared : seen[c].fields[f] # pass.cluster.version

Updated(c) ==
    LET fields == [f \in Field |-> IF f \in chain[c].assigned
                                   THEN pass.cluster.version
                                   ELSE live[c].fields[f]]
    IN [live[c] EXCEPT !.fields = fields,
                       !.ready = @ /\ fields = live[c].fields]

\* The end of Ensure: the pods are counted, and the status found before the
\* update is reported.
Report(c) ==
    IF chain[c].checksPods /\ c \in lingering
    THEN ReturnError
    ELSE /\ pass' = IF chain[c].reports
                    THEN [NextCall EXCEPT !.health[c] =
                            IF seen[c].ready THEN "Normal" ELSE "Abnormal"]
                    ELSE NextCall
         /\ UNCHANGED queued

UpdateWorkload(c) ==
    /\ At(c, "ensure") /\ seen[c] # NoWorkload /\ Differs(c)
    /\ SetTemplate(c)
    /\ \/ /\ live[c] = seen[c]
          /\ Changed(c, Updated(c))
          /\ Report(c)
          /\ UNCHANGED faults
       \/ /\ live[c] # seen[c]
          /\ ReturnError
          /\ UNCHANGED <<live, unseen, faults>>
       \/ /\ live[c] = seen[c]
          /\ Fault
          /\ ReturnError
          /\ Changed(c, Updated(c)) \/ UNCHANGED <<live, unseen>>
    /\ UNCHANGED <<setting, cluster, companion, lingering, caches,
                   disturbances>>

KeepWorkload(c) ==
    /\ At(c, "ensure") /\ seen[c] # NoWorkload /\ ~Differs(c)
    /\ SetTemplate(c)
    /\ Report(c)
    /\ UNCHANGED <<setting, cluster, objects, caches, faults, disturbances>>

UninstallFails(c) ==
    IF chain[c].errorsReturned
    THEN ReturnError
    ELSE pass' = NextCall /\ UNCHANGED queued

\* An owner is recognized by its name, which all Clusters share.
MayRemove(c) ==
    chain[c].removal = "ifOwned" => seen[c].owners # {}

\* Uninstall, or the first part of the evictor's Ensure.  If there is nothing
\* to remove the Services are removed all the same; the scheduler's ConfigMap
\* is not, and the evictor is not ensured.
RemoveWorkload(c) ==
    /\ At(c, "remove")
    /\ \/ /\ seen[c] = NoWorkload \/ ~MayRemove(c)
          /\ pass' = IF chain[c].companion = "service" THEN NextCall
                                                       ELSE NextComponent
          /\ UNCHANGED <<workload, queued, faults>>
       \/ /\ seen[c] # NoWorkload /\ MayRemove(c)
          /\ \/ /\ live[c] # NoWorkload
                /\ Gone(c)
                /\ pass' = NextCall
                /\ UNCHANGED <<queued, faults>>
             \/ /\ live[c] = NoWorkload
                /\ UninstallFails(c)
                /\ UNCHANGED <<workload, faults>>
             \/ /\ Fault
                /\ UninstallFails(c)
                /\ Gone(c) \/ UNCHANGED workload
    /\ IF chain[c].removal = "inEnsure" THEN SetTemplate(c)
                                        ELSE UNCHANGED template
    /\ UNCHANGED <<setting, cluster, companion, caches, disturbances>>

\* A Service or ConfigMap is written; the call may fail, before or after it.
WriteCompanion(c, accepted, written) ==
    \/ /\ accepted
       /\ companion' = [companion EXCEPT ![c] = written]
       /\ pass' = NextCall
       /\ UNCHANGED <<queued, faults>>
    \/ /\ ~accepted
       /\ ReturnError
       /\ UNCHANGED <<companion, faults>>
    \/ /\ accepted
       /\ Fault
       /\ ReturnError
       /\ companion' \in {companion, [companion EXCEPT ![c] = written]}

KeepCompanion ==
    /\ pass' = NextCall
    /\ UNCHANGED <<companion, queued, faults>>

\* A Service is created and then left alone.
EnsureService(c) ==
    /\ At(c, "ensureService")
    /\ IF companionSeen[c] = "none"
       THEN WriteCompanion(c, companion[c] = "none", "wanted")
       ELSE KeepCompanion
    /\ UNCHANGED <<setting, cluster, workload, caches, template, disturbances>>

\* The ConfigMap's data are kept as well; the update has no resourceVersion.
EnsureConfigMap(c) ==
    /\ At(c, "ensureConfigMap")
    /\ CASE companionSeen[c] = "none" ->
                WriteCompanion(c, companion[c] = "none", "wanted")
         [] companionSeen[c] = "changed" ->
                WriteCompanion(c, companion[c] # "none", "wanted")
         [] companionSeen[c] = "wanted" -> KeepCompanion
    /\ UNCHANGED <<setting, cluster, workload, caches, template, disturbances>>

RemoveCompanion(c) ==
    /\ At(c, "removeCompanion")
    /\ IF companionSeen[c] # "none"
       THEN WriteCompanion(c, companion[c] # "none", "none")
       ELSE KeepCompanion
    /\ UNCHANGED <<setting, cluster, workload, caches, template, disturbances>>

\* The status is written if it has changed, over the Cluster that was read.
UpdateFinalStatus ==
    /\ pass.at = Len(chain) + 1
    /\ LET changed == pass.health # pass.cluster.health
           written == [cluster EXCEPT !.health = pass.health]
       IN \/ /\ ~changed
             /\ pass' = Idle
             /\ UNCHANGED <<cluster, queued, faults>>
          \/ /\ changed /\ cluster = pass.cluster
             /\ cluster' = written
             /\ pass' = Idle
             /\ queued' = TRUE
             /\ UNCHANGED faults
          \/ /\ changed /\ cluster # pass.cluster
             /\ ReturnError
             /\ UNCHANGED <<cluster, faults>>
          \/ /\ changed
             /\ Fault
             /\ ReturnError
             /\ \/ UNCHANGED cluster
                \/ cluster = pass.cluster /\ cluster' = written
    /\ UNCHANGED <<setting, objects, caches, template, disturbances>>

\* A new process has filled its caches before its first pass.
Crash ==
    /\ Fault
    /\ pass' = Idle
    /\ queued' = TRUE
    /\ template' = [c \in Component |-> {}]
    /\ seen' = live
    /\ companionSeen' = companion
    /\ unseen' = {}
    /\ UNCHANGED <<setting, cluster, live, lingering, companion, disturbances>>

-----------------------------------------------------------------------------
(* What surrounds the operator *)

Operator == <<template, pass>>

Disturbance ==
    /\ disturbances < MaxDisturbances[chain]
    /\ disturbances' = disturbances + 1
    /\ UNCHANGED <<setting, caches, Operator, faults>>

EditSpec ==
    /\ Disturbance
    /\ cluster.exists
    /\ \E spec \in Specs(cluster.uid) :
          /\ <<spec.version, spec.disabled>>
                # <<cluster.version, cluster.disabled>>
          /\ cluster' = [spec EXCEPT !.health = cluster.health]
    /\ queued' = TRUE
    /\ UNCHANGED objects

DeleteCluster ==
    /\ Disturbance
    /\ cluster.exists
    /\ cluster' = [cluster EXCEPT !.exists = FALSE]
    /\ queued' = TRUE
    /\ UNCHANGED objects

CreateCluster ==
    /\ ~cluster.exists /\ cluster.uid < MaxClusters
    /\ cluster' \in Specs(cluster.uid + 1)
    /\ queued' = TRUE
    /\ UNCHANGED <<setting, objects, caches, Operator, faults, disturbances>>

\* The user or the nodes do something to a component: a field is changed, the
\* pods go down, an object is deleted or changed, an evicted pod remains.
Disturb(c) ==
    /\ Disturbance
    /\ \/ /\ live[c].owners # {}
          /\ \/ \E f \in chain[c].compared :
                    Changed(c, [live[c] EXCEPT !.fields[f] = "drifted"])
             \/ Changed(c, [live[c] EXCEPT !.ready = FALSE])
          /\ UNCHANGED <<lingering, companion>>
       \/ /\ live[c].owners # {}
          /\ Gone(c)
          /\ UNCHANGED companion
       \/ /\ companion[c] = "wanted"
          /\ \E damage \in {"none", "changed"} :
                companion' = [companion EXCEPT ![c] = damage]
          /\ UNCHANGED workload
       \/ /\ live[c] # NoWorkload /\ chain[c].checksPods
          /\ lingering' = lingering \cup {c}
          /\ UNCHANGED <<live, unseen, companion>>
    /\ UNCHANGED <<cluster, queued>>

External == <<setting, cluster, Operator, faults, disturbances>>

\* A workload whose owners are all gone goes as well.
CollectGarbage(c) ==
    /\ live[c].owners # {}
    /\ cluster.exists => cluster.uid \notin live[c].owners
    /\ Gone(c)
    /\ UNCHANGED <<External, companion, caches, queued>>

PodsReady(c) ==
    /\ live[c] # NoWorkload
    /\ Changed(c, [live[c] EXCEPT !.ready = TRUE])
    /\ UNCHANGED <<External, companion, lingering, caches, queued>>

PodsCleaned(c) ==
    /\ lingering' = lingering \ {c}
    /\ UNCHANGED <<External, live, unseen, companion, caches, queued>>

\* Mutant: only objects that are there are looked at.
ObservePresent(c) ==
    /\ seen' = [seen EXCEPT ![c] = live[c]]
    /\ unseen' = unseen \ {c}
    /\ queued' = (queued \/ (c \in unseen /\ live[c] # NoWorkload))
    /\ UNCHANGED <<External, live, lingering, companion, companionSeen>>

\* The informers of Deployments and DaemonSets queue the owner of an object
\* that has changed; Services and ConfigMaps queue nothing.
ObserveWorkload(c) ==
    /\ seen' = [seen EXCEPT ![c] = live[c]]
    /\ unseen' = unseen \ {c}
    /\ queued' = (queued \/ c \in unseen)
    /\ UNCHANGED <<External, live, lingering, companion, companionSeen>>

ObserveCompanion(c) ==
    /\ companionSeen' = [companionSeen EXCEPT ![c] = companion[c]]
    /\ UNCHANGED <<External, objects, seen, queued>>

Resync ==
    /\ queued' = TRUE
    /\ UNCHANGED <<External, objects, caches>>

-----------------------------------------------------------------------------
(* Specification *)

Reconcile ==
    \/ StartReconcile
    \/ \E c \in Component : \/ CreateWorkload(c)
                            \/ UpdateWorkload(c)
                            \/ KeepWorkload(c)
                            \/ RemoveWorkload(c)
                            \/ EnsureService(c)
                            \/ EnsureConfigMap(c)
                            \/ RemoveCompanion(c)
    \/ UpdateFinalStatus

Environment ==
    \/ EditSpec \/ DeleteCluster \/ CreateCluster \/ Resync
    \/ \E c \in Component : \/ Disturb(c)
                            \/ CollectGarbage(c)
                            \/ PodsReady(c)
                            \/ PodsCleaned(c)
                            \/ ObserveWorkload(c)
                            \/ ObserveCompanion(c)

Next == Reconcile \/ Crash \/ Environment

Spec == Init /\ [][Next]_vars

\* The worker runs, informers catch up and are resynced, the cluster's own
\* controllers do their work and evicted pods are cleaned up.  Nothing is
\* assumed of the user.
FairSpec ==
    /\ Spec
    /\ WF_vars(Reconcile)
    /\ WF_vars(Resync)
    /\ \A c \in 1..Max({Len(ch) : ch \in Chains}) :
          c \in Component =>
             /\ WF_vars(CollectGarbage(c))
             /\ WF_vars(PodsReady(c))
             /\ WF_vars(PodsCleaned(c))
             /\ WF_vars(ObserveWorkload(c))
             /\ WF_vars(ObserveCompanion(c))

-----------------------------------------------------------------------------
(* Properties *)

Workload == [owners: SUBSET UID, ready: BOOLEAN,
             fields: [Field -> Version \cup {"none", "drifted"}]]

ClusterType == [exists: BOOLEAN, uid: 0..MaxClusters,
                version: Version \cup {"none"}, disabled: SUBSET Component,
                health: [Component -> Health]]

Companions == [Component -> {"none", "wanted", "changed"}]

\* The types of the variables.
TypeOK ==
    /\ foreign \subseteq Component
    /\ cluster \in ClusterType
    /\ live \in [Component -> Workload]
    /\ seen \in [Component -> Workload]
    /\ companion \in Companions
    /\ companionSeen \in Companions
    /\ lingering \subseteq Component
    /\ unseen \subseteq Component
    /\ template \in [Component -> SUBSET UID]
    /\ queued \in BOOLEAN
    /\ pass \in [at: 0..(Len(chain) + 1), step: 1..2, cluster: ClusterType,
                 health: [Component -> Health]]
    /\ faults \in 0..MaxFaults
    /\ disturbances \in 0..MaxDisturbances[chain]

Disabled(c) == c \in cluster.disabled

\* The workload is what the spec asks for: absent when the component is
\* disabled, unless it is not the operator's; with the fields the maintainer
\* keeps, and its health reported, when it is not.
Settled(c) ==
    IF Disabled(c)
    THEN \/ live[c] = NoWorkload
         \/ chain[c].removal = "ifOwned" /\ live[c].owners = {}
    ELSE /\ live[c] # NoWorkload
         /\ \A f \in chain[c].compared \cap chain[c].assigned :
                live[c].fields[f] = cluster.version
         /\ chain[c].reports =>
                cluster.health[c] = IF live[c].ready THEN "Normal"
                                                     ELSE "Abnormal"

CompanionSettled(c) ==
    chain[c].companion # "none" =>
        IF Disabled(c) THEN companion[c] = "none"
        ELSE \/ companion[c] = "wanted"
             \/ chain[c].companion = "service" /\ companion[c] = "changed"

\* The operator has nothing to do and its caches are current.
AtRest ==
    /\ pass.at = 0 /\ ~queued
    /\ seen = live /\ unseen = {}
    /\ cluster.exists

\* When the operator rests the workloads it owns are settled: no change of an
\* object, error, conflict, stale read or crash on the way is forgotten.
\* (A workload the user has installed wakes nobody, and of one component
\* Reconcile drops the error of the removal.)
RestMeansSettled ==
    AtRest => \A c \in Component \ foreign :
                 chain[c].errorsReturned => Settled(c)

\* From some time on the workloads, Services and ConfigMaps are as the spec
\* says, whatever happened before; without a Cluster no workload it owned is
\* left.
Converged ==
    <>[](\A c \in Component :
            IF cluster.exists THEN Settled(c) /\ CompanionSettled(c)
                              ELSE live[c].owners = {})

\* The components that copy their template converge.
CopiesConverge ==
    (\A c \in Component : chain[c].template = "copied") => Converged

=============================================================================
