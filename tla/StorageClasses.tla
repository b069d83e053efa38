--------------------------- MODULE StorageClasses ---------------------------
(***************************************************************************)
(* The storage class watchers (pkg/install/storageclass): from the phase   *)
(* CreatedLDC on, one informer of LocalStorageNodes and one of             *)
(* LocalDiskNodes run for the rest of the process.  Each event of one of   *)
(* them makes its goroutine read the Cluster and create a storage class    *)
(* for every pool class of any node; nothing is ever deleted or updated.   *)
(*                                                                         *)
(* An event only says that some node has changed.  The nodes themselves    *)
(* are listed by the manager's client, that is, from another informer's    *)
(* cache, which follows the API server at its own pace.                    *)
(*                                                                         *)
(* Simplifications.                                                        *)
(*  - Both kinds of nodes exist when the watchers start: the phases before *)
(*    wait for the components that create them.                            *)
(*  - A storage class is its name: kind, pool class and variant.  Its      *)
(*    parameters are never compared.                                       *)
(*  - The phases are one flag, installed: the phase is CreatedLDC.  The    *)
(*    pass that starts the watchers is one action (ClusterReconcile has    *)
(*    its steps).                                                          *)
(***************************************************************************)
EXTENDS Naturals, FiniteSets

CONSTANTS
    Node,       \* the nodes
    PoolClass,  \* the classes of pools (HDD, SSD, NVMe)
    Sections,   \* the storageClass sections a user may write
    MaxJobs,    \* bound: drbd-adapter jobs recorded
    MaxFaults,  \* bound: failed calls and crashes
    MaxChanges  \* bound: changes of pools, of the Cluster and of classes

Kind == {"storage", "disk"}

Section == [present: BOOLEAN, disable: BOOLEAN]

ASSUME StorageAssumption ==
    /\ Sections \subseteq Section
    /\ MaxJobs \in Nat /\ MaxJobs >= 2
    /\ MaxFaults \in Nat
    /\ MaxChanges \in Nat

VARIABLES
    cluster,   \* the Cluster in the API server
    pools,     \* Status.Pools of every node of each kind
    cache,     \* the same in the manager's cache
    synced,    \* the kinds the manager's cache has an informer of
    watching,  \* have the watchers been started in this process?
    events,    \* nodes with an event the watcher of the kind has not taken
    watcher,   \* the locals of each watcher's goroutine
    classes,   \* the storage classes in the API server
    pooled,    \* history: pool classes of each kind that some node has had
    recorded,  \* history: the most drbd jobs the Cluster has shown
    faults,    \* faults so far
    changes    \* changes so far

vars == <<cluster, pools, cache, synced, watching, events, watcher, classes,
          pooled, recorded, faults, changes>>

-----------------------------------------------------------------------------
(* Data *)

ClassName == [kind: {"storage"}, pool: PoolClass,
              variant: {"plain", "convertible", "ha"}]
             \cup [kind: {"disk"}, pool: PoolClass, variant: {"plain"}]

\* Mutant: one job is enough for volumes with two replicas.
JobsNeededForOne(variant) == IF variant = "plain" THEN 0 ELSE 1

\* The drbd jobs that must have completed before a variant is created.
JobsNeeded(variant) == CASE variant = "plain" -> 0
                         [] variant = "convertible" -> 1
                         [] variant = "ha" -> 2

\* Mutant: the pool classes are those of the CRD, whatever the nodes have.
NamesForAnyPool(kind, listing, jobNum) ==
    {name \in ClassName : /\ name.kind = kind
                          /\ JobsNeeded(name.variant) <= jobNum}

\* Mutant: the variants for drbd are made of disk classes, too.
NamesOfEveryVariant(kind, listing, jobNum) ==
    [kind: {kind}, pool: UNION {listing[n] : n \in Node},
     variant: {v \in {"plain", "convertible", "ha"} : JobsNeeded(v) <= jobNum}]

\* The names the nodes' pools and the number of jobs call for.
NamesToCreate(kind, listing, jobNum) ==
    {name \in ClassName : /\ name.kind = kind
                          /\ \E n \in Node : name.pool \in listing[n]
                          /\ JobsNeeded(name.variant) <= jobNum}

IdleWatcher == [listing |-> FALSE, section |-> FALSE, jobNum |-> 0,
                left |-> {}]

IsIdle(kind) == ~watcher[kind].listing /\ watcher[kind].left = {}

Init ==
    /\ \E section \in Sections :
        cluster = [exists |-> TRUE, section |-> section, installed |-> FALSE,
                   jobNum |-> 0]
    /\ pools = [k \in Kind |-> [n \in Node |-> {}]]
    /\ cache = pools
    /\ synced = {}
    /\ watching = FALSE
    /\ events = [k \in Kind |-> {}]
    /\ watcher = [k \in Kind |-> IdleWatcher]
    /\ classes = {}
    /\ pooled = [k \in Kind |-> {}]
    /\ recorded = 0
    /\ faults = 0
    /\ changes = 0

Fault == faults < MaxFaults /\ faults' = faults + 1

Change == changes < MaxChanges /\ changes' = changes + 1

Objects == <<cluster, pools, classes, pooled, recorded>>

\* A new process has no informers of the nodes.
Restart ==
    /\ synced' = {}
    /\ watching' = FALSE
    /\ events' = [k \in Kind |-> {}]
    /\ watcher' = [k \in Kind |-> IdleWatcher]
    /\ UNCHANGED <<Objects, cache, changes>>

-----------------------------------------------------------------------------
(* The watchers *)

\* A pass in the last phase starts both, unless they run or storage classes
\* are off; a section that is not there is filled in, and on.  An informer
\* begins with an event of every object.
StartWatchers ==
    /\ cluster.exists /\ cluster.installed
    /\ ~(cluster.section.present /\ cluster.section.disable)
    /\ ~watching
    /\ watching' = TRUE
    /\ events' = [k \in Kind |-> Node]
    /\ UNCHANGED <<Objects, cache, synced, watcher, faults, changes>>

\* AddFunc and UpdateFunc: the goroutine takes an event and reads the Cluster
\* the watcher was started for, as stored.  If there is none, or the call
\* fails, the event is gone.
TakeEvent(k) ==
    /\ watching /\ IsIdle(k)
    /\ \E n \in events[k] : events' = [events EXCEPT ![k] = @ \ {n}]
    /\ \/ /\ cluster.exists
          /\ watcher' = [watcher EXCEPT
                           ![k] = [listing |-> TRUE,
                                   section |-> cluster.section.present,
                                   jobNum |-> cluster.jobNum,
                                   left |-> {}]]
          /\ UNCHANGED faults
       \/ /\ ~cluster.exists
          /\ UNCHANGED <<watcher, faults>>
       \/ /\ Fault
          /\ UNCHANGED watcher
    /\ UNCHANGED <<Objects, cache, synced, watching, changes>>

\* What a List by the manager's client shows: its cache, which the first List
\* of the process fills.
Listed(k) == IF k \in synced THEN cache[k] ELSE pools[k]

\* Ensure writes the section's fields into the template in any case; the disk
\* watcher looks at them when it has a class to create.
NeedsSection(k, names) == k = "storage" \/ names # {}

\* The nodes are listed (and, to no purpose, the storage classes), and the
\* names worked out.  A List that fails ends the answer to the event.
ListNodes(k) ==
    /\ watcher[k].listing
    /\ LET names == NamesToCreate(k, Listed(k), watcher[k].jobNum)
       IN \/ /\ watcher[k].section \/ ~NeedsSection(k, names)
             /\ watcher' = [watcher EXCEPT
                              ![k] = [IdleWatcher EXCEPT !.left = names]]
             /\ synced' = synced \cup {k}
             /\ cache' = [cache EXCEPT ![k] = Listed(k)]
             /\ UNCHANGED faults
          \/ /\ Fault
             /\ watcher' = [watcher EXCEPT ![k] = IdleWatcher]
             /\ UNCHANGED <<synced, cache>>
    /\ UNCHANGED <<Objects, watching, events, changes>>

\* The stored Cluster has no storageClass section: the nil pointer takes the
\* process down, in an informer's goroutine.
PanicOnNoSection(k) ==
    /\ watcher[k].listing
    /\ ~watcher[k].section
    /\ NeedsSection(k, NamesToCreate(k, Listed(k), watcher[k].jobNum))
    /\ Restart
    /\ UNCHANGED faults

\* Mutant: the first class that exists already ends the loop.
CreateUntilExisting(k) ==
    /\ ~watcher[k].listing
    /\ \E name \in watcher[k].left :
        /\ watcher' = [watcher EXCEPT
                         ![k].left = IF name \in classes THEN {}
                                                         ELSE @ \ {name}]
        /\ classes' = classes \cup {name}
    /\ UNCHANGED <<cluster, pools, pooled, recorded, cache, synced, watching,
                   events, faults, changes>>

\* One iteration of the loop over the generated classes, in the order of a Go
\* map.  A creation that fails, before or after it took effect, or because
\* the class exists, is passed over.
CreateStorageClass(k) ==
    /\ ~watcher[k].listing
    /\ \E name \in watcher[k].left :
        /\ watcher' = [watcher EXCEPT ![k].left = @ \ {name}]
        /\ \/ /\ classes' = classes \cup {name}
              /\ UNCHANGED faults
           \/ /\ Fault
              /\ UNCHANGED classes
    /\ UNCHANGED <<cluster, pools, pooled, recorded, cache, synced, watching,
                   events, changes>>

Watcher(k) ==
    TakeEvent(k) \/ ListNodes(k) \/ PanicOnNoSection(k) \/ CreateStorageClass(k)

Crash == Fault /\ Restart

-----------------------------------------------------------------------------
(* What surrounds the watchers *)

Process == <<synced, watching, watcher>>

ObserveNode(k, n) ==
    /\ k \in synced
    /\ cache[k][n] # pools[k][n]
    /\ cache' = [cache EXCEPT ![k][n] = pools[k][n]]
    /\ UNCHANGED <<Objects, Process, events, faults, changes>>

\* An update of a node is an event for the watcher of its kind.
NodeEvent(k, n) ==
    events' = IF watching THEN [events EXCEPT ![k] = @ \cup {n}] ELSE events

\* Disks join or leave the pools of a node.
ChangePools(k, n) ==
    /\ Change
    /\ \E set \in SUBSET PoolClass \ {pools[k][n]} :
        /\ pools' = [pools EXCEPT ![k][n] = set]
        /\ pooled' = [pooled EXCEPT ![k] = @ \cup set]
    /\ NodeEvent(k, n)
    /\ UNCHANGED <<cluster, classes, recorded, Process, cache, faults>>

\* The status of a node is written and its pools stay as they are.
RefreshNode(k, n) ==
    /\ watching
    /\ n \notin events[k]
    /\ NodeEvent(k, n)
    /\ UNCHANGED <<Objects, Process, cache, faults, changes>>

\* The installation reaches its last phase.
FinishInstallation ==
    /\ cluster.exists /\ ~cluster.installed
    /\ cluster' = [cluster EXCEPT !.installed = TRUE]
    /\ UNCHANGED <<pools, classes, pooled, recorded, Process, cache, events,
                   faults, changes>>

\* The job handler records completed jobs, or a pass finds drbd disabled.
RecordJobs ==
    /\ cluster.exists
    /\ Change
    /\ \E num \in 0..MaxJobs \ {cluster.jobNum} :
        /\ cluster' = [cluster EXCEPT !.jobNum = num]
        /\ recorded' = IF num > recorded THEN num ELSE recorded
    /\ UNCHANGED <<pools, classes, pooled, Process, cache, events, faults>>

\* The user edits the section, or deletes the Cluster and creates it again
\* under its name.
EditCluster ==
    /\ Change
    /\ \/ /\ cluster.exists
          /\ \E section \in Sections \ {cluster.section} :
              cluster' = [cluster EXCEPT !.section = section]
       \/ /\ cluster.exists
          /\ cluster' = [cluster EXCEPT !.exists = FALSE]
       \/ /\ ~cluster.exists
          /\ \E section \in Sections :
              cluster' = [exists |-> TRUE, section |-> section,
                          installed |-> FALSE, jobNum |-> 0]
    /\ UNCHANGED <<pools, classes, pooled, recorded, Process, cache, events,
                   faults>>

\* The user deletes a storage class, which nobody watches.
DeleteStorageClass ==
    /\ Change
    /\ \E name \in classes : classes' = classes \ {name}
    /\ UNCHANGED <<cluster, pools, pooled, recorded, Process, cache, events,
                   faults>>

-----------------------------------------------------------------------------
(* Specification *)

Next ==
    \/ StartWatchers
    \/ \E k \in Kind : Watcher(k)
    \/ Crash
    \/ \E k \in Kind, n \in Node : \/ ObserveNode(k, n)
                                   \/ ChangePools(k, n)
                                   \/ RefreshNode(k, n)
    \/ FinishInstallation
    \/ RecordJobs
    \/ EditCluster
    \/ DeleteStorageClass

Spec == Init /\ [][Next]_vars

\* Passes recur and the installation ends (ClusterReconcile), the watchers'
\* goroutines run and the manager's informers follow.  Nothing is assumed of
\* the nodes: informers made with a resync period of 0 do not repeat events.
FairSpec ==
    /\ Spec
    /\ WF_vars(StartWatchers)
    /\ WF_vars(FinishInstallation)
    /\ \A k \in Kind : WF_vars(Watcher(k))
    /\ \A k \in Kind, n \in Node : WF_vars(ObserveNode(k, n))

\* The same with nodes that write their status again and again.
RefreshedSpec ==
    /\ FairSpec
    /\ \A k \in Kind, n \in Node : WF_vars(RefreshNode(k, n))

-----------------------------------------------------------------------------
(* Properties *)

Pools == [Kind -> [Node -> SUBSET PoolClass]]

\* The types of the variables.
TypeOK ==
    /\ cluster \in [exists: BOOLEAN, section: Section, installed: BOOLEAN,
                    jobNum: 0..MaxJobs]
    /\ pools \in Pools
    /\ cache \in Pools
    /\ synced \in SUBSET Kind
    /\ watching \in BOOLEAN
    /\ events \in [Kind -> SUBSET Node]
    /\ watcher \in [Kind -> [listing: BOOLEAN, section: BOOLEAN,
                             jobNum: 0..MaxJobs, left: SUBSET ClassName]]
    /\ classes \in SUBSET ClassName
    /\ pooled \in [Kind -> SUBSET PoolClass]
    /\ recorded \in 0..MaxJobs
    /\ faults \in 0..MaxFaults
    /\ changes \in 0..MaxChanges

\* "If there is no capacity available, the operator will not create a storage
\* class automatically" (README.md:44): whatever the order of events, lists
\* and restarts, a storage class exists only for a class that some node has
\* had a pool of.
ClassesHadPools ==
    \A name \in classes : name.pool \in pooled[name.kind]

\* A convertible storage class exists only if the Cluster has shown a
\* completed drbd job, and one with two replicas only if it has shown two,
\* although the watcher works with a Cluster it read earlier.
VariantsHadJobs ==
    \A name \in classes :
        /\ name.variant = "convertible" => recorded >= 1
        /\ name.variant = "ha" => recorded >= 2

\* The storage class is called for, and nothing holds it up.
Wanted(name) ==
    /\ cluster.exists /\ cluster.installed
    /\ cluster.section.present /\ ~cluster.section.disable
    /\ \E n \in Node : name.pool \in pools[name.kind][n]
    /\ JobsNeeded(name.variant) <= cluster.jobNum

\* As long as the nodes go on writing their status, every storage class that
\* is called for comes to exist and stays: dropped events, failed creations,
\* listings older than their event, crashes and classes that exist already
\* only delay it.
ClassesCreated ==
    \A name \in ClassName : <>[]Wanted(name) => <>[](name \in classes)

\* "Once there are disks in the pool of the local storage node, the operator
\* will automatically create a storage class" (README.md:43).
PoolGetsClass ==
    \A name \in {c \in ClassName : c.kind = "storage" /\ c.variant = "plain"} :
        Wanted(name) ~> (name \in classes \/ ~Wanted(name))

=============================================================================
