------------------------ MODULE StorageClassesProofs ------------------------
(* A storage class has had its pool and its jobs, for every value of the    *)
(* constants.                                                               *)
EXTENDS StorageClasses, TLAPS

-----------------------------------------------------------------------------
(* Type correctness *)

LEMMA Bounds ==
    /\ Sections \subseteq Section
    /\ 0 \in 0..MaxJobs /\ 0 \in 0..MaxFaults /\ 0 \in 0..MaxChanges
  BY StorageAssumption

LEMMA FaultType ==
    ASSUME faults \in 0..MaxFaults, Fault
    PROVE  faults' \in 0..MaxFaults
  BY StorageAssumption DEF Fault

LEMMA ChangeType ==
    ASSUME changes \in 0..MaxChanges, Change
    PROVE  changes' \in 0..MaxChanges
  BY StorageAssumption DEF Change

WatcherType == [listing: BOOLEAN, section: BOOLEAN, jobNum: 0..MaxJobs,
                left: SUBSET ClassName]

LEMMA IdleType == IdleWatcher \in WatcherType
  BY StorageAssumption DEF IdleWatcher, WatcherType

\* The names to create are names of the kind, whatever the listing.
LEMMA NamesType ==
    \A kind, listing, jobNum : NamesToCreate(kind, listing, jobNum) \subseteq ClassName
  BY DEF NamesToCreate

\* What a List shows has the type of the cache.
LEMMA ListedType ==
    ASSUME TypeOK, NEW k \in Kind
    PROVE  Listed(k) \in [Node -> SUBSET PoolClass]
  BY DEF TypeOK, Pools, Listed

LEMMA InitType == Init => TypeOK
  <1> SUFFICES ASSUME Init PROVE TypeOK
    OBVIOUS
  <1>1. PICK section \in Sections :
          cluster = [exists |-> TRUE, section |-> section,
                     installed |-> FALSE, jobNum |-> 0]
    BY DEF Init
  <1>2. section \in Section /\ 0 \in 0..MaxJobs
    BY Bounds
  <1>3. cluster \in [exists: BOOLEAN, section: Section, installed: BOOLEAN,
                     jobNum: 0..MaxJobs]
    BY <1>1, <1>2
  <1>4. pools \in Pools /\ cache \in Pools
    BY DEF Init, Pools
  <1>5. watcher \in [Kind -> WatcherType]
    BY IdleType DEF Init
  <1>6. /\ synced \in SUBSET Kind /\ watching \in BOOLEAN
        /\ events \in [Kind -> SUBSET Node] /\ classes \in SUBSET ClassName
        /\ pooled \in [Kind -> SUBSET PoolClass] /\ recorded \in 0..MaxJobs
        /\ faults \in 0..MaxFaults /\ changes \in 0..MaxChanges
    BY Bounds DEF Init
  <1>7. QED
    BY <1>3, <1>4, <1>5, <1>6 DEF TypeOK, WatcherType

LEMMA RestartType ==
    ASSUME TypeOK, Restart, faults' \in 0..MaxFaults
    PROVE  TypeOK'
  <1>1. /\ synced' = {} /\ watching' = FALSE
        /\ events' = [k \in Kind |-> {}]
        /\ watcher' = [k \in Kind |-> IdleWatcher]
        /\ UNCHANGED <<cluster, pools, classes, pooled, recorded, cache, changes>>
    BY DEF Restart, Objects
  <1>2. watcher' \in [Kind -> WatcherType]
    BY <1>1, IdleType
  <1>3. QED
    BY <1>1, <1>2 DEF TypeOK, WatcherType

\* The steps of the watchers.
LEMMA WatcherStepType ==
    ASSUME TypeOK, NEW k \in Kind, Watcher(k)
    PROVE  TypeOK'
  <1> USE FaultType
  <1>1. watcher[k] \in WatcherType
    BY DEF TypeOK, WatcherType
  <1>2. CASE TakeEvent(k)
    <2>1. PICK n \in events[k] : events' = [events EXCEPT ![k] = @ \ {n}]
      BY <1>2 DEF TakeEvent
    <2>2. events' \in [Kind -> SUBSET Node]
      BY <2>1 DEF TypeOK
    <2>3. [listing |-> TRUE, section |-> cluster.section.present,
           jobNum |-> cluster.jobNum, left |-> {}] \in WatcherType
      BY DEF TypeOK, WatcherType, Section
    <2>4. watcher' \in [Kind -> WatcherType]
      BY <1>2, <2>3 DEF TakeEvent, TypeOK, WatcherType
    <2>5. QED
      BY <1>2, <2>2, <2>4 DEF TakeEvent, Objects, TypeOK, WatcherType
  <1>3. CASE ListNodes(k)
    <2> DEFINE names == NamesToCreate(k, Listed(k), watcher[k].jobNum)
    <2>1. names \subseteq ClassName
      BY NamesType
    <2>2. [IdleWatcher EXCEPT !.left = names] \in WatcherType
      BY <2>1, IdleType DEF WatcherType
    <2>3. [cache EXCEPT ![k] = Listed(k)] \in Pools
      BY ListedType DEF TypeOK, Pools
    <2>4. /\ \/ watcher' = [watcher EXCEPT ![k] = [IdleWatcher EXCEPT !.left = names]]
             \/ watcher' = [watcher EXCEPT ![k] = IdleWatcher]
          /\ synced' = synced \cup {k} \/ synced' = synced
          /\ cache' = [cache EXCEPT ![k] = Listed(k)] \/ cache' = cache
          /\ faults' \in 0..MaxFaults
          /\ UNCHANGED <<cluster, pools, classes, pooled, recorded, watching,
                         events, changes>>
      BY <1>3 DEF ListNodes, Objects, TypeOK
    <2> HIDE DEF names
    <2>5. watcher' \in [Kind -> WatcherType]
      BY <2>2, <2>4, IdleType DEF TypeOK, WatcherType
    <2>6. synced' \in SUBSET Kind /\ cache' \in Pools
      BY <2>3, <2>4 DEF TypeOK
    <2>7. QED
      BY <2>4, <2>5, <2>6 DEF TypeOK, WatcherType
  <1>4. CASE PanicOnNoSection(k)
    BY <1>4, RestartType DEF PanicOnNoSection, TypeOK
  <1>5. CASE CreateStorageClass(k)
    <2>1. PICK name \in watcher[k].left :
            /\ watcher' = [watcher EXCEPT ![k].left = @ \ {name}]
            /\ classes' = classes \cup {name} \/ classes' = classes
      BY <1>5 DEF CreateStorageClass
    <2>2. name \in ClassName
      BY <1>1, <2>1 DEF WatcherType
    <2>3. watcher' \in [Kind -> WatcherType]
      BY <1>1, <2>1 DEF TypeOK, WatcherType
    <2>4. classes' \subseteq ClassName
      BY <2>1, <2>2 DEF TypeOK
    <2>5. QED
      BY <1>5, <2>3, <2>4 DEF CreateStorageClass, TypeOK, WatcherType
  <1>6. QED
    BY <1>2, <1>3, <1>4, <1>5 DEF Watcher

\* The steps of everything else.
LEMMA EnvironmentType ==
    ASSUME TypeOK,
           \/ StartWatchers \/ Crash \/ FinishInstallation \/ RecordJobs
           \/ EditCluster \/ DeleteStorageClass
           \/ \E k \in Kind, n \in Node :
                ObserveNode(k, n) \/ ChangePools(k, n) \/ RefreshNode(k, n)
    PROVE  TypeOK'
  <1> USE FaultType, ChangeType
  <1>1. CASE StartWatchers
    BY <1>1 DEF StartWatchers, Objects, TypeOK
  <1>2. CASE Crash
    BY <1>2, RestartType DEF Crash, TypeOK
  <1>3. CASE FinishInstallation
    BY <1>3 DEF FinishInstallation, Process, TypeOK
  <1>4. CASE RecordJobs
    <2>1. PICK num \in 0..MaxJobs : /\ cluster' = [cluster EXCEPT !.jobNum = num]
                                    /\ recorded' \in {num, recorded}
      BY <1>4 DEF RecordJobs
    <2>2. QED
      BY <1>4, <2>1 DEF RecordJobs, Process, TypeOK
  <1>5. CASE EditCluster
    <2>1. \/ \E section \in Sections :
               cluster' = [cluster EXCEPT !.section = section]
          \/ cluster' = [cluster EXCEPT !.exists = FALSE]
          \/ \E section \in Sections :
               cluster' = [exists |-> TRUE, section |-> section,
                           installed |-> FALSE, jobNum |-> 0]
      BY <1>5 DEF EditCluster
    <2>2. cluster' \in [exists: BOOLEAN, section: Section, installed: BOOLEAN,
                        jobNum: 0..MaxJobs]
      <3>1. CASE \E section \in Sections :
                   cluster' = [cluster EXCEPT !.section = section]
        <4>1. PICK section \in Section :
                cluster' = [cluster EXCEPT !.section = section]
          BY <3>1, Bounds
        <4>2. QED
          BY <4>1 DEF TypeOK
      <3>2. CASE cluster' = [cluster EXCEPT !.exists = FALSE]
        BY <3>2 DEF TypeOK
      <3>3. CASE \E section \in Sections :
                   cluster' = [exists |-> TRUE, section |-> section,
                               installed |-> FALSE, jobNum |-> 0]
        <4>1. PICK section \in Section :
                cluster' = [exists |-> TRUE, section |-> section,
                            installed |-> FALSE, jobNum |-> 0]
          BY <3>3, Bounds
        <4>2. QED
          BY <4>1, Bounds
      <3>4. QED
        BY <2>1, <3>1, <3>2, <3>3
    <2>3. QED
      BY <1>5, <2>2 DEF EditCluster, Process, TypeOK
  <1>6. CASE DeleteStorageClass
    BY <1>6 DEF DeleteStorageClass, Process, TypeOK
  <1>7. CASE \E k \in Kind, n \in Node : ObserveNode(k, n)
    <2>1. PICK k \in Kind, n \in Node : ObserveNode(k, n)
      BY <1>7
    <2>2. cache' \in Pools
      BY <2>1 DEF ObserveNode, TypeOK, Pools
    <2>3. QED
      BY <2>1, <2>2 DEF ObserveNode, Objects, Process, TypeOK
  <1>8. CASE \E k \in Kind, n \in Node : ChangePools(k, n)
    <2>1. PICK k \in Kind, n \in Node : ChangePools(k, n)
      BY <1>8
    <2>2. PICK set \in SUBSET PoolClass :
            /\ pools' = [pools EXCEPT ![k][n] = set]
            /\ pooled' = [pooled EXCEPT ![k] = @ \cup set]
      BY <2>1 DEF ChangePools
    <2>3. pools' \in Pools /\ pooled' \in [Kind -> SUBSET PoolClass]
      BY <2>2 DEF TypeOK, Pools
    <2>4. events' \in [Kind -> SUBSET Node]
      BY <2>1 DEF ChangePools, NodeEvent, TypeOK
    <2>5. QED
      BY <2>1, <2>3, <2>4 DEF ChangePools, Process, TypeOK
  <1>9. CASE \E k \in Kind, n \in Node : RefreshNode(k, n)
    BY <1>9 DEF RefreshNode, NodeEvent, Objects, Process, TypeOK
  <1>10. QED
    BY <1>1, <1>2, <1>3, <1>4, <1>5, <1>6, <1>7, <1>8, <1>9

\* The variables of the watchers and of what surrounds them keep their types.
THEOREM TypeCorrect == Spec => []TypeOK
  <1>1. TypeOK /\ [Next]_vars => TypeOK'
    <2> SUFFICES ASSUME TypeOK, [Next]_vars PROVE TypeOK'
      OBVIOUS
    <2>1. CASE UNCHANGED vars
      BY <2>1 DEF vars, TypeOK
    <2>2. QED
      BY <2>1, WatcherStepType, EnvironmentType DEF Next
  <1>2. QED
    BY <1>1, InitType, PTL DEF Spec

-----------------------------------------------------------------------------
(* Safety *)

\* Some node had the pool of the name, and the Cluster showed its jobs.
Backed(name) ==
    /\ name.pool \in pooled[name.kind]
    /\ JobsNeeded(name.variant) <= recorded

\* The inductive invariant: what the API server and the cache show is known to
\* the history, and so is whatever was worked out of it.
IInv ==
    /\ \A k \in Kind, n \in Node : /\ pools[k][n] \subseteq pooled[k]
                                   /\ cache[k][n] \subseteq pooled[k]
    /\ cluster.jobNum <= recorded
    /\ \A k \in Kind : /\ watcher[k].jobNum <= recorded
                       /\ \A name \in watcher[k].left : Backed(name)
    /\ \A name \in classes : Backed(name)

\* The history only grows.
HistoryGrows ==
    /\ \A k \in Kind : pooled[k] \subseteq pooled'[k]
    /\ recorded <= recorded'

LEMMA JobsNeededType ==
    \A name \in ClassName : JobsNeeded(name.variant) \in Nat
  BY DEF ClassName, JobsNeeded

LEMMA NamesHaveKind ==
    \A name \in ClassName : name.kind \in Kind
  BY DEF ClassName, Kind

\* What is backed stays so.
LEMMA BackedStays ==
    ASSUME TypeOK, TypeOK', HistoryGrows,
           NEW name \in ClassName, Backed(name)
    PROVE  Backed(name)'
  <1>1. /\ name.kind \in Kind /\ JobsNeeded(name.variant) \in Nat
        /\ recorded \in Nat /\ recorded' \in Nat
    BY NamesHaveKind, JobsNeededType, StorageAssumption DEF TypeOK
  <1>2. QED
    BY <1>1 DEF HistoryGrows, Backed

\* Names are worked out of a listing and a number that the history knows.
LEMMA NamesAreBacked ==
    ASSUME TypeOK, IInv, NEW k \in Kind
    PROVE  \A name \in NamesToCreate(k, Listed(k), watcher[k].jobNum) :
               Backed(name)
  <1> SUFFICES ASSUME NEW name \in NamesToCreate(k, Listed(k), watcher[k].jobNum)
               PROVE  Backed(name)
    OBVIOUS
  <1>1. /\ name \in ClassName /\ name.kind = k
        /\ JobsNeeded(name.variant) <= watcher[k].jobNum
    BY DEF NamesToCreate
  <1>2. PICK n \in Node : name.pool \in Listed(k)[n]
    BY DEF NamesToCreate
  <1>3. name.pool \in pooled[k]
    BY <1>2 DEF Listed, IInv
  <1>4. /\ watcher[k].jobNum \in Nat /\ recorded \in Nat
        /\ JobsNeeded(name.variant) \in Nat /\ watcher[k].jobNum <= recorded
    BY <1>1, JobsNeededType, StorageAssumption DEF TypeOK, IInv
  <1>5. QED
    BY <1>1, <1>3, <1>4 DEF Backed

LEMMA HistoryStep ==
    ASSUME TypeOK, [Next]_vars
    PROVE  HistoryGrows
  <1>1. recorded \in Nat
    BY StorageAssumption DEF TypeOK
  <1>2. CASE UNCHANGED <<pooled, recorded>>
    BY <1>1, <1>2 DEF HistoryGrows
  <1>3. CASE \E k \in Kind, n \in Node : ChangePools(k, n)
    <2>1. PICK k \in Kind, set \in SUBSET PoolClass :
            pooled' = [pooled EXCEPT ![k] = @ \cup set]
      BY <1>3 DEF ChangePools
    <2>2. recorded' = recorded
      BY <1>3 DEF ChangePools
    <2>3. QED
      BY <1>1, <2>1, <2>2 DEF HistoryGrows, TypeOK
  <1>4. CASE RecordJobs
    <2>1. PICK num \in 0..MaxJobs :
            recorded' = IF num > recorded THEN num ELSE recorded
      BY <1>4 DEF RecordJobs
    <2>2. num \in Nat /\ pooled' = pooled
      BY <1>4, StorageAssumption DEF RecordJobs
    <2>3. QED
      BY <1>1, <2>1, <2>2 DEF HistoryGrows
  <1>5. QED
    BY <1>2, <1>3, <1>4
       DEF Next, Watcher, vars, Objects, StartWatchers, TakeEvent, ListNodes,
           PanicOnNoSection, Restart, CreateStorageClass, Crash, ObserveNode,
           RefreshNode, FinishInstallation, EditCluster, DeleteStorageClass

\* The pools and the cache.
LEMMA PoolsStep ==
    ASSUME TypeOK, IInv, HistoryGrows, [Next]_vars
    PROVE  \A k \in Kind, n \in Node : /\ pools'[k][n] \subseteq pooled'[k]
                                       /\ cache'[k][n] \subseteq pooled'[k]
  <1>1. CASE UNCHANGED <<pools, cache>>
    BY <1>1 DEF IInv, HistoryGrows
  <1>2. CASE \E k \in Kind : ListNodes(k)
    <2>1. PICK k \in Kind : \/ cache' = cache
                            \/ cache' = [cache EXCEPT ![k] = Listed(k)]
      BY <1>2 DEF ListNodes
    <2>2. UNCHANGED <<pools, pooled>>
      BY <1>2 DEF ListNodes, Objects
    <2>3. QED
      BY <2>1, <2>2 DEF IInv, Listed, TypeOK, Pools
  <1>3. CASE \E k \in Kind, n \in Node : ObserveNode(k, n)
    <2>1. PICK k \in Kind, n \in Node :
            cache' = [cache EXCEPT ![k][n] = pools[k][n]]
      BY <1>3 DEF ObserveNode
    <2>2. UNCHANGED <<pools, pooled>>
      BY <1>3 DEF ObserveNode, Objects
    <2>3. QED
      BY <2>1, <2>2 DEF IInv, TypeOK, Pools
  <1>4. CASE \E k \in Kind, n \in Node : ChangePools(k, n)
    <2>1. PICK k \in Kind, n \in Node, set \in SUBSET PoolClass :
            /\ pools' = [pools EXCEPT ![k][n] = set]
            /\ pooled' = [pooled EXCEPT ![k] = @ \cup set]
      BY <1>4 DEF ChangePools
    <2>2. cache' = cache
      BY <1>4 DEF ChangePools
    <2>3. QED
      BY <2>1, <2>2 DEF IInv, HistoryGrows, TypeOK, Pools
  <1>5. QED
    BY <1>1, <1>2, <1>3, <1>4
       DEF Next, Watcher, vars, Objects, Process, StartWatchers, TakeEvent,
           PanicOnNoSection, Restart, CreateStorageClass, Crash, RefreshNode,
           FinishInstallation, RecordJobs, EditCluster, DeleteStorageClass

LEMMA IdleLeft == IdleWatcher = [IdleWatcher EXCEPT !.left = {}]
  BY DEF IdleWatcher

\* The number of jobs, in the Cluster and in a watcher's copy of it.
LEMMA JobNumStep ==
    ASSUME TypeOK, IInv, HistoryGrows, TypeOK', [Next]_vars
    PROVE  /\ cluster'.jobNum <= recorded'
           /\ \A k \in Kind : watcher'[k].jobNum <= recorded'
  <1>1. /\ recorded \in Nat /\ recorded' \in Nat /\ cluster.jobNum \in Nat
        /\ \A k \in Kind : watcher[k].jobNum \in Nat
    BY StorageAssumption DEF TypeOK
  <1>2. cluster'.jobNum <= recorded'
    <2>1. CASE RecordJobs
      <3>1. PICK num \in 0..MaxJobs :
              /\ cluster' = [cluster EXCEPT !.jobNum = num]
              /\ recorded' = IF num > recorded THEN num ELSE recorded
        BY <2>1 DEF RecordJobs
      <3>2. cluster'.jobNum = num /\ num \in Nat
        BY <3>1, StorageAssumption DEF TypeOK
      <3>3. QED
        BY <1>1, <3>1, <3>2
    <2>2. CASE EditCluster
      <3>1. cluster'.jobNum = cluster.jobNum \/ cluster'.jobNum = 0
        BY <2>2 DEF EditCluster, TypeOK
      <3>2. QED
        BY <1>1, <3>1 DEF IInv, HistoryGrows
    <2>3. CASE FinishInstallation
      <3>1. cluster'.jobNum = cluster.jobNum
        BY <2>3 DEF FinishInstallation, TypeOK
      <3>2. QED
        BY <1>1, <3>1 DEF IInv, HistoryGrows
    <2>4. CASE UNCHANGED cluster
      BY <1>1, <2>4 DEF IInv, HistoryGrows
    <2>5. QED
      BY <2>1, <2>2, <2>3, <2>4
         DEF Next, Watcher, vars, Objects, StartWatchers, TakeEvent, ListNodes,
             PanicOnNoSection, Restart, CreateStorageClass, Crash,
             ObserveNode, ChangePools, RefreshNode, DeleteStorageClass
  <1>3. ASSUME NEW k \in Kind
        PROVE  watcher'[k].jobNum <= recorded'
    <2>1. CASE watcher'[k].jobNum \in {watcher[k].jobNum, cluster.jobNum, 0}
      BY <1>1, <2>1 DEF IInv, HistoryGrows
    <2>2. CASE \E l \in Kind : TakeEvent(l)
      BY <2>1, <2>2 DEF TakeEvent, TypeOK
    <2>3. CASE \E l \in Kind : ListNodes(l)
      <3>1. PICK l \in Kind : \E left :
              watcher' = [watcher EXCEPT ![l] = [IdleWatcher EXCEPT !.left = left]]
        BY <2>3, IdleLeft DEF ListNodes
      <3> PICK left :
              watcher' = [watcher EXCEPT ![l] = [IdleWatcher EXCEPT !.left = left]]
        BY <3>1
      <3>2. [IdleWatcher EXCEPT !.left = left].jobNum = 0
        BY DEF IdleWatcher
      <3>3. QED
        BY <2>1, <3>2 DEF TypeOK
    <2>4. CASE \E l \in Kind : CreateStorageClass(l)
      <3>1. PICK l \in Kind : \E left :
              watcher' = [watcher EXCEPT ![l].left = left]
        BY <2>4 DEF CreateStorageClass
      <3> PICK left : watcher' = [watcher EXCEPT ![l].left = left]
        BY <3>1
      <3>2. QED
        BY <2>1 DEF TypeOK
    <2>5. CASE Restart
      BY <2>1, <2>5 DEF Restart, IdleWatcher
    <2>6. CASE UNCHANGED watcher
      BY <2>1, <2>6
    <2>7. QED
      BY <2>2, <2>3, <2>4, <2>5, <2>6
         DEF Next, Watcher, vars, Process, StartWatchers, PanicOnNoSection,
             Crash, ObserveNode, ChangePools, RefreshNode, FinishInstallation,
             RecordJobs, EditCluster, DeleteStorageClass
  <1>4. QED
    BY <1>2, <1>3

\* The names that a watcher has yet to create, and the classes.
LEMMA NamesStep ==
    ASSUME TypeOK, IInv, HistoryGrows, TypeOK', [Next]_vars
    PROVE  /\ \A k \in Kind : \A name \in watcher'[k].left : Backed(name)'
           /\ \A name \in classes' : Backed(name)'
  <1>1. \A name \in ClassName : Backed(name) => Backed(name)'
    BY BackedStays
  <1>2. /\ \A k \in Kind : watcher'[k].left \subseteq ClassName
        /\ classes' \subseteq ClassName
    BY DEF TypeOK
  <1>3. \A k \in Kind : \A name \in watcher'[k].left : Backed(name)
    <2> SUFFICES ASSUME NEW k \in Kind
                 PROVE  \A name \in watcher'[k].left : Backed(name)
      OBVIOUS
    <2>1. CASE watcher'[k].left \subseteq watcher[k].left
      BY <2>1 DEF IInv
    <2>2. CASE watcher'[k].left
                 = NamesToCreate(k, Listed(k), watcher[k].jobNum)
      BY <2>2, NamesAreBacked
    <2>3. CASE \E l \in Kind : TakeEvent(l)
      BY <2>1, <2>3 DEF TakeEvent, TypeOK
    <2>4. CASE \E l \in Kind : ListNodes(l)
      <3>1. PICK l \in Kind : ListNodes(l)
        BY <2>4
      <3>2. \/ watcher' = [watcher EXCEPT ![l] =
                             [IdleWatcher EXCEPT !.left =
                                NamesToCreate(l, Listed(l), watcher[l].jobNum)]]
            \/ watcher' = [watcher EXCEPT ![l] = IdleWatcher]
        BY <3>1 DEF ListNodes
      <3>3. /\ IdleWatcher.left = {}
            /\ \A left : [IdleWatcher EXCEPT !.left = left].left = left
        BY DEF IdleWatcher
      <3>4. QED
        BY <2>1, <2>2, <3>2, <3>3 DEF TypeOK
    <2>5. CASE \E l \in Kind : CreateStorageClass(l)
      BY <2>1, <2>5 DEF CreateStorageClass, TypeOK
    <2>6. CASE Restart
      BY <2>1, <2>6 DEF Restart, IdleWatcher
    <2>7. CASE UNCHANGED watcher
      BY <2>1, <2>7
    <2>8. QED
      BY <2>3, <2>4, <2>5, <2>6, <2>7
         DEF Next, Watcher, vars, Process, StartWatchers, PanicOnNoSection,
             Crash, ObserveNode, ChangePools, RefreshNode, FinishInstallation,
             RecordJobs, EditCluster, DeleteStorageClass
  <1>4. \A name \in classes' : Backed(name)
    <2>1. CASE classes' \subseteq classes
      BY <2>1 DEF IInv
    <2>2. CASE \E k \in Kind : CreateStorageClass(k)
      <3>1. PICK k \in Kind : CreateStorageClass(k)
        BY <2>2
      <3>2. PICK name \in watcher[k].left :
              classes' = classes \cup {name} \/ classes' = classes
        BY <3>1 DEF CreateStorageClass
      <3>3. QED
        BY <3>2 DEF IInv
    <2>3. CASE DeleteStorageClass
      BY <2>1, <2>3 DEF DeleteStorageClass
    <2>4. QED
      BY <2>1, <2>2, <2>3
         DEF Next, Watcher, vars, Objects, StartWatchers, TakeEvent, ListNodes,
             PanicOnNoSection, Restart, Crash, ObserveNode, ChangePools,
             RefreshNode, FinishInstallation, RecordJobs, EditCluster
  <1>5. QED
    BY <1>1, <1>2, <1>3, <1>4

LEMMA Invariance == Spec => []IInv
  <1>1. Init => IInv
    <2> SUFFICES ASSUME Init PROVE IInv
      OBVIOUS
    <2>1. cluster.jobNum = 0
      BY DEF Init
    <2>2. QED
      BY <2>1 DEF Init, IInv, IdleWatcher
  <1>2. TypeOK /\ TypeOK' /\ IInv /\ [Next]_vars => IInv'
    <2> SUFFICES ASSUME TypeOK, TypeOK', IInv, [Next]_vars PROVE IInv'
      OBVIOUS
    <2>1. HistoryGrows
      BY HistoryStep
    <2>2. QED
      BY <2>1, PoolsStep, JobNumStep, NamesStep DEF IInv
  <1>3. QED
    BY <1>1, <1>2, TypeCorrect, PTL DEF Spec

\* A class exists only if some node has had a pool of it, whatever the cache,
\* the order of events and the restarts were.
THEOREM ClassesAreBacked == Spec => []ClassesHadPools
  <1>1. IInv => ClassesHadPools
    BY DEF IInv, Backed, ClassesHadPools
  <1>2. QED
    BY <1>1, Invariance, PTL

\* The classes for DRBD exist only if its jobs have been recorded.
THEOREM VariantsAreBacked == Spec => []VariantsHadJobs
  <1>1. TypeOK /\ IInv => VariantsHadJobs
    <2> SUFFICES ASSUME TypeOK, IInv, NEW name \in classes
                 PROVE  /\ name.variant = "convertible" => recorded >= 1
                        /\ name.variant = "ha" => recorded >= 2
      BY DEF VariantsHadJobs
    <2>1. JobsNeeded(name.variant) <= recorded /\ recorded \in Nat
      BY StorageAssumption DEF IInv, Backed, TypeOK
    <2>2. QED
      BY <2>1 DEF JobsNeeded
  <1>2. QED
    BY <1>1, Invariance, TypeCorrect, PTL

=============================================================================
