-------------------------- MODULE MaintainersProofs --------------------------
(***************************************************************************)
(* Types and RestMeansSettled for chains of any length, of any shapes, and *)
(* any number of Clusters, faults and disturbances.                        *)
(*                                                                         *)
(* The argument.  A pass that nothing will follow has the Cluster as it is *)
(* and, for each component it is through with, either has left what the    *)
(* Cluster asks for or has an event of it on the way.  Whoever changes the *)
(* Cluster queues it, and whoever changes a workload that is owned causes  *)
(* an event.                                                               *)
(***************************************************************************)
EXTENDS Maintainers, TLAPS

CallsOf(p, c) == Calls(chain[c], c \in p.cluster.disabled)

PassType == [at: 0..(Len(chain) + 1), step: 1..2, cluster: ClusterType,
             health: [Component -> Health]]

\* A pass is at one of the calls of a component, for a Cluster that existed.
PassOK(p) ==
    /\ p \in PassType
    /\ p.at # 0 => p.cluster.uid \in UID
    /\ p.at \in Component => p.step \in 1..Len(CallsOf(p, p.at))

Types ==
    /\ TypeOK
    /\ chain \in Chains
    /\ cluster.uid \in UID
    /\ PassOK(pass)

-----------------------------------------------------------------------------
(* Shapes and calls *)

LEMMA ChainTypes ==
    ASSUME chain \in Chains
    PROVE  /\ Len(chain) \in Nat /\ Component = 1..Len(chain)
           /\ \A c \in Component : chain[c] \in Shape
BY ShapesAssumption DEF Component

\* What a component's calls can be.
LEMMA CallKinds ==
    ASSUME chain \in Chains, NEW c \in Component, NEW p
    PROVE  /\ c \notin p.cluster.disabled
                => \/ CallsOf(p, c) = <<"ensure">>
                   \/ CallsOf(p, c) = <<"ensure", "ensureService">>
                   \/ CallsOf(p, c) = <<"ensureConfigMap", "ensure">>
           /\ c \in p.cluster.disabled
                => \/ CallsOf(p, c) = <<"remove">>
                   \/ CallsOf(p, c) = <<"remove", "removeCompanion">>
                   \/ /\ CallsOf(p, c) = <<"remove", "ensure">>
                      /\ chain[c].removal = "inEnsure"
<1>1. chain[c].companion \in {"none", "service", "configMap"}
  BY ChainTypes DEF Shape
<1>2. CASE c \notin p.cluster.disabled
  BY <1>1, <1>2 DEF CallsOf, Calls
<1>3. CASE c \in p.cluster.disabled /\ chain[c].removal = "inEnsure"
  BY <1>3 DEF CallsOf, Calls
<1>4. CASE /\ c \in p.cluster.disabled
           /\ chain[c].removal # "inEnsure" /\ chain[c].companion = "none"
  BY <1>4 DEF CallsOf, Calls
<1>5. CASE /\ c \in p.cluster.disabled
           /\ chain[c].removal # "inEnsure" /\ chain[c].companion # "none"
  BY <1>5 DEF CallsOf, Calls
<1> QED
  BY <1>2, <1>3, <1>4, <1>5

\* There are one or two calls.
LEMMA CallsLength ==
    ASSUME chain \in Chains, NEW c \in Component, NEW p
    PROVE  Len(CallsOf(p, c)) \in {1, 2}
<1>1. /\ Len(<<"ensure">>) = 1 /\ Len(<<"remove">>) = 1
      /\ Len(<<"ensure", "ensureService">>) = 2
      /\ Len(<<"ensureConfigMap", "ensure">>) = 2
      /\ Len(<<"remove", "removeCompanion">>) = 2
      /\ Len(<<"remove", "ensure">>) = 2
  OBVIOUS
<1> QED
  BY <1>1, CallKinds, Zenon

\* The pass goes on with the same Cluster and the same health.
LEMMA PassGoesOn ==
    ASSUME chain \in Chains, PassOK(pass), pass.at \in Component
    PROVE  /\ PassOK(NextComponent) /\ PassOK(NextCall)
           /\ NextComponent = [pass EXCEPT !.at = pass.at + 1, !.step = 1]
           /\ NextCall \in {NextComponent, [pass EXCEPT !.step = 2]}
           /\ pass.step = 2 => NextCall = NextComponent
<1>1. /\ Len(chain) \in Nat /\ Component = 1..Len(chain)
      /\ pass.at \in 1..Len(chain)
      /\ pass \in PassType /\ pass.cluster.uid \in UID
      /\ pass.step \in 1..Len(CallsOf(pass, pass.at))
  BY ChainTypes DEF PassOK
<1>2. Len(CallsOf(pass, pass.at)) \in {1, 2}
  BY CallsLength
<1>3. NextComponent = [pass EXCEPT !.at = pass.at + 1, !.step = 1]
  BY Zenon DEF NextComponent
<1>4. /\ NextComponent \in PassType
      /\ NextComponent.cluster = pass.cluster
      /\ NextComponent.step = 1 /\ NextComponent.at # 0
  <2>1. pass.at + 1 \in 0..(Len(chain) + 1) /\ 1 \in 1..2 /\ pass.at + 1 # 0
    BY <1>1
  <2> QED
    BY <1>1, <1>3, <2>1 DEF PassType
<1>5. NextComponent.at \in Component
        => Len(CallsOf(NextComponent, NextComponent.at)) \in {1, 2}
  BY CallsLength
<1>6. PassOK(NextComponent)
  <2>1. NextComponent.at \in Component
          => NextComponent.step \in
                 1..Len(CallsOf(NextComponent, NextComponent.at))
    <3>1. 1 \in 1..1 /\ 1 \in 1..2
      OBVIOUS
    <3> QED
      BY <1>4, <1>5, <3>1, Zenon
  <2> QED
    BY <1>1, <1>4, <2>1, Zenon DEF PassOK
<1>7. CASE pass.step < Len(CallsFor(pass.at))
  <2>1. CallsFor(pass.at) = CallsOf(pass, pass.at)
    BY DEF CallsFor, CallsOf
  <2>2. pass.step = 1 /\ Len(CallsOf(pass, pass.at)) = 2
    BY <1>1, <1>2, <1>7, <2>1
  <2>3. NextCall = [pass EXCEPT !.step = 2]
    <3>1. NextCall = [pass EXCEPT !.step = pass.step + 1]
      BY <1>7, Zenon DEF NextCall
    <3> QED
      BY <2>2, <3>1
  <2>4. /\ NextCall \in PassType /\ NextCall.cluster = pass.cluster
        /\ NextCall.at = pass.at /\ NextCall.step = 2
    BY <1>1, <2>3 DEF PassType
  <2>5. CallsOf(NextCall, NextCall.at) = CallsOf(pass, pass.at)
    BY <2>4, Zenon DEF CallsOf
  <2>6. PassOK(NextCall)
    <3>1. 2 \in 1..2 /\ pass.at # 0
      BY <1>1
    <3>2. NextCall.step \in 1..Len(CallsOf(NextCall, NextCall.at))
      BY <2>2, <2>4, <2>5, <3>1, Zenon
    <3> QED
      BY <1>1, <2>4, <3>1, <3>2, Zenon DEF PassOK
  <2> QED
    BY <1>3, <1>6, <2>2, <2>3, <2>6
<1>8. CASE ~(pass.step < Len(CallsFor(pass.at)))
  BY <1>3, <1>6, <1>8 DEF NextCall
<1> QED
  BY <1>7, <1>8

LEMMA IdleType == ASSUME chain \in Chains PROVE PassOK(Idle)
<1>1. NoHealth \in [Component -> Health]
  BY DEF NoHealth, Health
<1>2. Idle.cluster \in ClusterType
  BY <1>1, MaintainersAssumption DEF Idle, ClusterType
<1>3. Idle \in PassType /\ Idle.at = 0
  BY <1>1, <1>2, ChainTypes DEF Idle, PassType
<1>4. 0 \notin Component
  BY ChainTypes
<1> QED
  BY <1>3, <1>4 DEF PassOK
-----------------------------------------------------------------------------
(* Types *)

\* The types follow from the parts, since the chain stays as it is.
LEMMA TypesOfParts ==
    ASSUME Types, UNCHANGED setting,
           cluster' \in ClusterType, cluster'.uid \in UID,
           live' \in [Component -> Workload],
           seen' \in [Component -> Workload],
           companion' \in Companions, companionSeen' \in Companions,
           lingering' \subseteq Component, unseen' \subseteq Component,
           template' \in [Component -> SUBSET UID],
           queued' \in BOOLEAN,
           PassOK(pass'),
           faults' \in 0..MaxFaults,
           disturbances' \in 0..MaxDisturbances[chain]
    PROVE  Types'
<1>1. chain' = chain /\ foreign' = foreign
  BY DEF setting
<1>2. /\ Component' = Component /\ ClusterType' = ClusterType
      /\ Companions' = Companions /\ PassType' = PassType
      /\ Workload' = Workload /\ UID' = UID
  BY <1>1 DEF Component, ClusterType, Companions, PassType, Workload, UID
<1>3. PassOK(pass)'
  BY <1>1, <1>2 DEF PassOK, CallsOf
<1>4. pass' \in PassType
  BY DEF PassOK
<1>5. TypeOK'
  <2>1. foreign \subseteq Component
    BY DEF Types, TypeOK
  <2> HIDE DEF Component, ClusterType, Companions, PassType, Workload, UID
  <2> QED
    BY <1>1, <1>2, <1>4, <2>1, Zenon DEF TypeOK, PassType
<1> QED
  BY <1>1, <1>2, <1>3, <1>5, Zenon DEF Types

\* The parts of the types, by name.
LEMMA Parts ==
    ASSUME Types
    PROVE  /\ chain \in Chains
           /\ Len(chain) \in Nat /\ Component = 1..Len(chain)
           /\ \A c \in Component : chain[c] \in Shape
           /\ cluster \in ClusterType /\ cluster.uid \in UID
           /\ live \in [Component -> Workload]
           /\ seen \in [Component -> Workload]
           /\ companion \in Companions /\ companionSeen \in Companions
           /\ lingering \subseteq Component /\ unseen \subseteq Component
           /\ template \in [Component -> SUBSET UID]
           /\ queued \in BOOLEAN
           /\ PassOK(pass) /\ pass \in PassType
           /\ pass.cluster \in ClusterType
           /\ faults \in 0..MaxFaults
           /\ disturbances \in 0..MaxDisturbances[chain]
<1>1. pass.cluster \in ClusterType /\ pass \in PassType /\ chain \in Chains
  BY DEF Types, PassOK, PassType
<1> QED
  BY <1>1, ChainTypes DEF Types, TypeOK

\* The values that workloads take.
LEMMA WorkloadValues ==
    ASSUME Types, NEW c \in Component
    PROVE  /\ NoWorkload \in Workload
           /\ \A owners \in SUBSET UID, version \in Version \cup {"none"} :
                 WorkloadFor(owners, version) \in Workload
           /\ Updated(c) \in Workload /\ Updated(c).owners = live[c].owners
           /\ \A b \in BOOLEAN :
                 /\ [live[c] EXCEPT !.ready = b] \in Workload
                 /\ [live[c] EXCEPT !.ready = b].owners = live[c].owners
           /\ \A f \in Field :
                 /\ [live[c] EXCEPT !.fields[f] = "drifted"] \in Workload
                 /\ [live[c] EXCEPT !.fields[f] = "drifted"].owners
                      = live[c].owners
<1>1. live[c] \in Workload
  BY Parts
<1>2. NoWorkload \in Workload
  BY DEF NoWorkload, Workload
<1>3. \A owners \in SUBSET UID, version \in Version \cup {"none"} :
         WorkloadFor(owners, version) \in Workload
  BY DEF WorkloadFor, Workload
<1>4. Updated(c) \in Workload /\ Updated(c).owners = live[c].owners
  <2> DEFINE fields == [f \in Field |-> IF f \in chain[c].assigned
                                        THEN pass.cluster.version
                                        ELSE live[c].fields[f]]
             ready == live[c].ready /\ fields = live[c].fields
  <2>1. fields \in [Field -> Version \cup {"none", "drifted"}]
    <3>1. pass.cluster.version \in Version \cup {"none"}
      BY Parts DEF ClusterType
    <3>2. live[c].fields \in [Field -> Version \cup {"none", "drifted"}]
      BY <1>1 DEF Workload
    <3> QED
      BY <3>1, <3>2
  <2>2. ready \in BOOLEAN
    BY <1>1 DEF Workload
  <2>3. Updated(c) = [live[c] EXCEPT !.fields = fields, !.ready = ready]
    BY DEF Updated
  <2> HIDE DEF fields, ready
  <2> QED
    BY <1>1, <2>1, <2>2, <2>3 DEF Workload
<1>5. \A b \in BOOLEAN :
         /\ [live[c] EXCEPT !.ready = b] \in Workload
         /\ [live[c] EXCEPT !.ready = b].owners = live[c].owners
  BY <1>1 DEF Workload
<1>6. \A f \in Field :
         /\ [live[c] EXCEPT !.fields[f] = "drifted"] \in Workload
         /\ [live[c] EXCEPT !.fields[f] = "drifted"].owners = live[c].owners
  BY <1>1 DEF Workload
<1> QED
  BY <1>2, <1>3, <1>4, <1>5, <1>6

\* A workload that changes, or goes, is a workload.
LEMMA ChangedTypes ==
    ASSUME Types, NEW c \in Component, NEW w \in Workload
    PROVE  /\ Changed(c, w) => /\ live' \in [Component -> Workload]
                               /\ unseen' \subseteq Component
           /\ Gone(c) => /\ live' \in [Component -> Workload]
                         /\ unseen' \subseteq Component
                         /\ lingering' \subseteq Component
<1>1. ASSUME NEW v \in Workload, Changed(c, v)
      PROVE  live' \in [Component -> Workload] /\ unseen' \subseteq Component
  BY <1>1, Parts DEF Changed
<1>2. ASSUME Gone(c)
      PROVE  lingering' \subseteq Component /\ Changed(c, NoWorkload)
  BY <1>2, Parts DEF Gone
<1> QED
  BY <1>1, <1>2, WorkloadValues

\* The next fault, and the next disturbance, is within its bound.
LEMMA Budgets ==
    ASSUME Types
    PROVE  /\ Fault => faults' \in 0..MaxFaults
           /\ Disturbance => disturbances' \in 0..MaxDisturbances[chain]
<1>1. Fault => faults' \in 0..MaxFaults
  BY Parts, MaintainersAssumption DEF Fault
<1>2. MaxDisturbances[chain] \in Nat
  BY Parts, MaintainersAssumption
<1>3. Disturbance => disturbances' \in 0..MaxDisturbances[chain]
  BY <1>2, Parts DEF Disturbance
<1> QED
  BY <1>1, <1>3

\* Where a pass may be after a call of c.
Moves(c) ==
    \/ pass' = Idle
    \/ pass' = NextCall
    \/ pass' = NextComponent
    \/ \E h \in Health : pass' = [NextCall EXCEPT !.health[c] = h]

LEMMA MoveTypes ==
    ASSUME Types, NEW c \in Component, pass.at = c, Moves(c)
    PROVE  PassOK(pass')
<1>1. PassOK(Idle)
  BY Parts, IdleType
<1>2. PassOK(NextCall) /\ PassOK(NextComponent)
  BY Parts, PassGoesOn
<1>3. ASSUME NEW h \in Health
      PROVE  PassOK([NextCall EXCEPT !.health[c] = h])
  <2> DEFINE q == NextCall
             r == [q EXCEPT !.health[c] = h]
  <2>1. PassOK(q) /\ q \in PassType
    BY <1>2 DEF PassOK
  <2> HIDE DEF q
  <2>2. /\ r \in PassType
        /\ r.at = q.at /\ r.step = q.step /\ r.cluster = q.cluster
    BY <2>1 DEF PassType
  <2> HIDE DEF r
  <2>3. CallsOf(r, r.at) = CallsOf(q, q.at)
    BY <2>2, Zenon DEF CallsOf
  <2>4. PassOK(r)
    BY <2>1, <2>2, <2>3, Zenon DEF PassOK
  <2> QED
    BY <2>4 DEF r, q
<1> QED
  BY <1>1, <1>2, <1>3 DEF Moves

\* The calls of a pass: what they do to the pass and to the queue.
LEMMA ReportMoves ==
    ASSUME NEW c \in Component, queued \in BOOLEAN, Report(c)
    PROVE  Moves(c) /\ queued' \in {TRUE, queued}
BY DEF Report, ReturnError, Moves, Health

LEMMA AtComponent ==
    ASSUME NEW c \in Component, NEW call, Types, At(c, call)
    PROVE  /\ pass.at = c /\ c # 0
           /\ pass.cluster.uid \in UID
           /\ pass.cluster.version \in Version \cup {"none"}
           /\ Owners(c) \in SUBSET UID
           /\ SetTemplate(c) => template' \in [Component -> SUBSET UID]
<1>1. pass.at = c /\ c # 0
  BY Parts DEF At
<1>2. pass.cluster.uid \in UID
  BY <1>1, Parts DEF PassOK
<1>3. pass.cluster.version \in Version \cup {"none"}
  BY Parts DEF ClusterType
<1>4. Owners(c) \in SUBSET UID
  BY <1>2, Parts DEF Owners
<1>5. SetTemplate(c) => template' \in [Component -> SUBSET UID]
  BY <1>4, Parts DEF SetTemplate
<1> QED
  BY <1>1, <1>2, <1>3, <1>4, <1>5

\* A call of a maintainer keeps the types.
LEMMA WorkloadCallTypes ==
    ASSUME Types, NEW c \in Component,
           CreateWorkload(c) \/ UpdateWorkload(c) \/ KeepWorkload(c)
           \/ RemoveWorkload(c)
    PROVE  Types'
<1>1. PICK call : At(c, call)
  BY DEF CreateWorkload, UpdateWorkload, KeepWorkload, RemoveWorkload
<1>2. /\ UNCHANGED <<setting, cluster, companion, seen, companionSeen,
                     disturbances>>
      /\ pass.at = c
  BY <1>1, AtComponent DEF CreateWorkload, UpdateWorkload, KeepWorkload,
     RemoveWorkload, caches, objects
<1>3. template' \in [Component -> SUBSET UID]
  BY <1>1, AtComponent, Parts DEF CreateWorkload, UpdateWorkload,
     KeepWorkload, RemoveWorkload
<1>4. /\ live' \in [Component -> Workload] /\ unseen' \subseteq Component
      /\ lingering' \subseteq Component
  <2>1. CASE CreateWorkload(c)
    <3>1. WorkloadFor(Owners(c), pass.cluster.version) \in Workload
      BY <1>1, AtComponent, WorkloadValues
    <3> DEFINE created == WorkloadFor(Owners(c), pass.cluster.version)
    <3>2. Changed(c, created) \/ UNCHANGED <<live, unseen>>
      BY <2>1 DEF CreateWorkload
    <3>3. lingering' = lingering
      BY <2>1 DEF CreateWorkload
    <3> HIDE DEF created
    <3> QED
      BY <3>1, <3>2, <3>3, ChangedTypes, Parts DEF created
  <2>2. CASE UpdateWorkload(c)
    <3>1. Changed(c, Updated(c)) \/ UNCHANGED <<live, unseen>>
      BY <2>2 DEF UpdateWorkload
    <3>2. lingering' = lingering
      BY <2>2 DEF UpdateWorkload
    <3> QED
      BY <3>1, <3>2, WorkloadValues, ChangedTypes, Parts
  <2>3. CASE KeepWorkload(c)
    BY <2>3, Parts DEF KeepWorkload, objects, workload
  <2>4. CASE RemoveWorkload(c)
    <3>1. Gone(c) \/ UNCHANGED workload
      BY <2>4 DEF RemoveWorkload
    <3> QED
      BY <3>1, WorkloadValues, ChangedTypes, Parts DEF workload
  <2> QED
    BY <2>1, <2>2, <2>3, <2>4
<1>5. Moves(c) /\ queued' \in BOOLEAN
  <2>1. CASE CreateWorkload(c)
    BY <2>1, Parts DEF CreateWorkload, ReturnError, Moves
  <2>2. CASE UpdateWorkload(c)
    <3>1. Report(c) \/ ReturnError
      BY <2>2 DEF UpdateWorkload
    <3> QED
      BY <3>1, ReportMoves, Parts DEF ReturnError, Moves
  <2>3. CASE KeepWorkload(c)
    BY <2>3, ReportMoves, Parts DEF KeepWorkload
  <2>4. CASE RemoveWorkload(c)
    BY <2>4, Parts DEF RemoveWorkload, UninstallFails, ReturnError, Moves
  <2> QED
    BY <2>1, <2>2, <2>3, <2>4
<1>6. faults' \in 0..MaxFaults
  BY Budgets, Parts DEF CreateWorkload, UpdateWorkload, KeepWorkload,
     RemoveWorkload
<1>7. PassOK(pass')
  BY <1>2, <1>5, MoveTypes
<1> HIDE DEF Component
<1> QED
  BY <1>2, <1>3, <1>4, <1>5, <1>6, <1>7, TypesOfParts, Parts

LEMMA CompanionCallTypes ==
    ASSUME Types, NEW c \in Component,
           EnsureService(c) \/ EnsureConfigMap(c) \/ RemoveCompanion(c)
    PROVE  Types'
<1>1. /\ UNCHANGED <<setting, cluster, live, lingering, unseen, seen,
                     companionSeen, template, disturbances>>
      /\ pass.at = c
  BY DEF EnsureService, EnsureConfigMap, RemoveCompanion, workload, caches, At
<1>2. \/ KeepCompanion
      \/ \E accepted, written :
            /\ written \in {"none", "wanted"}
            /\ WriteCompanion(c, accepted, written)
  <2>1. CASE EnsureService(c)
    BY <2>1 DEF EnsureService
  <2>2. CASE EnsureConfigMap(c)
    <3>1. companionSeen[c] \in {"none", "wanted", "changed"}
      BY Parts DEF Companions
    <3> QED
      BY <2>2, <3>1 DEF EnsureConfigMap
  <2>3. CASE RemoveCompanion(c)
    BY <2>3 DEF RemoveCompanion
  <2> QED
    BY <2>1, <2>2, <2>3
<1>3. /\ companion' \in Companions
      /\ Moves(c) /\ queued' \in BOOLEAN /\ faults' \in 0..MaxFaults
  <2>1. CASE KeepCompanion
    BY <2>1, Parts DEF KeepCompanion, Moves
  <2>2. ASSUME NEW accepted, NEW written \in {"none", "wanted"},
               WriteCompanion(c, accepted, written)
        PROVE  /\ companion' \in Companions
               /\ Moves(c) /\ queued' \in BOOLEAN /\ faults' \in 0..MaxFaults
    <3>1. [companion EXCEPT ![c] = written] \in Companions
      BY Parts DEF Companions
    <3>2. companion' \in {companion, [companion EXCEPT ![c] = written]}
      BY <2>2 DEF WriteCompanion
    <3>3. Moves(c) /\ queued' \in BOOLEAN
      BY <2>2, Parts DEF WriteCompanion, ReturnError, Moves
    <3>4. faults' \in 0..MaxFaults
      BY <2>2, Budgets, Parts DEF WriteCompanion
    <3> QED
      BY <3>1, <3>2, <3>3, <3>4, Parts
  <2> QED
    BY <1>2, <2>1, <2>2
<1>4. PassOK(pass')
  BY <1>1, <1>3, MoveTypes
<1> HIDE DEF Component
<1> QED
  BY <1>1, <1>3, <1>4, TypesOfParts, Parts

\* The two ends of a pass.
LEMMA PassEndsTypes ==
    ASSUME Types, StartReconcile \/ UpdateFinalStatus
    PROVE  Types'
<1>1. /\ UNCHANGED <<setting, live, lingering, unseen, companion, seen,
                     companionSeen, template, disturbances>>
  BY DEF StartReconcile, UpdateFinalStatus, objects, workload, caches
<1>2. faults' \in 0..MaxFaults /\ queued' \in BOOLEAN
  BY Budgets, Parts DEF StartReconcile, UpdateFinalStatus, ReturnError
<1>3. cluster' \in ClusterType /\ cluster'.uid \in UID
  <2>1. cluster' \in {cluster, [cluster EXCEPT !.health = pass.health]}
    BY DEF StartReconcile, UpdateFinalStatus
  <2>2. pass.health \in [Component -> Health]
    BY Parts DEF PassType
  <2> QED
    BY <2>1, <2>2, Parts DEF ClusterType
<1>4. PassOK(pass')
  <2>1. CASE pass' \in {pass, Idle}
    BY <2>1, IdleType, Parts
  <2>2. CASE pass' = [at |-> 1, step |-> 1, cluster |-> cluster,
                      health |-> cluster.health]
    <3>1. pass' \in PassType
      BY <2>2, Parts DEF PassType, ClusterType
    <3>2. /\ pass'.cluster.uid \in UID
          /\ pass'.step = 1
          /\ pass'.at \in Component => Len(CallsOf(pass', pass'.at)) \in {1, 2}
      BY <2>2, CallsLength, Parts
    <3>3. pass'.at \in Component
            => pass'.step \in 1..Len(CallsOf(pass', pass'.at))
      <4>1. 1 \in 1..1 /\ 1 \in 1..2
        OBVIOUS
      <4> QED
        BY <3>2, <4>1, Zenon
    <3> QED
      BY <3>1, <3>2, <3>3, Zenon DEF PassOK
  <2>3. pass' \in {pass, Idle}
        \/ pass' = [at |-> 1, step |-> 1, cluster |-> cluster,
                    health |-> cluster.health]
    BY DEF StartReconcile, UpdateFinalStatus, ReturnError
  <2> QED
    BY <2>1, <2>2, <2>3
<1> HIDE DEF Component
<1> QED
  BY <1>1, <1>2, <1>3, <1>4, TypesOfParts, Parts

LEMMA CrashTypes == ASSUME Types, Crash PROVE Types'
<1>1. /\ UNCHANGED <<setting, cluster, live, lingering, companion,
                     disturbances>>
      /\ seen' = live /\ companionSeen' = companion /\ unseen' = {}
      /\ queued' = TRUE /\ pass' = Idle
      /\ template' = [c \in Component |-> {}]
  BY DEF Crash
<1>2. faults' \in 0..MaxFaults
  BY Budgets DEF Crash
<1>3. template' \in [Component -> SUBSET UID]
  BY <1>1
<1>4. PassOK(pass')
  BY <1>1, IdleType, Parts
<1> HIDE DEF Component
<1> QED
  BY <1>1, <1>2, <1>3, <1>4, TypesOfParts, Parts

\* What the user does to the Cluster.
LEMMA UserTypes ==
    ASSUME Types, EditSpec \/ DeleteCluster \/ CreateCluster \/ Resync
    PROVE  Types'
<1>1. /\ UNCHANGED <<setting, live, lingering, unseen, companion, seen,
                     companionSeen, template, pass, faults>>
      /\ queued' = TRUE
  BY DEF EditSpec, DeleteCluster, CreateCluster, Resync, Disturbance,
     objects, workload, caches, Operator, External
<1>2. disturbances' \in 0..MaxDisturbances[chain]
  BY Budgets, Parts DEF EditSpec, DeleteCluster, CreateCluster, Resync,
     External
<1>3. cluster' \in ClusterType /\ cluster'.uid \in UID
  <2>1. ASSUME NEW uid \in UID, NEW spec \in Specs(uid)
        PROVE  spec \in ClusterType /\ spec.uid \in UID
    <3>1. NoHealth \in [Component -> Health]
      BY DEF NoHealth, Health
    <3>2. uid \in 0..MaxClusters
      BY MaintainersAssumption DEF UID
    <3>3. SUBSET {c \in Component : chain[c].removal # "never"}
            \subseteq SUBSET Component
      OBVIOUS
    <3> QED
      BY <3>1, <3>2, <3>3 DEF Specs, ClusterType
  <2>2. CASE EditSpec
    <3>1. PICK spec \in Specs(cluster.uid) :
              cluster' = [spec EXCEPT !.health = cluster.health]
      BY <2>2 DEF EditSpec
    <3>2. spec \in ClusterType /\ spec.uid \in UID
      BY <2>1, Parts
    <3> QED
      BY <3>1, <3>2, Parts DEF ClusterType
  <2>3. CASE DeleteCluster
    BY <2>3, Parts DEF DeleteCluster, ClusterType
  <2>4. CASE CreateCluster
    <3>1. cluster.uid + 1 \in UID
      BY <2>4, Parts, MaintainersAssumption DEF CreateCluster, UID
    <3> QED
      BY <2>1, <2>4, <3>1 DEF CreateCluster
  <2>5. CASE Resync
    BY <2>5, Parts DEF Resync, External
  <2> QED
    BY <2>2, <2>3, <2>4, <2>5
<1> HIDE DEF Component
<1> QED
  BY <1>1, <1>2, <1>3, TypesOfParts, Parts

\* What happens to the objects of a component, and what the caches see of it.
LEMMA ObjectTypes ==
    ASSUME Types, NEW c \in Component,
           \/ Disturb(c) \/ CollectGarbage(c) \/ PodsReady(c)
           \/ PodsCleaned(c) \/ ObserveWorkload(c) \/ ObserveCompanion(c)
    PROVE  Types'
<1>1. UNCHANGED <<setting, cluster, template, pass, faults>>
  BY DEF Disturb, CollectGarbage, PodsReady, PodsCleaned, ObserveWorkload,
     ObserveCompanion, Disturbance, External, Operator
<1>2. /\ disturbances' \in 0..MaxDisturbances[chain]
      /\ queued' \in BOOLEAN
  BY Budgets, Parts DEF Disturb, CollectGarbage, PodsReady, PodsCleaned,
     ObserveWorkload, ObserveCompanion, External
<1>3. /\ seen' \in [Component -> Workload] /\ companionSeen' \in Companions
      /\ companion' \in Companions
  <2>1. CASE Disturb(c)
    <3>1. UNCHANGED <<seen, companionSeen>>
      BY <2>1 DEF Disturb, Disturbance, caches
    <3>2. \/ companion' = companion
          \/ \E damage \in {"none", "changed"} :
                companion' = [companion EXCEPT ![c] = damage]
      BY <2>1 DEF Disturb
    <3> QED
      BY <3>1, <3>2, Parts DEF Companions
  <2>2. CASE CollectGarbage(c) \/ PodsReady(c) \/ PodsCleaned(c)
    BY <2>2, Parts DEF CollectGarbage, PodsReady, PodsCleaned, caches
  <2>3. CASE ObserveWorkload(c)
    BY <2>3, Parts DEF ObserveWorkload
  <2>4. CASE ObserveCompanion(c)
    BY <2>4, Parts DEF ObserveCompanion, objects, Companions
  <2> QED
    BY <2>1, <2>2, <2>3, <2>4
<1>4. /\ live' \in [Component -> Workload] /\ unseen' \subseteq Component
      /\ lingering' \subseteq Component
  <2>1. CASE Disturb(c)
    <3>1. CASE \/ Gone(c)
               \/ /\ UNCHANGED <<live, unseen>>
                  /\ lingering' \in {lingering, lingering \cup {c}}
      BY <3>1, WorkloadValues, ChangedTypes, Parts
    <3>2. CASE /\ lingering' = lingering
               /\ \E f \in chain[c].compared :
                      Changed(c, [live[c] EXCEPT !.fields[f] = "drifted"])
      <4>1. PICK f \in chain[c].compared :
                Changed(c, [live[c] EXCEPT !.fields[f] = "drifted"])
        BY <3>2
      <4>2. f \in Field
        BY Parts DEF Shape
      <4> QED
        BY <3>2, <4>1, <4>2, WorkloadValues, ChangedTypes, Parts
    <3>3. CASE /\ lingering' = lingering
               /\ Changed(c, [live[c] EXCEPT !.ready = FALSE])
      BY <3>3, WorkloadValues, ChangedTypes, Parts
    <3>4. \/ Gone(c)
          \/ /\ UNCHANGED <<live, unseen>>
             /\ lingering' \in {lingering, lingering \cup {c}}
          \/ /\ lingering' = lingering
             /\ \/ \E f \in chain[c].compared :
                      Changed(c, [live[c] EXCEPT !.fields[f] = "drifted"])
                \/ Changed(c, [live[c] EXCEPT !.ready = FALSE])
      BY <2>1, Zenon DEF Disturb, workload
    <3> QED
      BY <3>1, <3>2, <3>3, <3>4
  <2>2. CASE CollectGarbage(c)
    BY <2>2, WorkloadValues, ChangedTypes DEF CollectGarbage
  <2>3. CASE PodsReady(c)
    BY <2>3, WorkloadValues, ChangedTypes, Parts DEF PodsReady
  <2>4. CASE PodsCleaned(c) \/ ObserveWorkload(c) \/ ObserveCompanion(c)
    BY <2>4, Parts DEF PodsCleaned, ObserveWorkload, ObserveCompanion,
       objects, workload
  <2> QED
    BY <2>1, <2>2, <2>3, <2>4
<1> HIDE DEF Component
<1> QED
  BY <1>1, <1>2, <1>3, <1>4, TypesOfParts, Parts

LEMMA InitTypes == Init => Types
<1> SUFFICES ASSUME Init PROVE Types
  OBVIOUS
<1>1. chain \in Chains /\ foreign \subseteq Component
  BY DEF Init
<1>2. cluster \in ClusterType /\ cluster.uid \in UID
  <2>1. NoHealth \in [Component -> Health]
    BY DEF NoHealth, Health
  <2>2. 1 \in 0..MaxClusters /\ 1 \in UID
    BY MaintainersAssumption DEF UID
  <2> QED
    BY <2>1, <2>2 DEF Init, Specs, ClusterType
<1>3. live \in [Component -> Workload]
  <2>1. NoWorkload \in Workload
    BY DEF NoWorkload, Workload
  <2>2. \A version \in Version : WorkloadFor({}, version) \in Workload
    BY DEF WorkloadFor, Workload
  <2>3. PICK version \in Version :
            live = [c \in Component |->
                      IF c \in foreign THEN WorkloadFor({}, version)
                                       ELSE NoWorkload]
    BY DEF Init
  <2> QED
    BY <2>1, <2>2, <2>3
<1>4. companion \in Companions /\ companionSeen = companion /\ seen = live
  BY DEF Init, Companions
<1>5. template \in [Component -> SUBSET UID]
  BY DEF Init
<1>6. PassOK(pass) /\ pass \in PassType
  BY <1>1, IdleType DEF Init, PassOK
<1>7. /\ faults \in 0..MaxFaults /\ disturbances \in 0..MaxDisturbances[chain]
      /\ queued \in BOOLEAN /\ unseen = {} /\ lingering = {}
  BY <1>1, MaintainersAssumption DEF Init
<1> HIDE DEF Component
<1> QED
  BY <1>1, <1>2, <1>3, <1>4, <1>5, <1>6, <1>7 DEF Types, TypeOK, PassType

LEMMA TypesStep == Types /\ [Next]_vars => Types'
<1> SUFFICES ASSUME Types, [Next]_vars PROVE Types'
  OBVIOUS
<1>1. CASE UNCHANGED vars
  BY <1>1, TypesOfParts, Parts DEF vars, setting
<1>2. CASE Next
  BY <1>2, WorkloadCallTypes, CompanionCallTypes, PassEndsTypes, CrashTypes,
     UserTypes, ObjectTypes DEF Next, Reconcile, Environment
<1> QED
  BY <1>1, <1>2

\* The types of the variables.
THEOREM TypeCorrect == Spec => []TypeOK
<1>1. Types => TypeOK
  BY DEF Types
<1> QED
  BY <1>1, InitTypes, TypesStep, PTL DEF Spec

-----------------------------------------------------------------------------
(* Rest *)

Own == Component \ foreign

\* A pass is through with what it does to the workload of c.
Done(p, c) ==
    \/ c < p.at
    \/ c = p.at /\ p.step = 2 /\ CallsOf(p, c)[1] \in {"ensure", "remove"}

\* Settled, for a given workload, Cluster and health.
SettledAs(c, w, cl, health) ==
    IF c \in cl.disabled
    THEN \/ w = NoWorkload
         \/ chain[c].removal = "ifOwned" /\ w.owners = {}
    ELSE /\ w # NoWorkload
         /\ \A f \in chain[c].compared \cap chain[c].assigned :
                w.fields[f] = cl.version
         /\ chain[c].reports =>
                health[c] = IF w.ready THEN "Normal" ELSE "Abnormal"

\* The operator owns what it has not found there.
OwnedOrAbsent ==
    \A c \in Own : live[c] = NoWorkload \/ live[c].owners # {}

\* What the cache does not show is on the way.
CachesCurrent == \A c \in Own : c \notin unseen => seen[c] = live[c]

\* A pass for another Cluster than the present one is followed by another.
PassCurrent == pass.at # 0 /\ ~queued => pass.cluster = cluster

\* So is one that left a workload in another state than the Cluster's.
DoneSettled ==
    pass.at # 0 /\ ~queued =>
        \A c \in Own :
            c \notin unseen /\ chain[c].errorsReturned /\ Done(pass, c) =>
                SettledAs(c, live[c], pass.cluster, pass.health)

RestSettled ==
    pass.at = 0 /\ ~queued /\ cluster.exists =>
        \A c \in Own :
            c \notin unseen /\ chain[c].errorsReturned =>
                SettledAs(c, live[c], cluster, cluster.health)

RestInv ==
    OwnedOrAbsent /\ CachesCurrent /\ PassCurrent /\ DoneSettled /\ RestSettled

LEMMA RestSuffices == Types /\ RestInv => RestMeansSettled
<1> SUFFICES ASSUME Types, RestInv, AtRest,
                    NEW c \in Component \ foreign, chain[c].errorsReturned
             PROVE  Settled(c)
  BY DEF RestMeansSettled
<1>1. SettledAs(c, live[c], cluster, cluster.health)
  BY DEF RestInv, RestSettled, AtRest, Own
<1> QED
  BY <1>1 DEF SettledAs, Settled, Disabled

\* A workload the operator owns, and may see change, is on the way when it has
\* changed; no other workload is concerned.
LEMMA ChangeIsOnTheWay ==
    ASSUME Types, OwnedOrAbsent, NEW c \in Component, NEW w \in Workload,
           c \in Own => w = NoWorkload \/ w.owners # {}, Changed(c, w)
    PROVE  /\ live'[c] = w
           /\ \A d \in Component \ {c} : /\ live'[d] = live[d]
                                         /\ d \in unseen' <=> d \in unseen
           /\ \A d \in Own : /\ live'[d] = NoWorkload \/ live'[d].owners # {}
                             /\ d \notin unseen' => /\ d \notin unseen
                                                    /\ live'[d] = live[d]
<1>1. live' = [live EXCEPT ![c] = w] /\ live \in [Component -> Workload]
  BY Parts DEF Changed
<1>2. live'[c] = w /\ \A d \in Component \ {c} : live'[d] = live[d]
  BY <1>1
<1>3. \A d \in Component \ {c} : d \in unseen' <=> d \in unseen
  BY DEF Changed
<1>4. c \in Own => /\ live'[c] = NoWorkload \/ live'[c].owners # {}
                   /\ c \notin unseen' => c \notin unseen /\ live'[c] = live[c]
  <2> SUFFICES ASSUME c \in Own
               PROVE  c \notin unseen' => c \notin unseen /\ live'[c] = live[c]
    BY <1>2
  <2>1. CASE w = live[c]
    BY <1>2, <2>1 DEF Changed
  <2>2. CASE w # live[c]
    <3>1. w.owners \cup live[c].owners # {}
      BY <2>2 DEF OwnedOrAbsent
    <3> QED
      BY <2>2, <3>1 DEF Changed
  <2> QED
    BY <2>1, <2>2
<1>5. ASSUME NEW d \in Own \ {c}
      PROVE  /\ live'[d] = NoWorkload \/ live'[d].owners # {}
             /\ d \notin unseen' => d \notin unseen /\ live'[d] = live[d]
  BY <1>2, <1>3, <1>5 DEF OwnedOrAbsent, Own
<1> QED
  BY <1>2, <1>3, <1>4, <1>5

LEMMA GoneIsOnTheWay ==
    ASSUME Types, OwnedOrAbsent, NEW c \in Component, Gone(c)
    PROVE  /\ live'[c] = NoWorkload
           /\ \A d \in Component \ {c} : /\ live'[d] = live[d]
                                         /\ d \in unseen' <=> d \in unseen
           /\ \A d \in Own : /\ live'[d] = NoWorkload \/ live'[d].owners # {}
                             /\ d \notin unseen' => /\ d \notin unseen
                                                    /\ live'[d] = live[d]
<1>1. NoWorkload \in Workload /\ Changed(c, NoWorkload)
  BY WorkloadValues DEF Gone
<1> QED
  BY <1>1, ChangeIsOnTheWay

-----------------------------------------------------------------------------
(* What surrounds the operator *)

\* A step of the environment that the operator is told of keeps RestInv.
LEMMA ToldOf ==
    ASSUME Types, RestInv, UNCHANGED <<setting, pass>>,
           ~queued' => ~queued /\ cluster' = cluster,
           \A c \in Own :
               /\ live'[c] = NoWorkload \/ live'[c].owners # {}
               /\ c \notin unseen' => seen'[c] = live'[c]
               /\ ~queued' /\ c \notin unseen' => /\ c \notin unseen
                                                  /\ live'[c] = live[c]
    PROVE  RestInv'
<1>1. /\ chain' = chain /\ Own' = Own /\ pass' = pass
      /\ \A c : chain'[c] = chain[c]
  BY DEF setting, Own, Component
<1>2. \A c, w, cl, h : SettledAs(c, w, cl, h)' = SettledAs(c, w, cl, h)
  BY <1>1 DEF SettledAs, NoWorkload, Field
<1>3. \A c : Done(pass, c)' <=> Done(pass, c)
  BY <1>1, Zenon DEF Done, CallsOf
<1>4. OwnedOrAbsent' /\ CachesCurrent'
  BY <1>1 DEF OwnedOrAbsent, CachesCurrent
<1>5. PassCurrent'
  BY <1>1 DEF RestInv, PassCurrent
<1>6. DoneSettled'
  BY <1>1, <1>2, <1>3 DEF RestInv, DoneSettled
<1>7. RestSettled'
  BY <1>1, <1>2 DEF RestInv, RestSettled
<1> QED
  BY <1>4, <1>5, <1>6, <1>7 DEF RestInv

LEMMA UserRest ==
    ASSUME Types, RestInv,
           EditSpec \/ DeleteCluster \/ CreateCluster \/ Resync
    PROVE  RestInv'
<1>1. /\ UNCHANGED <<setting, live, unseen, seen, pass>>
      /\ queued' = TRUE
  BY DEF EditSpec, DeleteCluster, CreateCluster, Resync, Disturbance,
     objects, workload, caches, Operator, External
<1> QED
  BY <1>1, ToldOf DEF RestInv, OwnedOrAbsent, CachesCurrent

LEMMA ObjectRest ==
    ASSUME Types, RestInv, NEW c \in Component,
           \/ Disturb(c) \/ CollectGarbage(c) \/ PodsReady(c)
           \/ PodsCleaned(c) \/ ObserveCompanion(c)
    PROVE  RestInv'
<1>1. UNCHANGED <<setting, pass, cluster, seen, queued>>
  BY DEF Disturb, CollectGarbage, PodsReady, PodsCleaned, ObserveCompanion,
     Disturbance, External, Operator, caches
<1>2. \A d \in Own : /\ live'[d] = NoWorkload \/ live'[d].owners # {}
                     /\ d \notin unseen' => /\ d \notin unseen
                                            /\ live'[d] = live[d]
  <2>1. \/ UNCHANGED <<live, unseen>>
        \/ Gone(c)
        \/ /\ live[c].owners # {}
           /\ \/ \E f \in chain[c].compared :
                    Changed(c, [live[c] EXCEPT !.fields[f] = "drifted"])
              \/ Changed(c, [live[c] EXCEPT !.ready = FALSE])
        \/ /\ live[c] # NoWorkload
           /\ Changed(c, [live[c] EXCEPT !.ready = TRUE])
    BY Zenon DEF Disturb, CollectGarbage, PodsReady, PodsCleaned,
       ObserveCompanion, External, objects, workload
  <2>2. CASE UNCHANGED <<live, unseen>>
    BY <2>2 DEF RestInv, OwnedOrAbsent
  <2>3. CASE Gone(c)
    BY <2>3, GoneIsOnTheWay DEF RestInv
  <2>4. ASSUME NEW w \in Workload, w.owners = live[c].owners, Changed(c, w),
               live[c] # NoWorkload \/ live[c].owners # {}
        PROVE  \A d \in Own : /\ live'[d] = NoWorkload \/ live'[d].owners # {}
                              /\ d \notin unseen' => /\ d \notin unseen
                                                     /\ live'[d] = live[d]
    <3>1. c \in Own => w.owners # {}
      BY <2>4 DEF RestInv, OwnedOrAbsent
    <3> QED
      BY <2>4, <3>1, ChangeIsOnTheWay DEF RestInv
  <2>5. \A f \in chain[c].compared : f \in Field
    BY Parts DEF Shape
  <2> QED
    BY <2>1, <2>2, <2>3, <2>4, <2>5, WorkloadValues
<1> QED
  BY <1>1, <1>2, ToldOf DEF RestInv, CachesCurrent

\* The informer of the workloads shows one and queues its owner.
LEMMA ObserveRest ==
    ASSUME Types, RestInv, NEW c \in Component, ObserveWorkload(c)
    PROVE  RestInv'
<1>1. /\ UNCHANGED <<setting, pass, cluster, live>>
      /\ unseen' = unseen \ {c}
      /\ queued' = (queued \/ c \in unseen)
      /\ seen' = [seen EXCEPT ![c] = live[c]]
  BY DEF ObserveWorkload, External, Operator
<1>2. \A d \in Own : d \notin unseen' => seen'[d] = live'[d]
  BY <1>1, Parts DEF RestInv, CachesCurrent, Own
<1>3. \A d \in Own : ~queued' /\ d \notin unseen' => d \notin unseen
  BY <1>1
<1> QED
  BY <1>1, <1>2, <1>3, ToldOf DEF RestInv, OwnedOrAbsent

LEMMA CrashRest == ASSUME Types, RestInv, Crash PROVE RestInv'
<1>1. UNCHANGED <<setting, live>> /\ queued' = TRUE /\ seen' = live
  BY DEF Crash
<1>2. Own' = Own
  BY <1>1 DEF setting, Own, Component
<1> QED
  BY <1>1, <1>2 DEF RestInv, OwnedOrAbsent, CachesCurrent, PassCurrent,
     DoneSettled, RestSettled

-----------------------------------------------------------------------------
(* A pass *)

\* A pass that is not given up is at the next call or the next component.
LEMMA Advance ==
    ASSUME Types, NEW c \in Component, pass.at = c, Moves(c), pass' # Idle
    PROVE  /\ pass'.cluster = pass.cluster /\ pass'.at # 0
           /\ \A d \in Component \ {c} : pass'.health[d] = pass.health[d]
           /\ \A d \in Component \ {c} : Done(pass', d) => Done(pass, d)
           /\ pass.step = 2 => pass'.at = c + 1
           /\ \/ pass'.at = c /\ pass'.step = 2
              \/ pass'.at = c + 1 /\ pass'.step = 1
<1>1. /\ c \in Nat /\ c # 0 /\ Component = 1..Len(chain) /\ Len(chain) \in Nat
      /\ pass \in PassType
  BY Parts
<1>2. /\ NextComponent = [pass EXCEPT !.at = c + 1, !.step = 1]
      /\ NextCall \in {NextComponent, [pass EXCEPT !.step = 2]}
      /\ pass.step = 2 => NextCall = NextComponent
  BY PassGoesOn, Parts
<1>3. PICK q \in {NextComponent, NextCall} :
        \/ pass' = q
        \/ \E h \in Health : pass' = [q EXCEPT !.health[c] = h]
  BY DEF Moves
<1>4. /\ q.cluster = pass.cluster /\ q.health = pass.health
      /\ \/ q.at = c /\ q.step = 2 /\ pass.step # 2
         \/ q.at = c + 1 /\ q.step = 1
      /\ q \in [at: Nat, step: 1..2, cluster: ClusterType,
                health: [Component -> Health]]
  <2>1. CASE q = [pass EXCEPT !.at = c + 1, !.step = 1]
    <3>1. /\ q.at = c + 1 /\ q.step = 1
          /\ q.cluster = pass.cluster /\ q.health = pass.health
      BY <1>1, <2>1 DEF PassType
    <3>2. c + 1 \in Nat /\ 1 \in 1..2
      BY <1>1
    <3>3. q \in [at: Nat, step: 1..2, cluster: ClusterType,
                 health: [Component -> Health]]
      BY <1>1, <2>1, <3>2 DEF PassType
    <3> QED
      BY <3>1, <3>3
  <2>2. CASE q = [pass EXCEPT !.step = 2] /\ pass.step # 2
    <3>1. 0..(Len(chain) + 1) \subseteq Nat /\ 2 \in 1..2
      BY <1>1
    <3>2. /\ q.at = c /\ q.step = 2
          /\ q.cluster = pass.cluster /\ q.health = pass.health
      BY <1>1, <2>2 DEF PassType
    <3>3. q \in [at: Nat, step: 1..2, cluster: ClusterType,
                 health: [Component -> Health]]
      BY <1>1, <2>2, <3>1 DEF PassType
    <3> QED
      BY <2>2, <3>2, <3>3
  <2> QED
    BY <1>2, <1>3, <2>1, <2>2
<1>5. /\ pass'.cluster = pass.cluster
      /\ pass'.at = q.at /\ pass'.step = q.step
      /\ \A d \in Component \ {c} : pass'.health[d] = pass.health[d]
  <2>1. CASE pass' = q
    BY <1>4, <2>1
  <2>2. ASSUME NEW h \in Health, pass' = [q EXCEPT !.health[c] = h]
        PROVE  /\ pass'.cluster = pass.cluster
               /\ pass'.at = q.at /\ pass'.step = q.step
               /\ \A d \in Component \ {c} : pass'.health[d] = pass.health[d]
    BY <1>1, <1>4, <2>2 DEF PassType
  <2> QED
    BY <1>3, <2>1, <2>2
<1>6. ASSUME NEW d \in Component \ {c}, Done(pass', d)
      PROVE  Done(pass, d)
  <2>1. /\ d \in Nat
        /\ \/ d < pass'.at
           \/ d = pass'.at /\ pass'.step = 2
    BY <1>1, <1>6 DEF Done
  <2>2. d < c
    BY <1>1, <1>4, <1>5, <2>1
  <2> QED
    BY <2>2 DEF Done
<1> QED
  BY <1>1, <1>4, <1>5, <1>6

\* A call for c keeps RestInv if it keeps what RestInv says of c.
LEMMA CallKeepsRest ==
    ASSUME Types, RestInv, NEW c \in Component, pass.at = c,
           UNCHANGED <<setting, cluster, seen>>, Moves(c),
           pass' = Idle => queued', ~queued' => ~queued,
           \A d \in Component \ {c} : /\ live'[d] = live[d]
                                      /\ d \in unseen' <=> d \in unseen,
           \A d \in Own : /\ live'[d] = NoWorkload \/ live'[d].owners # {}
                          /\ d \notin unseen' => /\ d \notin unseen
                                                 /\ live'[d] = live[d],
           /\ c \in Own /\ c \notin unseen' /\ chain[c].errorsReturned
           /\ pass' # Idle /\ ~queued' /\ Done(pass', c)
           => SettledAs(c, live'[c], pass.cluster, pass'.health)
    PROVE  RestInv'
<1>1. /\ chain' = chain /\ Own' = Own /\ Own \subseteq Component
      /\ \A d : chain'[d] = chain[d]
  BY DEF setting, Own, Component
<1>2. \A d, w, cl, h : SettledAs(d, w, cl, h)' = SettledAs(d, w, cl, h)
  BY <1>1 DEF SettledAs, NoWorkload, Field
<1>3. \A d : Done(pass, d)' <=> Done(pass', d)
  BY <1>1, Zenon DEF Done, CallsOf
<1>4. OwnedOrAbsent' /\ CachesCurrent'
  BY <1>1 DEF RestInv, OwnedOrAbsent, CachesCurrent
<1>5. CASE pass' = Idle
  BY <1>1, <1>4, <1>5 DEF RestInv, PassCurrent, DoneSettled, RestSettled
<1>6. CASE pass' # Idle
  <2>1. /\ pass'.cluster = pass.cluster /\ pass'.at # 0
        /\ \A d \in Component \ {c} : pass'.health[d] = pass.health[d]
        /\ \A d \in Component \ {c} : Done(pass', d) => Done(pass, d)
    BY <1>6, Advance
  <2>2. pass.at # 0
    BY Parts
  <2>3. PassCurrent' /\ RestSettled'
    BY <2>1, <2>2 DEF RestInv, PassCurrent, RestSettled
  <2>4. ASSUME ~queued', NEW d \in Own, d \notin unseen',
               chain[d].errorsReturned, Done(pass', d)
        PROVE  SettledAs(d, live'[d], pass'.cluster, pass'.health)
    <3>1. CASE d = c
      BY <1>6, <2>1, <2>4, <3>1
    <3>2. CASE d # c
      <4>1. SettledAs(d, live[d], pass.cluster, pass.health)
        BY <1>1, <2>1, <2>2, <2>4, <3>2 DEF RestInv, DoneSettled
      <4>2. live'[d] = live[d] /\ pass'.health[d] = pass.health[d]
        BY <1>1, <2>1, <3>2
      <4> QED
        BY <2>1, <4>1, <4>2 DEF SettledAs
    <3> QED
      BY <3>1, <3>2
  <2>5. DoneSettled'
    BY <1>1, <1>2, <1>3, <2>4 DEF DoneSettled
  <2> QED
    BY <1>4, <2>3, <2>5 DEF RestInv
<1> QED
  BY <1>5, <1>6

\* What being at a call says of the pass.
LEMMA AtCalls ==
    ASSUME Types, NEW c \in Component, pass.at = c
    PROVE  /\ At(c, "ensure") =>
                 \/ c \notin pass.cluster.disabled
                 \/ chain[c].removal = "inEnsure" /\ Done(pass, c)
           /\ At(c, "remove") => c \in pass.cluster.disabled
           /\ At(c, "ensureService") \/ At(c, "removeCompanion")
                 => Done(pass, c)
           /\ At(c, "ensureConfigMap") =>
                 ~Done([pass EXCEPT !.step = 2], c)
                 /\ NextCall = [pass EXCEPT !.step = 2]
<1>1. pass.step \in 1..Len(CallsOf(pass, c))
  BY Parts DEF PassOK
<1>2. CallsFor(c) = CallsOf(pass, c)
  BY DEF CallsFor, CallsOf
<1>3. CASE CallsOf(pass, c) = <<"ensure">>
  <2>1. pass.step = 1 /\ <<"ensure">>[1] = "ensure"
    BY <1>1, <1>3
  <2> QED
    BY <1>2, <1>3, <2>1, CallKinds, Parts DEF At
<1>4. CASE CallsOf(pass, c) = <<"remove">>
  <2>1. pass.step = 1 /\ <<"remove">>[1] = "remove"
    BY <1>1, <1>4
  <2> QED
    BY <1>2, <1>4, <2>1, CallKinds, Parts DEF At
<1>5. ASSUME NEW a, NEW b, CallsOf(pass, c) = <<a, b>>
      PROVE  /\ pass.step \in {1, 2}
             /\ pass.step = 1 => CallsFor(c)[pass.step] = a
             /\ pass.step = 2 => CallsFor(c)[pass.step] = b
             /\ CallsOf(pass, c)[1] = a
             /\ pass.step = 1 => NextCall = [pass EXCEPT !.step = 2]
  <2>1. Len(<<a, b>>) = 2 /\ <<a, b>>[1] = a /\ <<a, b>>[2] = b
    OBVIOUS
  <2>2. pass.step \in {1, 2}
    BY <1>1, <1>5, <2>1
  <2>3. pass.step = 1 => NextCall = [pass EXCEPT !.step = 2]
    <3>1. pass.step = 1 => NextCall = [pass EXCEPT !.step = pass.step + 1]
      BY <1>2, <1>5, <2>1 DEF NextCall
    <3> QED
      BY <3>1
  <2> QED
    BY <1>2, <1>5, <2>1, <2>2, <2>3
<1>6. CASE CallsOf(pass, c) = <<"ensure", "ensureService">>
  BY <1>5, <1>6, CallKinds, Parts DEF At, Done
<1>7. CASE CallsOf(pass, c) = <<"ensureConfigMap", "ensure">>
  <2> DEFINE p == [pass EXCEPT !.step = 2]
  <2>1. p.at = c /\ p.cluster = pass.cluster /\ c \in Nat
    BY Parts DEF PassType
  <2> HIDE DEF p
  <2>2. CallsOf(p, c)[1] = "ensureConfigMap"
    BY <1>5, <1>7, <2>1 DEF CallsOf
  <2>3. ~Done(p, c)
    BY <2>1, <2>2 DEF Done
  <2>4. c \notin pass.cluster.disabled
    BY <1>5, <1>7, CallKinds, Parts
  <2> QED
    BY <1>5, <1>7, <2>3, <2>4 DEF At, p
<1>8. CASE CallsOf(pass, c) = <<"remove", "removeCompanion">>
  <2>1. c \in pass.cluster.disabled
    BY <1>5, <1>8, CallKinds, Parts
  <2> QED
    BY <1>5, <1>8, <2>1 DEF At, Done
<1>9. CASE /\ CallsOf(pass, c) = <<"remove", "ensure">>
           /\ chain[c].removal = "inEnsure"
  <2>1. c \in pass.cluster.disabled
    BY <1>5, <1>9, CallKinds, Parts
  <2> QED
    BY <1>5, <1>9, <2>1 DEF At, Done
<1> QED
  BY <1>3, <1>4, <1>6, <1>7, <1>8, <1>9, CallKinds, Parts

\* A call for c that leaves the workloads and the health alone.
LEMMA LeavesWorkload ==
    ASSUME Types, RestInv, NEW c \in Component, pass.at = c,
           UNCHANGED <<setting, cluster, seen, live, unseen>>, Moves(c),
           pass' = Idle => queued', ~queued' => ~queued,
           /\ c \in Own /\ c \notin unseen /\ chain[c].errorsReturned
           /\ pass' # Idle /\ ~queued' /\ Done(pass', c)
           => SettledAs(c, live[c], pass.cluster, pass'.health)
    PROVE  RestInv'
BY CallKeepsRest DEF RestInv, OwnedOrAbsent

\* What the cache shows of a workload of which nothing is on the way.
LEMMA SeenIsLive ==
    ASSUME RestInv, NEW c \in Own, c \notin unseen
    PROVE  seen[c] = live[c]
BY DEF RestInv, CachesCurrent

\* What the maintainer was through with stays settled.
LEMMA StaysSettled ==
    ASSUME Types, RestInv, NEW c \in Own, pass.at = c, ~queued,
           c \notin unseen, chain[c].errorsReturned, Done(pass, c)
    PROVE  SettledAs(c, live[c], pass.cluster, pass.health)
BY Parts DEF RestInv, DoneSettled, Own

\* A report says what the cache shows; without one an error ends the pass.
LEMMA ReportRest ==
    ASSUME Types, NEW c \in Component, pass.at = c, Report(c)
    PROVE  /\ Moves(c) /\ (pass' = Idle => queued') /\ (~queued' => ~queued)
           /\ ~queued' /\ chain[c].reports =>
                 pass'.health[c] = IF seen[c].ready THEN "Normal"
                                                    ELSE "Abnormal"
<1>1. CASE ReturnError
  BY <1>1 DEF ReturnError, Moves
<1>2. CASE ~ReturnError
  <2>1. /\ pass' = IF chain[c].reports
                   THEN [NextCall EXCEPT !.health[c] =
                           IF seen[c].ready THEN "Normal" ELSE "Abnormal"]
                   ELSE NextCall
        /\ queued' = queued
    BY <1>2 DEF Report
  <2>2. NextCall \in PassType /\ NextCall.at # 0
    <3>1. PassOK(NextCall)
      BY PassGoesOn, Parts
    <3>2. NextCall \in {NextComponent, [pass EXCEPT !.step = 2]}
          /\ NextComponent = [pass EXCEPT !.at = c + 1, !.step = 1]
      BY PassGoesOn, Parts
    <3>3. c + 1 # 0 /\ c # 0
      BY Parts
    <3> QED
      BY <3>1, <3>2, <3>3, Parts DEF PassOK, PassType
  <2>3. pass' # Idle
    BY <2>1, <2>2 DEF Idle, PassType
  <2>4. chain[c].reports =>
           pass'.health[c] = IF seen[c].ready THEN "Normal" ELSE "Abnormal"
    BY <2>1, <2>2 DEF PassType
  <2>5. Moves(c)
    BY <2>1 DEF Moves, Health
  <2> QED
    BY <2>1, <2>3, <2>4, <2>5
<1> QED
  BY <1>1, <1>2

LEMMA NextNotIdle ==
    ASSUME Types, NEW c \in Component, pass.at = c
    PROVE  NextCall # Idle /\ NextComponent # Idle
<1>1. /\ NextComponent = [pass EXCEPT !.at = c + 1, !.step = 1]
      /\ NextCall \in {NextComponent, [pass EXCEPT !.step = 2]}
  BY PassGoesOn, Parts
<1>2. c + 1 # 0 /\ c # 0 /\ Idle.at = 0
  BY Parts DEF Idle
<1>3. NextComponent.at = c + 1 /\ [pass EXCEPT !.step = 2].at = c
  BY <1>1, Parts DEF PassType
<1> QED
  BY <1>1, <1>2, <1>3

\* A workload that is there, and of which nothing is on the way, is ensured for
\* a component that is not disabled.
LEMMA EnsureWanted ==
    ASSUME Types, RestInv, NEW c \in Own, At(c, "ensure"), pass.at = c,
           ~queued, c \notin unseen, chain[c].errorsReturned,
           live[c] # NoWorkload
    PROVE  c \notin pass.cluster.disabled
<1> SUFFICES ASSUME c \in pass.cluster.disabled PROVE FALSE
  OBVIOUS
<1>1. c \in Component
  BY DEF Own
<1>2. chain[c].removal = "inEnsure" /\ Done(pass, c)
  BY <1>1, AtCalls
<1>3. SettledAs(c, live[c], pass.cluster, pass.health)
  BY <1>2, StaysSettled
<1> QED
  BY <1>2, <1>3 DEF SettledAs

LEMMA CreateRest ==
    ASSUME Types, RestInv, NEW c \in Component, CreateWorkload(c)
    PROVE  RestInv'
<1> DEFINE created == WorkloadFor(Owners(c), pass.cluster.version)
<1>1. /\ UNCHANGED <<setting, cluster, seen>> /\ pass.at = c
      /\ At(c, "ensure") /\ seen[c] = NoWorkload
  BY DEF CreateWorkload, caches, At
<1>2. created \in Workload /\ created.owners # {} /\ created # NoWorkload
  <2>1. Owners(c) \in SUBSET UID /\ Owners(c) # {}
    BY <1>1, AtComponent DEF Owners
  <2>2. created \in Workload
    BY <1>1, <2>1, AtComponent, WorkloadValues
  <2>3. created.owners = Owners(c) /\ NoWorkload.owners = {}
    BY DEF WorkloadFor, NoWorkload
  <2> QED
    BY <2>1, <2>2, <2>3
<1>3. \/ /\ live[c] = NoWorkload /\ Changed(c, created)
         /\ \/ ReturnError
            \/ pass' = NextCall /\ queued' = queued
      \/ /\ UNCHANGED <<live, unseen>>
         /\ ReturnError
  BY DEF CreateWorkload
<1> HIDE DEF created
<1>4. Moves(c) /\ (~queued' => ~queued)
  BY <1>3 DEF ReturnError, Moves
<1>5. pass' = Idle => queued'
  <2>1. NextCall # Idle
    BY <1>1, NextNotIdle
  <2> QED
    BY <1>3, <2>1 DEF ReturnError
<1>6. CASE live[c] = NoWorkload /\ Changed(c, created)
  <2>1. c \in unseen'
    BY <1>2, <1>6 DEF Changed
  <2> HIDE DEF Component
  <2> QED
    BY <1>1, <1>2, <1>4, <1>5, <1>6, <2>1, ChangeIsOnTheWay, CallKeepsRest
    DEF RestInv
<1>7. CASE UNCHANGED <<live, unseen>> /\ ReturnError
  BY <1>1, <1>4, <1>5, <1>7, LeavesWorkload DEF ReturnError
<1> QED
  BY <1>3, <1>6, <1>7

LEMMA UpdateRest ==
    ASSUME Types, RestInv, NEW c \in Component, UpdateWorkload(c)
    PROVE  RestInv'
<1>1. /\ UNCHANGED <<setting, cluster, seen>> /\ pass.at = c
      /\ At(c, "ensure") /\ seen[c] # NoWorkload
  BY DEF UpdateWorkload, caches, At
<1>2. /\ Report(c) \/ ReturnError
      /\ \/ live[c] = seen[c] /\ Changed(c, Updated(c))
         \/ UNCHANGED <<live, unseen>> /\ ReturnError
  BY DEF UpdateWorkload
<1>3. Moves(c) /\ (~queued' => ~queued) /\ (pass' = Idle => queued')
  BY <1>1, <1>2, ReportRest DEF ReturnError, Moves
<1>4. CASE live[c] = seen[c] /\ Changed(c, Updated(c))
  <2>1. c \in Own => live[c].owners # {}
    BY <1>1, <1>4 DEF RestInv, OwnedOrAbsent
  <2>2. Updated(c) \in Workload /\ Updated(c).owners = live[c].owners
    BY WorkloadValues
  <2>3. ASSUME c \in Own, c \notin unseen', chain[c].errorsReturned,
               pass' # Idle, ~queued', Done(pass', c)
        PROVE  SettledAs(c, live'[c], pass.cluster, pass'.health)
    <3>1. /\ c \notin unseen /\ live'[c] = live[c] /\ Updated(c) = live[c]
      BY <1>4, <2>1, <2>2, <2>3, ChangeIsOnTheWay DEF RestInv, Changed
    <3>2. c \notin pass.cluster.disabled
      BY <1>1, <1>3, <1>4, <2>3, <3>1, EnsureWanted
    <3>3. \A f \in chain[c].assigned \cap Field :
             live[c].fields[f] = pass.cluster.version
      <4> DEFINE fields == [f \in Field |-> IF f \in chain[c].assigned
                                            THEN pass.cluster.version
                                            ELSE live[c].fields[f]]
      <4>1. live[c] \in Workload
        BY Parts
      <4>2. Updated(c).fields = fields
        BY <4>1 DEF Updated, Workload
      <4> QED
        BY <3>1, <4>2
    <3>4. chain[c].assigned \subseteq Field
      BY Parts DEF Shape
    <3>5. Report(c)
      BY <1>2, <2>3 DEF ReturnError
    <3>6. chain[c].reports =>
             pass'.health[c] = IF live[c].ready THEN "Normal" ELSE "Abnormal"
      BY <1>1, <1>4, <2>3, <3>5, ReportRest
    <3> QED
      BY <1>1, <1>4, <3>1, <3>2, <3>3, <3>4, <3>6 DEF SettledAs
  <2> HIDE DEF Component
  <2> QED
    BY <1>1, <1>3, <1>4, <2>1, <2>2, <2>3, ChangeIsOnTheWay, CallKeepsRest
    DEF RestInv
<1>5. CASE UNCHANGED <<live, unseen>> /\ ReturnError
  BY <1>1, <1>3, <1>5, LeavesWorkload DEF ReturnError
<1> QED
  BY <1>2, <1>4, <1>5

LEMMA KeepRest ==
    ASSUME Types, RestInv, NEW c \in Component, KeepWorkload(c)
    PROVE  RestInv'
<1>1. /\ UNCHANGED <<setting, cluster, seen, live, unseen>> /\ pass.at = c
      /\ At(c, "ensure") /\ seen[c] # NoWorkload /\ ~Differs(c)
      /\ Report(c)
  BY DEF KeepWorkload, caches, objects, workload, At
<1>2. Moves(c) /\ (~queued' => ~queued) /\ (pass' = Idle => queued')
  BY <1>1, ReportRest
<1>3. ASSUME c \in Own, c \notin unseen, chain[c].errorsReturned,
             pass' # Idle, ~queued', Done(pass', c)
      PROVE  SettledAs(c, live[c], pass.cluster, pass'.health)
  <2>1. seen[c] = live[c]
    BY <1>3, SeenIsLive
  <2>2. c \notin pass.cluster.disabled
    BY <1>1, <1>2, <1>3, <2>1, EnsureWanted
  <2>3. \A f \in chain[c].compared : live[c].fields[f] = pass.cluster.version
    BY <1>1, <2>1 DEF Differs
  <2>4. chain[c].reports =>
           pass'.health[c] = IF live[c].ready THEN "Normal" ELSE "Abnormal"
    BY <1>1, <1>3, <2>1, ReportRest
  <2> QED
    BY <1>1, <2>1, <2>2, <2>3, <2>4 DEF SettledAs
<1> QED
  BY <1>1, <1>2, <1>3, LeavesWorkload

LEMMA RemoveRest ==
    ASSUME Types, RestInv, NEW c \in Component, RemoveWorkload(c)
    PROVE  RestInv'
<1>1. /\ UNCHANGED <<setting, cluster, seen>> /\ pass.at = c
      /\ At(c, "remove") /\ c \in pass.cluster.disabled
  BY AtCalls DEF RemoveWorkload, caches, At
<1>2. \/ /\ UNCHANGED workload
         /\ \/ /\ seen[c] = NoWorkload \/ ~MayRemove(c)
               /\ queued' = queued /\ pass' \in {NextCall, NextComponent}
            \/ UninstallFails(c)
      \/ /\ Gone(c)
         /\ \/ queued' = queued /\ pass' = NextCall
            \/ UninstallFails(c)
  BY DEF RemoveWorkload
<1>3. UninstallFails(c) => \/ ReturnError
                           \/ /\ ~chain[c].errorsReturned
                              /\ pass' = NextCall /\ queued' = queued
  BY DEF UninstallFails
<1>4. Moves(c) /\ (~queued' => ~queued) /\ (pass' = Idle => queued')
  <2>1. NextCall # Idle /\ NextComponent # Idle
    BY <1>1, NextNotIdle
  <2> QED
    BY <1>2, <1>3, <2>1 DEF ReturnError, Moves
<1>5. CASE Gone(c)
  <2>1. SettledAs(c, live'[c], pass.cluster, pass'.health)
    BY <1>1, <1>5, GoneIsOnTheWay DEF SettledAs, RestInv
  <2> HIDE DEF Component
  <2> QED
    BY <1>1, <1>4, <1>5, <2>1, GoneIsOnTheWay, CallKeepsRest DEF RestInv
<1>6. CASE UNCHANGED workload
  <2>1. UNCHANGED <<live, unseen>>
    BY <1>6 DEF workload
  <2>2. ASSUME c \in Own, c \notin unseen, chain[c].errorsReturned,
               pass' # Idle, ~queued', ~Gone(c)
        PROVE  SettledAs(c, live[c], pass.cluster, pass'.health)
    <3>1. seen[c] = NoWorkload \/ ~MayRemove(c)
      BY <1>2, <1>3, <2>2 DEF ReturnError
    <3>2. seen[c] = live[c]
      BY <2>2, SeenIsLive
    <3> QED
      BY <1>1, <3>1, <3>2 DEF SettledAs, MayRemove
  <2> QED
    BY <1>1, <1>4, <1>5, <2>1, <2>2, LeavesWorkload
<1> QED
  BY <1>2, <1>5, <1>6

LEMMA CompanionRest ==
    ASSUME Types, RestInv, NEW c \in Component,
           EnsureService(c) \/ EnsureConfigMap(c) \/ RemoveCompanion(c)
    PROVE  RestInv'
<1>1. /\ UNCHANGED <<setting, cluster, seen, live, unseen>> /\ pass.at = c
      /\ \/ At(c, "ensureService") \/ At(c, "removeCompanion")
         \/ At(c, "ensureConfigMap")
  BY DEF EnsureService, EnsureConfigMap, RemoveCompanion, workload, caches, At
<1>2. \/ ReturnError
      \/ pass' = NextCall /\ queued' = queued
  <2>1. KeepCompanion \/ \E accepted, written :
                            WriteCompanion(c, accepted, written)
    <3>1. companionSeen[c] \in {"none", "wanted", "changed"}
      BY Parts DEF Companions
    <3> QED
      BY <3>1 DEF EnsureService, EnsureConfigMap, RemoveCompanion
  <2> QED
    BY <2>1 DEF WriteCompanion, KeepCompanion
<1>3. Moves(c) /\ (~queued' => ~queued) /\ (pass' = Idle => queued')
  <2>1. NextCall # Idle
    BY <1>1, NextNotIdle
  <2> QED
    BY <1>2, <2>1 DEF ReturnError, Moves
<1>4. ASSUME c \in Own, c \notin unseen, chain[c].errorsReturned,
             ~queued', Done(pass', c)
      PROVE  SettledAs(c, live[c], pass.cluster, pass'.health)
  <2>1. pass' = NextCall /\ ~queued
    BY <1>2, <1>4 DEF ReturnError
  <2>2. Done(pass, c)
    BY <1>1, <1>4, <2>1, AtCalls
  <2>3. SettledAs(c, live[c], pass.cluster, pass.health)
    BY <1>1, <1>4, <2>1, <2>2, StaysSettled
  <2>4. pass'.health = pass.health
    <3>1. NextCall \in {[pass EXCEPT !.at = c + 1, !.step = 1],
                        [pass EXCEPT !.step = 2]}
      BY <1>1, PassGoesOn, Parts
    <3> QED
      BY <2>1, <3>1, Parts DEF PassType
  <2> QED
    BY <2>3, <2>4
<1> QED
  BY <1>1, <1>3, <1>4, LeavesWorkload

LEMMA PassEndsRest ==
    ASSUME Types, RestInv, StartReconcile \/ UpdateFinalStatus
    PROVE  RestInv'
<1>1. /\ UNCHANGED <<setting, live, unseen, seen>>
  BY DEF StartReconcile, UpdateFinalStatus, objects, workload, caches
<1>2. /\ chain' = chain /\ Own' = Own /\ Own \subseteq Component
      /\ \A c : chain'[c] = chain[c]
  BY <1>1 DEF setting, Own, Component
<1>3. \A c, w, cl, h : SettledAs(c, w, cl, h)' = SettledAs(c, w, cl, h)
  BY <1>2 DEF SettledAs, NoWorkload, Field
<1>4. OwnedOrAbsent' /\ CachesCurrent'
  BY <1>1, <1>2 DEF RestInv, OwnedOrAbsent, CachesCurrent
<1>5. CASE queued' /\ pass' = Idle
  BY <1>4, <1>5 DEF RestInv, PassCurrent, DoneSettled, RestSettled
<1>6. CASE StartReconcile /\ cluster.exists
  <2>1. /\ pass' = [at |-> 1, step |-> 1, cluster |-> cluster,
                    health |-> cluster.health]
        /\ cluster' = cluster
    BY <1>6 DEF StartReconcile
  <2>2. \A c \in Own : ~Done(pass', c)
    <3>1. \A c \in Own : c \in 1..Len(chain) /\ Len(chain) \in Nat
      BY <1>2, Parts
    <3> QED
      BY <2>1, <3>1 DEF Done
  <2>3. \A c : Done(pass, c)' <=> Done(pass', c)
    BY <1>2, Zenon DEF Done, CallsOf
  <2> QED
    BY <1>2, <1>4, <2>1, <2>2, <2>3 DEF RestInv, PassCurrent, DoneSettled,
       RestSettled
<1>7. CASE StartReconcile /\ ~cluster.exists
  <2>1. pass' = pass /\ pass.at = 0 /\ cluster' = cluster
    BY <1>7 DEF StartReconcile
  <2> QED
    BY <1>4, <1>7, <2>1 DEF RestInv, PassCurrent, DoneSettled, RestSettled
<1>8. CASE /\ UpdateFinalStatus /\ pass.health = pass.cluster.health
           /\ pass' = Idle /\ UNCHANGED <<cluster, queued>>
  <2>1. pass'.at = 0 /\ pass.at = Len(chain) + 1
    BY <1>8 DEF Idle, UpdateFinalStatus
  <2>2. ASSUME ~queued, NEW c \in Own, c \notin unseen,
               chain[c].errorsReturned
        PROVE  SettledAs(c, live[c], cluster, cluster.health)
    <3>1. pass.at # 0 /\ Done(pass, c)
      BY <1>2, <2>1, Parts DEF Done
    <3> QED
      BY <1>8, <2>2, <3>1 DEF RestInv, DoneSettled, PassCurrent
  <2> QED
    BY <1>1, <1>2, <1>3, <1>4, <1>8, <2>1, <2>2
    DEF RestInv, PassCurrent, DoneSettled, RestSettled
<1> QED
  BY <1>5, <1>6, <1>7, <1>8 DEF StartReconcile, UpdateFinalStatus, ReturnError

LEMMA InitRest == Init => RestInv
<1> SUFFICES ASSUME Init PROVE RestInv
  OBVIOUS
<1>1. \A c \in Own : live[c] = NoWorkload
  BY DEF Init, Own
<1> QED
  BY <1>1 DEF Init, RestInv, OwnedOrAbsent, CachesCurrent, PassCurrent,
     DoneSettled, RestSettled

LEMMA RestStep == Types /\ RestInv /\ [Next]_vars => RestInv'
<1> SUFFICES ASSUME Types, RestInv, [Next]_vars PROVE RestInv'
  OBVIOUS
<1>1. CASE UNCHANGED vars
  BY <1>1, ToldOf DEF vars, setting, RestInv, OwnedOrAbsent, CachesCurrent
<1>2. CASE Next
  BY <1>2, CreateRest, UpdateRest, KeepRest, RemoveRest, CompanionRest,
     PassEndsRest, CrashRest, UserRest, ObjectRest, ObserveRest
  DEF Next, Reconcile, Environment
<1> QED
  BY <1>1, <1>2

\* When the operator rests the workloads it owns are settled, whatever was
\* changed, refused, lost or read stale before.
THEOREM RestIsSettled == Spec => []RestMeansSettled
<1>1. Init => Types /\ RestInv
  BY InitTypes, InitRest
<1>2. Types /\ RestInv /\ [Next]_vars => Types' /\ RestInv'
  BY TypesStep, RestStep
<1> QED
  BY <1>1, <1>2, RestSuffices, PTL DEF Spec

=============================================================================
