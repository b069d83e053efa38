----------------------------- MODULE DrbdInstall -----------------------------
(***************************************************************************)
(* The installation of DRBD by one job per node                            *)
(* (pkg/install/drbd/drbd_adapter.go and the job handlers of               *)
(* controllers/cluster_controller.go).  The Reconcile worker creates the   *)
(* jobs of all nodes, or deletes them when DRBD is disabled; the handlers  *)
(* of the job informer record that all jobs have completed and create a    *)
(* job again that was deleted.  The worker and the handlers run            *)
(* concurrently, with the package variables of the adapter between them.   *)
(*                                                                         *)
(* Simplifications.                                                        *)
(*  - The jobs of a node are counted, not named: the name holds the second *)
(*    of its creation, so that a second job of a node is refused only if   *)
(*    it comes within the second of the first; that refusal is a fault.    *)
(*  - Of the package variables deployOnMaster is kept, which the handlers  *)
(*    read without setting it first, and of the others (the namespace of   *)
(*    the jobs, the affinity, the images) the section that set them last.  *)
(*  - A Cluster has its targetNamespace written in it.                     *)
(*  - Node are the nodes with a distribution that is supported.            *)
(*  - The informer delivers the events of different jobs in any order, and *)
(*    several completions as one.                                          *)
(*  - The rest of Reconcile is a pass that may fail before or after.       *)
(***************************************************************************)
EXTENDS Naturals, FiniteSets

CONSTANTS
    Node,         \* the nodes with a supported distribution
    Master,       \* those that carry a master or control-plane label
    DrbdSpecs,    \* the drbd sections a user may write
    InHwameistor, \* is the target namespace "hwameistor"?
    MaxFaults,    \* bound: failed calls and crashes
    MaxEdits,     \* bound: edits of the spec by the user
    MaxDeletes    \* bound: jobs the user deletes

\* section: is drbd absent from the spec, or without its nested sections, or
\* complete, with useAffinity "yes" or without?
FullSpec == [section: {"none", "partial", "affinity", "full"},
             disable: BOOLEAN, onMaster: BOOLEAN]

ASSUME DrbdAssumption ==
    /\ IsFiniteSet(Node)
    /\ Master \subseteq Node
    /\ DrbdSpecs \subseteq FullSpec
    /\ \A spec \in DrbdSpecs :
          spec.section = "none" => ~spec.disable /\ ~spec.onMaster
    /\ InHwameistor \in BOOLEAN
    /\ MaxFaults \in Nat /\ MaxEdits \in Nat /\ MaxDeletes \in Nat

VARIABLES
    cluster,        \* spec and status of the Cluster in the API server
    current,        \* the clients holding its current resourceVersion
    jobs,           \* the jobs of each node: running, complete, failed
    events,         \* of jobs, undelivered: a completion, deletions per node
    queued,         \* is the Cluster in the controller's workqueue?
    deployOnMaster, \* the package variable
    configs,        \* the section that set the other package variables
    worker,         \* where the Reconcile worker is, and its locals
    handler,        \* the same of the goroutine that calls the job handlers
    faults, edits, deletes,
    installed,      \* history: the nodes on which a job has completed
    twice,          \* history: the nodes that had two jobs at a time
    restarted       \* history: has the process restarted?

vars == <<cluster, current, jobs, events, queued, deployOnMaster, configs,
          worker, handler, faults, edits, deletes, installed, twice, restarted>>

history == <<installed, twice, restarted>>

-----------------------------------------------------------------------------
(* Data *)

Status == [created: BOOLEAN, jobNum: Nat]

Jobs == [running: Nat, complete: Nat, failed: Nat]

NewStatus == [created |-> FALSE, jobNum |-> 0]

NoJobs == [running |-> 0, complete |-> 0, failed |-> 0]

NoEvents == [completed |-> FALSE, deleted |-> [n \in Node |-> 0]]

NoSpec == [section |-> "full", disable |-> FALSE, onMaster |-> FALSE]

IdleWorker == [at |-> "idle", spec |-> NoSpec, read |-> NewStatus,
               status |-> NewStatus, left |-> {}]

IdleHandler == [at |-> "idle", jobCount |-> 0, status |-> NewStatus,
                recreate |-> {}]

JobsOf(n) == jobs[n].running + jobs[n].complete + jobs[n].failed

\* GetDistro: the nodes that need an installation, as far as the package
\* variable says.
NeedInstall == IF deployOnMaster THEN Node ELSE Node \ Master

\* The jobs of all nodes together, where number[n] are those of n.
Total(number) == Cardinality(UNION {{n} \X (1..number[n]) : n \in Node})

\* Mutant: failed jobs count as well.
FinishedJobs ==
    IF InHwameistor
    THEN Total([n \in Node |-> jobs[n].complete + jobs[n].failed])
    ELSE 0

\* handleDrbdJobUpdate lists the jobs of the namespace "hwameistor", whatever
\* the target namespace is.
CompletedJobs ==
    IF InHwameistor THEN Total([n \in Node |-> jobs[n].complete]) ELSE 0

Init ==
    /\ \E spec \in DrbdSpecs : cluster = [spec |-> spec, status |-> NewStatus]
    /\ current = {}
    /\ jobs = [n \in Node |-> NoJobs]
    /\ events = NoEvents
    /\ queued = TRUE
    /\ deployOnMaster = FALSE
    /\ configs = "none"
    /\ worker = IdleWorker
    /\ handler = IdleHandler
    /\ faults = 0 /\ edits = 0 /\ deletes = 0
    /\ installed = {} /\ twice = {} /\ restarted = FALSE

-----------------------------------------------------------------------------
(* Calls to the API server *)

Fault == faults < MaxFaults /\ faults' = faults + 1

\* The worker or the handler writes a whole status.  A change makes the
\* other's copy stale and queues the Cluster.
StatusUpdated(client, status) ==
    /\ cluster' = [cluster EXCEPT !.status = status]
    /\ current' = IF status = cluster.status THEN current ELSE {client}
    /\ queued' = (queued \/ status # cluster.status)

\* A job is created for n; its owner, the Cluster, is queued.
JobCreated(n) ==
    /\ jobs' = [jobs EXCEPT ![n].running = @ + 1]
    /\ twice' = IF JobsOf(n) > 0 THEN twice \cup {n} ELSE twice
    /\ queued' = TRUE

\* The jobs of the nodes of a set are deleted; every one is an event.
JobsDeleted(nodes) ==
    /\ jobs' = [n \in Node |-> IF n \in nodes THEN NoJobs ELSE jobs[n]]
    /\ events' = [events EXCEPT !.deleted =
                    [n \in Node |-> IF n \in nodes THEN @[n] + JobsOf(n)
                                                   ELSE @[n]]]

ReturnError ==
    /\ worker' = IdleWorker
    /\ queued' = TRUE

-----------------------------------------------------------------------------
(* The process *)

\* A new process finds the jobs that are left: those that are complete are
\* delivered as created.  Deletions it has missed are not delivered.
Restart ==
    /\ worker' = IdleWorker
    /\ handler' = IdleHandler
    /\ deployOnMaster' = FALSE
    /\ configs' = "none"
    /\ queued' = TRUE
    /\ current' = {}
    /\ events' = [NoEvents EXCEPT !.completed =
                    \E n \in Node : jobs[n].complete > 0]
    /\ restarted' = TRUE

Crash ==
    /\ Fault
    /\ Restart
    /\ UNCHANGED <<cluster, jobs, edits, deletes, installed, twice>>

\* A nil pointer is dereferenced: nobody recovers, the process ends.
Panic ==
    /\ Restart
    /\ UNCHANGED <<cluster, jobs, faults, edits, deletes, installed, twice>>

-----------------------------------------------------------------------------
(* The Reconcile worker.  It fills in a copy of the Cluster, but hands the  *)
(* stored one on to the adapter.                                            *)

StartReconcile ==
    /\ worker.at = "idle" /\ queued
    /\ \/ /\ queued' = FALSE
          /\ worker' = [IdleWorker EXCEPT !.at = "drbd",
                                          !.spec = cluster.spec,
                                          !.read = cluster.status,
                                          !.status = cluster.status]
          /\ current' = current \cup {"worker"}
          /\ UNCHANGED faults
       \/ /\ Fault
          /\ UNCHANGED <<queued, worker, current>>
    /\ UNCHANGED <<cluster, jobs, events, deployOnMaster, configs, handler,
                   edits, deletes, history>>

\* The package variables are set from the section, deployOnMaster only ever to
\* true.  Without a section they stay as they are.
HandelDRBDConfigs(spec) ==
    /\ deployOnMaster' = (deployOnMaster \/ spec.onMaster)
    /\ configs' = IF spec.section = "none" THEN configs ELSE spec.section

\* The jobs are created if the status does not say that they were: the package
\* variables are set and the nodes listed.
CreateDRBDAdapter ==
    /\ worker.at = "drbd" /\ ~worker.spec.disable
    /\ \/ /\ worker.status.created
          /\ worker' = [worker EXCEPT !.at = "final"]
          /\ UNCHANGED <<deployOnMaster, configs, queued, faults>>
       \/ /\ ~worker.status.created /\ worker.spec.section # "partial"
          /\ HandelDRBDConfigs(worker.spec)
          /\ \/ /\ worker' = [worker EXCEPT !.at = "creating", !.left = Node]
                /\ UNCHANGED <<queued, faults>>
             \/ /\ Fault
                /\ ReturnError
    /\ UNCHANGED <<cluster, current, jobs, events, handler, edits, deletes,
                   history>>

\* The loop of CreateDRBDAdapter.  An error ends the pass and leaves the jobs
\* that have been created; the next pass creates them again.  While nothing
\* has set the namespace every job is refused.
CreateDRBDForNode(n) ==
    /\ worker.at = "creating" /\ n \in worker.left
    /\ \/ /\ n \in NeedInstall /\ configs = "full"
          /\ JobCreated(n)
          /\ worker' = [worker EXCEPT !.left = @ \ {n}]
          /\ UNCHANGED faults
       \/ /\ n \notin NeedInstall
          /\ worker' = [worker EXCEPT !.left = @ \ {n}]
          /\ UNCHANGED <<jobs, twice, queued, faults>>
       \/ /\ n \in NeedInstall /\ configs = "none"
          /\ ReturnError
          /\ UNCHANGED <<jobs, twice, faults>>
       \/ /\ n \in NeedInstall /\ configs = "full"
          /\ Fault
          /\ ReturnError
          /\ \/ UNCHANGED <<jobs, twice>>
             \/ JobCreated(n)
    /\ UNCHANGED <<cluster, current, events, deployOnMaster, configs, handler,
                   edits, deletes, installed, restarted>>

\* The worker dereferences a nested section that is missing, or the affinity
\* of a job, which has none, where useAffinity is "yes".
PanicOnCreating ==
    /\ \/ /\ worker.at = "drbd"
          /\ ~worker.spec.disable /\ ~worker.status.created
          /\ worker.spec.section = "partial"
       \/ /\ worker.at = "creating"
          /\ configs = "affinity"
          /\ worker.left \cap NeedInstall # {}
    /\ Panic

FinishCreating ==
    /\ worker.at = "creating" /\ worker.left = {}
    /\ worker' = [worker EXCEPT !.at = "final", !.status.created = TRUE]
    /\ UNCHANGED <<cluster, current, jobs, events, queued, deployOnMaster,
                   configs, handler, faults, edits, deletes, history>>

\* Mutant: the adapter is only deleted if the status says it was created.
DeleteCreatedDRBDAdapter ==
    /\ worker.at = "drbd" /\ worker.spec.disable
    /\ IF worker.status.created THEN JobsDeleted(Node)
                                ELSE UNCHANGED <<jobs, events>>
    /\ worker' = [worker EXCEPT !.at = "final", !.status = NewStatus]
    /\ queued' = (queued \/ jobs' # jobs)
    /\ UNCHANGED <<cluster, current, deployOnMaster, configs, handler, faults,
                   edits, deletes, history>>

\* Mutant: the record is reduced by the jobs deleted instead of reset.
SubtractDRBDAdapter ==
    /\ worker.at = "drbd" /\ worker.spec.disable
    /\ JobsDeleted(Node)
    /\ worker' = [worker EXCEPT
                    !.at = "final",
                    !.status.jobNum = @ - Total([n \in Node |-> JobsOf(n)])]
    /\ queued' = (queued \/ jobs' # jobs)
    /\ UNCHANGED <<cluster, current, deployOnMaster, configs, handler, faults,
                   edits, deletes, history>>

\* Every pass that sees DRBD disabled deletes all the jobs.
DeleteDRBDAdapter ==
    /\ worker.at = "drbd" /\ worker.spec.disable
    /\ \/ /\ JobsDeleted(Node)
          /\ worker' = [worker EXCEPT !.at = "final", !.status = NewStatus]
          /\ queued' = (queued \/ jobs' # jobs)
          /\ UNCHANGED faults
       \/ /\ Fault
          /\ \E nodes \in SUBSET Node : JobsDeleted(nodes)
          /\ ReturnError
    /\ UNCHANGED <<cluster, current, deployOnMaster, configs, handler, edits,
                   deletes, history>>

\* The end of the pass.  The steps between may fail, which forgets what the
\* status should say; the write may be a conflict, or fail before or after it
\* took effect.
UpdateFinalStatus ==
    /\ worker.at = "final"
    /\ \/ /\ "worker" \in current
          /\ StatusUpdated("worker", worker.status)
          /\ worker' = IdleWorker
          /\ UNCHANGED faults
       \/ /\ worker.status = worker.read
          /\ worker' = IdleWorker
          /\ UNCHANGED <<cluster, current, queued, faults>>
       \/ /\ "worker" \notin current
          /\ ReturnError
          /\ UNCHANGED <<cluster, current, faults>>
       \/ /\ Fault
          /\ ReturnError
          /\ \/ UNCHANGED <<cluster, current>>
             \/ /\ "worker" \in current
                /\ cluster' = [cluster EXCEPT !.status = worker.status]
                /\ current' = IF worker.status = cluster.status
                              THEN current ELSE {}
    /\ UNCHANGED <<jobs, events, deployOnMaster, configs, handler, edits,
                   deletes, history>>

-----------------------------------------------------------------------------
(* The job handlers, called one at a time in the informer's goroutine.  The *)
(* predicates that call them discard their errors.                          *)

HandlerReturns == handler' = IdleHandler

\* Mutant: there must be more completed jobs than nodes.
CountMoreJobs ==
    /\ handler.at = "idle" /\ events.completed
    /\ events' = [events EXCEPT !.completed = FALSE]
    /\ IF CompletedJobs > Cardinality(NeedInstall)
       THEN handler' = [IdleHandler EXCEPT !.at = "counted",
                                           !.jobCount = CompletedJobs]
       ELSE UNCHANGED handler
    /\ UNCHANGED <<cluster, current, jobs, queued, deployOnMaster, configs,
                   worker, faults, edits, deletes, history>>

\* A job has completed: its handler counts the completed jobs and the nodes.
CountCompletedJobs ==
    /\ handler.at = "idle" /\ events.completed
    /\ events' = [events EXCEPT !.completed = FALSE]
    /\ \/ /\ IF CompletedJobs >= Cardinality(NeedInstall)
             THEN handler' = [IdleHandler EXCEPT !.at = "counted",
                                                 !.jobCount = CompletedJobs]
             ELSE UNCHANGED handler
          /\ UNCHANGED faults
       \/ /\ Fault
          /\ UNCHANGED handler
    /\ UNCHANGED <<cluster, current, jobs, queued, deployOnMaster, configs,
                   worker, edits, deletes, history>>

ReadForJobUpdate ==
    /\ handler.at = "counted"
    /\ \/ /\ handler' = [handler EXCEPT !.at = "writing",
                                        !.status = cluster.status]
          /\ current' = current \cup {"handler"}
          /\ UNCHANGED faults
       \/ /\ Fault
          /\ HandlerReturns
          /\ UNCHANGED current
    /\ UNCHANGED <<cluster, jobs, events, queued, deployOnMaster, configs,
                   worker, edits, deletes, history>>

WriteForJobUpdate ==
    /\ handler.at = "writing"
    /\ HandlerReturns
    /\ \/ /\ "handler" \in current
          /\ StatusUpdated("handler", [created |-> TRUE,
                                       jobNum |-> handler.jobCount])
          /\ UNCHANGED faults
       \/ /\ "handler" \notin current
          /\ UNCHANGED <<cluster, current, queued, faults>>
       \/ /\ Fault
          /\ UNCHANGED <<cluster, current, queued>>
    /\ UNCHANGED <<jobs, events, deployOnMaster, configs, worker, edits,
                   deletes, history>>

\* handleDrbdJobDelete dereferences a drbd section that is missing, or a nested
\* one when it is needed.
PanicOnJobDelete(n) ==
    /\ handler.at = "idle" /\ events.deleted[n] > 0
    /\ \/ cluster.spec.section = "none"
       \/ /\ cluster.spec.section = "partial"
          /\ ~cluster.spec.disable
          /\ cluster.status.jobNum = 0
    /\ Panic

\* Mutant: a job is created again even after completion was recorded.
ReadForJobDeleteAlways(n) ==
    /\ handler.at = "idle" /\ events.deleted[n] > 0
    /\ cluster.spec.section \in {"affinity", "full"}
    /\ events' = [events EXCEPT !.deleted[n] = @ - 1]
    /\ handler' = [IdleHandler EXCEPT !.at = "recreating", !.recreate = {n}]
    /\ HandelDRBDConfigs(cluster.spec)
    /\ UNCHANGED <<cluster, current, jobs, queued, worker, faults, edits,
                   deletes, history>>

\* Mutant: the deletion of a job is not handled.
IgnoreJobDelete(n) ==
    /\ handler.at = "idle" /\ events.deleted[n] > 0
    /\ events' = [events EXCEPT !.deleted[n] = @ - 1]
    /\ UNCHANGED <<cluster, current, jobs, queued, deployOnMaster, configs,
                   worker, handler, faults, edits, deletes, history>>

\* A job was deleted: if DRBD is not disabled and not yet installed its
\* handler sets the package variables and creates the job again.
ReadForJobDelete(n) ==
    /\ handler.at = "idle" /\ events.deleted[n] > 0
    /\ cluster.spec.section # "none"
    /\ events' = [events EXCEPT !.deleted[n] = @ - 1]
    /\ \/ /\ cluster.spec.disable \/ cluster.status.jobNum > 0
          /\ UNCHANGED <<handler, deployOnMaster, configs, faults>>
       \/ /\ ~cluster.spec.disable /\ cluster.status.jobNum = 0
          /\ cluster.spec.section # "partial"
          /\ handler' = [IdleHandler EXCEPT !.at = "recreating",
                                            !.recreate = {n}]
          /\ HandelDRBDConfigs(cluster.spec)
          /\ UNCHANGED faults
       \/ /\ Fault
          /\ UNCHANGED <<handler, deployOnMaster, configs>>
    /\ UNCHANGED <<cluster, current, jobs, queued, worker, edits, deletes,
                   history>>

RecreateJob(n) ==
    /\ handler.at = "recreating" /\ n \in handler.recreate
    /\ HandlerReturns
    /\ \/ /\ n \in NeedInstall /\ configs = "full"
          /\ JobCreated(n)
          /\ UNCHANGED faults
       \/ /\ n \notin NeedInstall
          /\ UNCHANGED <<jobs, twice, queued, faults>>
       \/ /\ n \in NeedInstall /\ configs = "full"
          /\ Fault
          /\ \/ UNCHANGED <<jobs, twice, queued>>
             \/ JobCreated(n)
    /\ UNCHANGED <<cluster, current, events, deployOnMaster, configs, worker,
                   edits, deletes, installed, restarted>>

\* The same dereference of a job's affinity as the worker's.
PanicOnRecreating ==
    /\ handler.at = "recreating"
    /\ configs = "affinity"
    /\ handler.recreate \cap NeedInstall # {}
    /\ Panic

-----------------------------------------------------------------------------
(* What surrounds the operator *)

Operator == <<deployOnMaster, configs, worker, handler>>

EditSpec ==
    /\ edits < MaxEdits
    /\ edits' = edits + 1
    /\ \E spec \in DrbdSpecs \ {cluster.spec} :
          cluster' = [cluster EXCEPT !.spec = spec]
    /\ current' = {}
    /\ queued' = TRUE
    /\ UNCHANGED <<Operator, jobs, events, faults, deletes, history>>

\* The user deletes a job, whatever has become of it.
DeleteJob(n) ==
    /\ deletes < MaxDeletes
    /\ deletes' = deletes + 1
    /\ \E kind \in {"running", "complete", "failed"} :
          /\ jobs[n][kind] > 0
          /\ jobs' = [jobs EXCEPT ![n][kind] = @ - 1]
    /\ events' = [events EXCEPT !.deleted[n] = @ + 1]
    /\ queued' = TRUE
    /\ UNCHANGED <<Operator, cluster, current, faults, edits, history>>

JobCompletes(n) ==
    /\ jobs[n].running > 0
    /\ jobs' = [jobs EXCEPT ![n].running = @ - 1, ![n].complete = @ + 1]
    /\ events' = [events EXCEPT !.completed = TRUE]
    /\ installed' = installed \cup {n}
    /\ queued' = TRUE
    /\ UNCHANGED <<Operator, cluster, current, faults, edits, deletes, twice,
                   restarted>>

\* The backoff limit is 0: a job that fails is not tried again.
JobFails(n) ==
    /\ jobs[n].running > 0
    /\ jobs' = [jobs EXCEPT ![n].running = @ - 1, ![n].failed = @ + 1]
    /\ queued' = TRUE
    /\ UNCHANGED <<Operator, cluster, current, events, faults, edits, deletes,
                   history>>

Resync ==
    /\ queued' = TRUE
    /\ events' = [events EXCEPT !.completed =
                    @ \/ \E n \in Node : jobs[n].complete > 0]
    /\ UNCHANGED <<Operator, cluster, current, jobs, faults, edits, deletes,
                   history>>

-----------------------------------------------------------------------------
(* Specification *)

Reconcile ==
    \/ StartReconcile
    \/ CreateDRBDAdapter
    \/ \E n \in Node : CreateDRBDForNode(n)
    \/ PanicOnCreating
    \/ FinishCreating
    \/ DeleteDRBDAdapter
    \/ UpdateFinalStatus

HandleDrbdJob ==
    \/ CountCompletedJobs
    \/ ReadForJobUpdate
    \/ WriteForJobUpdate
    \/ PanicOnRecreating
    \/ \E n \in Node : \/ PanicOnJobDelete(n)
                       \/ ReadForJobDelete(n)
                       \/ RecreateJob(n)

Environment ==
    \/ EditSpec
    \/ \E n \in Node : DeleteJob(n) \/ JobCompletes(n) \/ JobFails(n)
    \/ Resync

Next == Reconcile \/ HandleDrbdJob \/ Crash \/ Environment

Spec == Init /\ [][Next]_vars

\* Go runs the worker and the informer's goroutine, jobs end, and resyncs
\* recur.  The informer hands the events on in a queue, so that none of them
\* is passed over for ever (strong fairness).  Nothing is assumed of the user.
FairSpec ==
    /\ Spec
    /\ WF_vars(Reconcile)
    /\ WF_vars(HandleDrbdJob)
    /\ SF_vars(CountCompletedJobs)
    /\ \A n \in Node : SF_vars(ReadForJobDelete(n) \/ PanicOnJobDelete(n))
    /\ \A n \in Node : WF_vars(JobCompletes(n) \/ JobFails(n))
    /\ WF_vars(Resync)

-----------------------------------------------------------------------------
(* Properties *)

\* The types of the variables.
TypeOK ==
    /\ cluster \in [spec: FullSpec, status: Status]
    /\ current \in SUBSET {"worker", "handler"}
    /\ jobs \in [Node -> Jobs]
    /\ events \in [completed: BOOLEAN, deleted: [Node -> Nat]]
    /\ queued \in BOOLEAN
    /\ deployOnMaster \in BOOLEAN
    /\ configs \in {"none", "affinity", "full"}
    /\ worker \in [at: {"idle", "drbd", "creating", "final"}, spec: FullSpec,
                   read: Status, status: Status, left: SUBSET Node]
    /\ handler \in [at: {"idle", "counted", "writing", "recreating"},
                    jobCount: Nat, status: Status, recreate: SUBSET Node]
    /\ faults \in 0..MaxFaults
    /\ edits \in 0..MaxEdits
    /\ deletes \in 0..MaxDeletes
    /\ installed \subseteq Node
    /\ twice \subseteq Node
    /\ restarted \in BOOLEAN

\* Nothing is left to do for the operator.
Quiet ==
    /\ ~queued
    /\ worker.at = "idle"
    /\ handler.at = "idle"
    /\ ~events.completed
    /\ \A n \in Node : events.deleted[n] = 0

\* When the operator has come to rest with DRBD disabled no job is left and
\* the status says so, although the handlers create jobs and record
\* completions from what they read before DRBD was disabled.
DisabledLeavesNothing ==
    Quiet /\ cluster.spec.disable
        => /\ \A n \in Node : JobsOf(n) = 0
           /\ cluster.status = NewStatus

\* Once completion is recorded a deleted job is not created again ("drbd job
\* should be deleted here and don't recreate", cluster_controller.go:744): the
\* handler's decision still holds when it creates the job, since the worker,
\* who wrote the status meanwhile, cannot have recorded completion.
NoRetryAfterCompletion ==
    handler.at = "recreating" => cluster.status.jobNum = 0

\* The number of jobs recorded means that DRBD is on every worker node.  The
\* handler counts jobs, so that this holds while no node has had two jobs; and
\* it counts the nodes that deployOnMaster names, which a new process has
\* forgotten.
CompletionMeansInstalled ==
    cluster.status.jobNum > 0 /\ twice = {} /\ (Master = {} \/ ~restarted)
        => Node \ Master \subseteq installed

\* An installation is recorded in the end, unless DRBD is disabled from then
\* on, a job fails for good, or the deletion of a job is lost by a failure.
Recorded ==
    <>(\/ cluster.status.jobNum > 0
       \/ cluster.spec.disable
       \/ \E n \in Node : jobs[n].failed > 0
       \/ deletes > 0 /\ faults > 0)

\* The user deletes the last job of a node "to retry installation"
\* (cluster_controller.go:743): the node gets a job again, unless DRBD is
\* disabled or recorded as installed before, or a call fails or the process is
\* stopped meanwhile.
DeletedJobRetried ==
    \A n \in Node \ Master :
        (deletes > 0 /\ JobsOf(n) = 0)
            ~> \/ JobsOf(n) > 0
               \/ cluster.status.jobNum > 0
               \/ cluster.spec.disable
               \/ faults > 0

=============================================================================
