-------------------------- MODULE DrbdInstallProofs --------------------------
(***************************************************************************)
(* Proofs about DrbdInstall.                                               *)
(***************************************************************************)
EXTENDS DrbdInstall, FiniteSetTheorems, TLAPS

\* The part of the types that the proofs need.
Types ==
    /\ cluster \in [spec: FullSpec, status: Status]
    /\ jobs \in [Node -> Jobs]
    /\ worker \in [at: {"idle", "drbd", "creating", "final"}, spec: FullSpec,
                   read: Status, status: Status, left: SUBSET Node]
    /\ handler \in [at: {"idle", "counted", "writing", "recreating"},
                    jobCount: Nat, status: Status,
                    recreate: SUBSET Node]

\* A worker that holds the current resourceVersion has read what the API
\* server shows.
WorkerCurrent ==
    "worker" \in current /\ worker.at # "idle" => worker.read = cluster.status

\* The worker keeps the number it read, or resets it.
WorkerKeepsJobNum == worker.status.jobNum \in {worker.read.jobNum, 0}

IInv ==
    /\ Types
    /\ WorkerCurrent
    /\ WorkerKeepsJobNum
    /\ NoRetryAfterCompletion

-----------------------------------------------------------------------------

\* The idle records and the initial values have their types.
LEMMA InitialTypes ==
    /\ NoSpec \in FullSpec
    /\ NewStatus \in Status
    /\ NoJobs \in Jobs
    /\ IdleWorker \in [at: {"idle", "drbd", "creating", "final"},
                       spec: FullSpec, read: Status, status: Status,
                       left: SUBSET Node]
    /\ IdleHandler \in [at: {"idle", "counted", "writing", "recreating"},
                        jobCount: Nat, status: Status,
                        recreate: SUBSET Node]
<1>2. NewStatus \in Status
  BY DEF NewStatus, Status
<1>3. NoSpec \in FullSpec
  BY DEF NoSpec, FullSpec
<1>4. NoJobs \in Jobs
  BY DEF NoJobs, Jobs
<1> QED
  BY <1>2, <1>3, <1>4 DEF IdleWorker, IdleHandler

\* The jobs that are counted are finitely many.
LEMMA TotalType ==
    ASSUME NEW number \in [Node -> Nat]
    PROVE  /\ IsFiniteSet(UNION {{n} \X (1..number[n]) : n \in Node})
           /\ Total(number) \in Nat
<1> DEFINE Counted(n) == {n} \X (1..number[n])
           perNode    == {Counted(n) : n \in Node}
<1>1. \A n \in Node : IsFiniteSet(Counted(n))
  <2> SUFFICES ASSUME NEW n \in Node
               PROVE  IsFiniteSet(Counted(n))
    OBVIOUS
  <2>1. IsFiniteSet({n})
    BY FS_Singleton
  <2>2. IsFiniteSet(1..number[n])
    BY FS_Interval
  <2> QED
    BY <2>1, <2>2, FS_Product
<1>2. IsFiniteSet(perNode)
  <2> DEFINE f == [n \in Node |-> Counted(n)]
  <2>1. f \in Surjection(Node, perNode)
    BY DEF Surjection
  <2> HIDE DEF f, perNode
  <2> QED
    BY <2>1, FS_Surjection, DrbdAssumption
<1>3. IsFiniteSet(UNION perNode)
  <2>1. \A each \in perNode : IsFiniteSet(each)
    BY <1>1
  <2> HIDE DEF perNode
  <2> QED
    BY <1>2, <2>1, FS_UNION
<1> QED
  BY <1>3, FS_CardinalityType DEF Total

\* What a completed job is counted to is a number that can be recorded.
LEMMA CompletedJobsType ==
    ASSUME jobs \in [Node -> Jobs]
    PROVE CompletedJobs \in Nat
<1>1. [n \in Node |-> jobs[n].complete] \in [Node -> Nat]
  BY DEF Jobs
<1>2. Total([n \in Node |-> jobs[n].complete]) \in Nat
  BY <1>1, TotalType
<1> QED
  BY <1>2 DEF CompletedJobs

\* A job more, or none at all, is a number of jobs again.
LEMMA JobsType ==
    ASSUME jobs \in [Node -> Jobs], NEW n \in Node
    PROVE /\ JobCreated(n) => jobs' \in [Node -> Jobs]
          /\ JobCompletes(n) => jobs' \in [Node -> Jobs]
          /\ JobFails(n) => jobs' \in [Node -> Jobs]
          /\ DeleteJob(n) => jobs' \in [Node -> Jobs]
          /\ \A nodes \in SUBSET Node :
                JobsDeleted(nodes) => jobs' \in [Node -> Jobs]
<1>1. jobs[n] \in Jobs
  OBVIOUS
<1>2. JobCreated(n) => jobs' \in [Node -> Jobs]
  BY <1>1 DEF JobCreated, Jobs
<1>3. JobCompletes(n) => jobs' \in [Node -> Jobs]
  BY <1>1 DEF JobCompletes, Jobs
<1>4. JobFails(n) => jobs' \in [Node -> Jobs]
  BY <1>1 DEF JobFails, Jobs
<1>5. ASSUME DeleteJob(n)
      PROVE jobs' \in [Node -> Jobs]
  <2>1. PICK kind \in {"running", "complete", "failed"} :
            /\ jobs[n][kind] > 0
            /\ jobs' = [jobs EXCEPT ![n][kind] = @ - 1]
    BY <1>5 DEF DeleteJob
  <2>2. CASE kind = "running"
    BY <1>1, <2>1, <2>2 DEF Jobs
  <2>3. CASE kind = "complete"
    BY <1>1, <2>1, <2>3 DEF Jobs
  <2>4. CASE kind = "failed"
    BY <1>1, <2>1, <2>4 DEF Jobs
  <2> QED
    BY <2>1, <2>2, <2>3, <2>4
<1>6. ASSUME NEW nodes \in SUBSET Node, JobsDeleted(nodes)
      PROVE jobs' \in [Node -> Jobs]
  BY <1>6 DEF JobsDeleted, NoJobs, Jobs
<1> QED
  BY <1>2, <1>3, <1>4, <1>5, <1>6

\* The initial states satisfy the invariant.
LEMMA InitInv == Init => IInv
<1> SUFFICES ASSUME Init
             PROVE IInv
  OBVIOUS
<1>1. Types
  <2>1. PICK spec \in DrbdSpecs : cluster = [spec |-> spec, status |-> NewStatus]
    BY DEF Init
  <2>2. spec \in FullSpec
    BY DrbdAssumption
  <2> QED
    BY <2>1, <2>2, InitialTypes DEF Init, Types
<1>2. WorkerCurrent
  BY DEF Init, WorkerCurrent
<1>3. WorkerKeepsJobNum
  BY DEF Init, WorkerKeepsJobNum, IdleWorker, NewStatus
<1>4. NoRetryAfterCompletion
  BY DEF Init, NoRetryAfterCompletion, IdleHandler
<1> QED
  BY <1>1, <1>2, <1>3, <1>4 DEF IInv

\* A restart forgets both.
LEMMA RestartStep ==
    ASSUME IInv, Restart, UNCHANGED <<cluster, jobs>>
    PROVE IInv'
<1>1. worker' = IdleWorker /\ handler' = IdleHandler
  BY DEF Restart
<1>2. /\ IdleWorker.at = "idle" /\ IdleWorker.status.jobNum = 0
      /\ IdleHandler.at = "idle"
  BY DEF IdleWorker, IdleHandler, NewStatus
<1> QED
  BY <1>1, <1>2, InitialTypes
     DEF IInv, Types, WorkerCurrent, WorkerKeepsJobNum, NoRetryAfterCompletion

\* So does a panic.
LEMMA PanicStep == IInv /\ Panic => IInv'
  BY RestartStep DEF Panic

\* A step of the worker keeps the invariant: it writes the number it read, if
\* its copy is current, or 0.
LEMMA WorkerStep == IInv /\ Reconcile => IInv'
<1> SUFFICES ASSUME IInv, Reconcile
             PROVE IInv'
  OBVIOUS
<1> USE DEF IInv, Types
<1>0. IdleWorker.at = "idle" /\ IdleWorker.status.jobNum = 0
  BY DEF IdleWorker, NewStatus
<1>1. CASE StartReconcile
  <2>1. CASE worker' = worker /\ current' = current
    BY <1>1, <2>1 DEF StartReconcile, WorkerCurrent, WorkerKeepsJobNum,
                      NoRetryAfterCompletion, history
  <2>2. CASE worker' = [IdleWorker EXCEPT !.at = "drbd",
                                          !.spec = cluster.spec,
                                          !.read = cluster.status,
                                          !.status = cluster.status]
    <3>1. /\ worker' \in [at: {"idle", "drbd", "creating", "final"},
                          spec: FullSpec, read: Status, status: Status,
                          left: SUBSET Node]
          /\ worker'.read = cluster.status /\ worker'.status = cluster.status
      BY <2>2, InitialTypes
    <3> QED
      BY <1>1, <3>1 DEF StartReconcile, WorkerCurrent, WorkerKeepsJobNum,
                        NoRetryAfterCompletion, history
  <2> QED
    BY <1>1, <2>1, <2>2 DEF StartReconcile
<1>2. CASE CreateDRBDAdapter
  <2>1. UNCHANGED <<cluster, current, jobs, handler>>
    BY <1>2 DEF CreateDRBDAdapter
  <2>2. CASE worker' = IdleWorker
    BY <1>0, <2>1, <2>2, InitialTypes DEF WorkerCurrent, WorkerKeepsJobNum,
                                          NoRetryAfterCompletion
  <2>3. CASE worker' \in {[worker EXCEPT !.at = "final"],
                          [worker EXCEPT !.at = "creating", !.left = Node]}
    BY <1>2, <2>1, <2>3 DEF CreateDRBDAdapter, WorkerCurrent,
                            WorkerKeepsJobNum, NoRetryAfterCompletion
  <2> QED
    BY <1>2, <2>2, <2>3 DEF CreateDRBDAdapter, ReturnError
<1>3. ASSUME NEW n \in Node, CreateDRBDForNode(n)
      PROVE IInv'
  <2>1. UNCHANGED <<cluster, current, handler>>
    BY <1>3 DEF CreateDRBDForNode
  <2>2. jobs' \in [Node -> Jobs]
    BY <1>3, JobsType DEF CreateDRBDForNode
  <2>3. CASE worker' = IdleWorker
    BY <1>0, <2>1, <2>2, <2>3, InitialTypes
       DEF WorkerCurrent, WorkerKeepsJobNum, NoRetryAfterCompletion
  <2>4. CASE worker' = [worker EXCEPT !.left = @ \ {n}]
    BY <1>3, <2>1, <2>2, <2>4
       DEF CreateDRBDForNode, WorkerCurrent, WorkerKeepsJobNum,
           NoRetryAfterCompletion
  <2> QED
    BY <1>3, <2>3, <2>4 DEF CreateDRBDForNode, ReturnError
<1>4. CASE FinishCreating
  <2>1. /\ worker' \in [at: {"idle", "drbd", "creating", "final"},
                        spec: FullSpec, read: Status, status: Status,
                        left: SUBSET Node]
        /\ worker'.read = worker.read
        /\ worker'.status.jobNum = worker.status.jobNum
    BY <1>4 DEF FinishCreating, Status
  <2> QED
    BY <1>4, <2>1 DEF FinishCreating, WorkerCurrent, WorkerKeepsJobNum,
                      NoRetryAfterCompletion
<1>5. CASE DeleteDRBDAdapter
  <2>1. UNCHANGED <<cluster, current, handler>>
    BY <1>5 DEF DeleteDRBDAdapter
  <2>2. jobs' \in [Node -> Jobs]
    <3>1. \A nodes \in SUBSET Node :
            JobsDeleted(nodes) => jobs' \in [Node -> Jobs]
      BY DEF JobsDeleted, NoJobs, Jobs
    <3> QED
      BY <1>5, <3>1 DEF DeleteDRBDAdapter
  <2>3. CASE worker' = IdleWorker
    BY <1>0, <2>1, <2>2, <2>3, InitialTypes
       DEF WorkerCurrent, WorkerKeepsJobNum, NoRetryAfterCompletion
  <2>4. CASE worker' = [worker EXCEPT !.at = "final", !.status = NewStatus]
    BY <1>5, <2>1, <2>2, <2>4, InitialTypes
       DEF DeleteDRBDAdapter, NewStatus, WorkerCurrent, WorkerKeepsJobNum,
           NoRetryAfterCompletion
  <2> QED
    BY <1>5, <2>3, <2>4 DEF DeleteDRBDAdapter, ReturnError
<1>6. CASE UpdateFinalStatus
  <2>1. worker' = IdleWorker /\ UNCHANGED <<jobs, handler>>
    BY <1>6 DEF UpdateFinalStatus, ReturnError
  <2>2. \/ cluster' = cluster
        \/ /\ "worker" \in current
           /\ cluster' = [cluster EXCEPT !.status = worker.status]
    BY <1>6 DEF UpdateFinalStatus, StatusUpdated
  <2>3. CASE cluster' = cluster
    BY <1>0, <2>1, <2>3, InitialTypes
       DEF WorkerCurrent, WorkerKeepsJobNum, NoRetryAfterCompletion
  <2>4. CASE /\ "worker" \in current
             /\ cluster' = [cluster EXCEPT !.status = worker.status]
    <3>1. cluster.status.jobNum = 0 => cluster'.status.jobNum = 0
      BY <1>6, <2>4 DEF UpdateFinalStatus, WorkerCurrent, WorkerKeepsJobNum
    <3> QED
      BY <1>0, <2>1, <2>4, <3>1, InitialTypes
         DEF WorkerCurrent, WorkerKeepsJobNum, NoRetryAfterCompletion
  <2> QED
    BY <2>2, <2>3, <2>4
<1>7. CASE PanicOnCreating
  BY <1>7, PanicStep DEF PanicOnCreating
<1> QED
  BY <1>1, <1>2, <1>3, <1>4, <1>5, <1>6, <1>7 DEF Reconcile

\* A step of the job handlers keeps the invariant: whoever decides to create a
\* job has just seen that nothing is recorded, and whoever records is not
\* creating one, since it is one goroutine that does both.
LEMMA HandlerStep == IInv /\ HandleDrbdJob => IInv'
<1> SUFFICES ASSUME IInv, HandleDrbdJob
             PROVE IInv'
  OBVIOUS
<1> USE DEF IInv, Types
<1>0. IdleHandler.at = "idle"
  BY DEF IdleHandler
<1>1. CASE CountCompletedJobs
  <2>1. UNCHANGED <<cluster, current, jobs, worker>>
    BY <1>1 DEF CountCompletedJobs
  <2>2. CASE handler' = handler
    BY <2>1, <2>2 DEF WorkerCurrent, WorkerKeepsJobNum, NoRetryAfterCompletion
  <2>3. CASE handler' = [IdleHandler EXCEPT !.at = "counted",
                                            !.jobCount = CompletedJobs]
    <3>1. CompletedJobs \in Nat
      BY CompletedJobsType
    <3>2. /\ handler' \in [at: {"idle", "counted", "writing", "recreating"},
                            jobCount: Nat, status: Status,
                            recreate: SUBSET Node]
          /\ handler'.at = "counted"
      BY <2>3, <3>1, InitialTypes
    <3> QED
      BY <2>1, <3>2 DEF WorkerCurrent, WorkerKeepsJobNum,
                        NoRetryAfterCompletion
  <2> QED
    BY <1>1, <2>2, <2>3 DEF CountCompletedJobs
<1>2. CASE ReadForJobUpdate
  <2>1. UNCHANGED <<cluster, jobs, worker>>
    BY <1>2 DEF ReadForJobUpdate
  <2>2. "worker" \in current' => "worker" \in current
    BY <1>2 DEF ReadForJobUpdate
  <2>3. /\ handler' \in [at: {"idle", "counted", "writing", "recreating"},
                          jobCount: Nat, status: Status,
                          recreate: SUBSET Node]
        /\ handler'.at # "recreating"
    BY <1>0, <1>2, InitialTypes DEF ReadForJobUpdate, HandlerReturns
  <2> QED
    BY <2>1, <2>2, <2>3 DEF WorkerCurrent, WorkerKeepsJobNum,
                            NoRetryAfterCompletion
<1>3. CASE WriteForJobUpdate
  <2>1. handler' = IdleHandler /\ UNCHANGED <<jobs, worker>>
    BY <1>3 DEF WriteForJobUpdate, HandlerReturns
  <2>2. CASE UNCHANGED <<cluster, current>>
    BY <1>0, <2>1, <2>2, InitialTypes
       DEF WorkerCurrent, WorkerKeepsJobNum, NoRetryAfterCompletion
  <2>3. CASE StatusUpdated("handler", [created |-> TRUE,
                                       jobNum |-> handler.jobCount])
    <3>1. cluster' \in [spec: FullSpec, status: Status]
      BY <2>3 DEF StatusUpdated, Status
    <3>2. "worker" \in current' =>
             "worker" \in current /\ cluster'.status = cluster.status
      BY <2>3 DEF StatusUpdated
    <3> QED
      BY <1>0, <2>1, <3>1, <3>2, InitialTypes
         DEF WorkerCurrent, WorkerKeepsJobNum, NoRetryAfterCompletion
  <2> QED
    BY <1>3, <2>2, <2>3 DEF WriteForJobUpdate
<1>4. ASSUME NEW n \in Node, PanicOnJobDelete(n)
      PROVE IInv'
  BY <1>4, PanicStep DEF PanicOnJobDelete
<1>5. ASSUME NEW n \in Node, ReadForJobDelete(n)
      PROVE IInv'
  <2>1. UNCHANGED <<cluster, current, jobs, worker>>
    BY <1>5 DEF ReadForJobDelete
  <2>2. CASE handler' = handler
    BY <2>1, <2>2 DEF WorkerCurrent, WorkerKeepsJobNum, NoRetryAfterCompletion
  <2>3. CASE /\ cluster.status.jobNum = 0
             /\ handler' = [IdleHandler EXCEPT !.at = "recreating",
                                               !.recreate = {n}]
    BY <2>1, <2>3, InitialTypes
       DEF WorkerCurrent, WorkerKeepsJobNum, NoRetryAfterCompletion
  <2> QED
    BY <1>5, <2>2, <2>3 DEF ReadForJobDelete
<1>6. ASSUME NEW n \in Node, RecreateJob(n)
      PROVE IInv'
  <2>1. handler' = IdleHandler /\ UNCHANGED <<cluster, current, worker>>
    BY <1>6 DEF RecreateJob, HandlerReturns
  <2>2. jobs' \in [Node -> Jobs]
    BY <1>6, JobsType DEF RecreateJob
  <2> QED
    BY <1>0, <2>1, <2>2, InitialTypes
       DEF WorkerCurrent, WorkerKeepsJobNum, NoRetryAfterCompletion
<1>7. CASE PanicOnRecreating
  BY <1>7, PanicStep DEF PanicOnRecreating
<1> QED
  BY <1>1, <1>2, <1>3, <1>4, <1>5, <1>6, <1>7 DEF HandleDrbdJob

\* What surrounds the operator does not write the status.
LEMMA EnvironmentStep == IInv /\ Environment => IInv'
<1> SUFFICES ASSUME IInv, Environment
             PROVE IInv'
  OBVIOUS
<1> USE DEF IInv, Types
<1>1. CASE EditSpec
  <2>1. PICK spec \in DrbdSpecs : cluster' = [cluster EXCEPT !.spec = spec]
    BY <1>1 DEF EditSpec
  <2>2. spec \in FullSpec
    BY DrbdAssumption
  <2>3. /\ cluster' \in [spec: FullSpec, status: Status]
        /\ cluster'.status = cluster.status
        /\ "worker" \notin current'
        /\ UNCHANGED <<jobs, worker, handler>>
    BY <1>1, <2>1, <2>2 DEF EditSpec, Operator
  <2> QED
    BY <2>3 DEF WorkerCurrent, WorkerKeepsJobNum, NoRetryAfterCompletion
<1>2. ASSUME NEW n \in Node, DeleteJob(n) \/ JobCompletes(n) \/ JobFails(n)
      PROVE IInv'
  <2>1. jobs' \in [Node -> Jobs]
    BY <1>2, JobsType
  <2>2. UNCHANGED <<cluster, current, worker, handler>>
    BY <1>2 DEF DeleteJob, JobCompletes, JobFails, Operator
  <2> QED
    BY <2>1, <2>2 DEF WorkerCurrent, WorkerKeepsJobNum, NoRetryAfterCompletion
<1>3. CASE Resync
  BY <1>3 DEF Resync, Operator, WorkerCurrent, WorkerKeepsJobNum,
              NoRetryAfterCompletion
<1> QED
  BY <1>1, <1>2, <1>3 DEF Environment

\* Every step keeps the invariant.
LEMMA InvStep == IInv /\ [Next]_vars => IInv'
<1> SUFFICES ASSUME IInv, [Next]_vars
             PROVE IInv'
  OBVIOUS
<1>1. CASE Crash
  BY <1>1, RestartStep DEF Crash
<1>2. CASE UNCHANGED vars
  BY <1>2 DEF vars, IInv, Types, WorkerCurrent, WorkerKeepsJobNum,
              NoRetryAfterCompletion
<1> QED
  BY <1>1, <1>2, WorkerStep, HandlerStep, EnvironmentStep DEF Next

\* NoRetryAfterCompletion: a job that was deleted is not created again once
\* the completion of all jobs is recorded.
THEOREM DeletedStaysDeleted == Spec => []NoRetryAfterCompletion
<1>1. IInv => NoRetryAfterCompletion
  BY DEF IInv
<1> QED
  BY <1>1, InitInv, InvStep, PTL DEF Spec

-----------------------------------------------------------------------------
(* A disabled adapter leaves nothing *)

AllDeleted == [n \in Node |-> NoJobs]

\* A pass that nothing will follow has the Cluster as it is.
PassIsCurrent ==
    worker.at # "idle" /\ ~queued
        => worker.spec = cluster.spec /\ "worker" \in current

\* Where a pass with DRBD disabled is, and what it leaves if nothing will
\* follow it.
DisabledPass ==
    /\ worker.at = "creating" => ~worker.spec.disable
    /\ worker.at = "final" /\ worker.spec.disable
        => worker.status = NewStatus
    /\ worker.at = "final" /\ worker.spec.disable /\ ~queued
        => jobs = AllDeleted

\* The same between the passes.
DisabledRest ==
    worker.at = "idle" /\ ~queued /\ cluster.spec.disable
        => jobs = AllDeleted /\ cluster.status = NewStatus

RestInv ==
    /\ queued \in BOOLEAN
    /\ PassIsCurrent
    /\ DisabledPass
    /\ DisabledRest

\* Whatever changes the Cluster or the jobs queues the Cluster, unless the
\* worker does it.
ChangeIsQueued ==
    ~queued' => /\ ~queued
                /\ UNCHANGED <<cluster, jobs, worker>>
                /\ "worker" \in current => "worker" \in current'

\* A step that queues what it changes leaves a pass, or ends it.
LEMMA QueuedStep ==
    ASSUME RestInv, ChangeIsQueued, queued' \in BOOLEAN,
           worker' = worker \/ worker' = IdleWorker
    PROVE  RestInv'
<1>1. IdleWorker.at = "idle"
  BY DEF IdleWorker
<1>2. CASE queued'
  BY <1>1, <1>2 DEF RestInv, PassIsCurrent, DisabledPass, DisabledRest
<1>3. CASE ~queued'
  BY <1>3 DEF RestInv, ChangeIsQueued, PassIsCurrent, DisabledPass,
     DisabledRest, AllDeleted
<1> QED
  BY <1>2, <1>3

\* The end of a process and an error of a pass leave the Cluster queued.
LEMMA QueuedIdle ==
    ASSUME worker' = IdleWorker, queued' = TRUE
    PROVE  RestInv'
  BY DEF IdleWorker, RestInv, PassIsCurrent, DisabledPass, DisabledRest

\* Steps of the handlers.
LEMMA HandlerRests == IInv /\ RestInv /\ HandleDrbdJob => RestInv'
<1> SUFFICES ASSUME IInv, RestInv, HandleDrbdJob PROVE RestInv'
  OBVIOUS
<1>1. CASE CountCompletedJobs \/ ReadForJobUpdate
           \/ \E n \in Node : ReadForJobDelete(n)
  <2>1. UNCHANGED <<cluster, jobs, queued, worker>>
        /\ ("worker" \in current => "worker" \in current')
    BY <1>1 DEF CountCompletedJobs, ReadForJobUpdate, ReadForJobDelete
  <2> QED
    BY <2>1, QueuedStep DEF ChangeIsQueued, RestInv
<1>2. CASE WriteForJobUpdate
  <2>1. worker' = worker /\ jobs' = jobs
    BY <1>2 DEF WriteForJobUpdate
  <2>2. CASE UNCHANGED <<cluster, current, queued>>
    BY <2>1, <2>2, QueuedStep DEF ChangeIsQueued, RestInv
  <2>3. ASSUME NEW status, StatusUpdated("handler", status)
        PROVE  RestInv'
    <3>1. queued' \in BOOLEAN
      BY <2>3 DEF StatusUpdated, RestInv
    <3>2. ASSUME ~queued'
          PROVE  ~queued /\ UNCHANGED <<cluster, current>>
      <4>1. ~queued /\ status = cluster.status
        BY <2>3, <3>2 DEF StatusUpdated
      <4> QED
        BY <2>3, <4>1 DEF StatusUpdated, IInv, Types
    <3> QED
      BY <2>1, <3>1, <3>2, QueuedStep DEF ChangeIsQueued
  <2> QED
    BY <1>2, <2>2, <2>3 DEF WriteForJobUpdate
<1>3. CASE PanicOnRecreating \/ \E n \in Node : PanicOnJobDelete(n)
  BY <1>3, QueuedIdle DEF PanicOnRecreating, PanicOnJobDelete, Panic, Restart
<1>4. ASSUME NEW n \in Node, RecreateJob(n)
      PROVE  RestInv'
  <2>1. UNCHANGED <<cluster, current, worker>>
    BY <1>4 DEF RecreateJob
  <2>2. queued' = TRUE \/ UNCHANGED <<jobs, queued>>
    BY <1>4 DEF RecreateJob, JobCreated
  <2> QED
    BY <2>1, <2>2, QueuedStep DEF ChangeIsQueued, RestInv
<1> QED
  BY <1>1, <1>2, <1>3, <1>4 DEF HandleDrbdJob

\* Steps of the worker.
LEMMA WorkerRests == IInv /\ RestInv /\ Reconcile => RestInv'
<1> SUFFICES ASSUME IInv, RestInv, Reconcile PROVE RestInv'
  OBVIOUS
<1>1. CASE StartReconcile
  <2>1. UNCHANGED <<cluster, jobs>>
    BY <1>1 DEF StartReconcile
  <2>2. CASE UNCHANGED <<queued, worker, current>>
    BY <2>1, <2>2, QueuedStep DEF ChangeIsQueued, RestInv
  <2>3. CASE worker' = [IdleWorker EXCEPT !.at = "drbd",
                                          !.spec = cluster.spec,
                                          !.read = cluster.status,
                                          !.status = cluster.status]
             /\ queued' = FALSE /\ current' = current \cup {"worker"}
    BY <2>1, <2>3 DEF IdleWorker, RestInv, PassIsCurrent, DisabledPass,
       DisabledRest
  <2> QED
    BY <1>1, <2>2, <2>3 DEF StartReconcile
<1>2. CASE CreateDRBDAdapter
  <2>1. UNCHANGED <<cluster, jobs, current>> /\ ~worker.spec.disable
        /\ worker.at = "drbd"
    BY <1>2 DEF CreateDRBDAdapter
  <2>2. CASE ReturnError
    BY <2>2, QueuedIdle DEF ReturnError
  <2>3. CASE queued' = queued
             /\ worker' \in {[worker EXCEPT !.at = "final"],
                             [worker EXCEPT !.at = "creating", !.left = Node]}
    <3>1. worker'.spec = worker.spec /\ worker'.at \in {"final", "creating"}
      BY <2>3 DEF IInv, Types
    <3> QED
      BY <2>1, <2>3, <3>1 DEF RestInv, PassIsCurrent, DisabledPass,
         DisabledRest
  <2> QED
    BY <1>2, <2>2, <2>3 DEF CreateDRBDAdapter
<1>3. ASSUME NEW n \in Node, CreateDRBDForNode(n)
      PROVE  RestInv'
  <2>1. UNCHANGED <<cluster, current>> /\ worker.at = "creating"
    BY <1>3 DEF CreateDRBDForNode
  <2>2. CASE worker' = IdleWorker /\ queued' = TRUE
    BY <2>2, QueuedIdle
  <2>3. CASE worker' = [worker EXCEPT !.left = @ \ {n}]
             /\ queued' \in {TRUE, queued}
    <3>1. worker'.spec = worker.spec /\ worker'.at = "creating"
      BY <2>1, <2>3 DEF IInv, Types
    <3> QED
      BY <2>1, <2>3, <3>1 DEF RestInv, PassIsCurrent, DisabledPass,
         DisabledRest
  <2> QED
    BY <1>3, <2>2, <2>3 DEF CreateDRBDForNode, ReturnError, JobCreated
<1>4. CASE FinishCreating
  <2>1. UNCHANGED <<cluster, current, queued>>
        /\ worker.at = "creating"
        /\ worker' = [worker EXCEPT !.at = "final", !.status.created = TRUE]
    BY <1>4 DEF FinishCreating
  <2>2. worker'.spec = worker.spec /\ worker'.at = "final"
    BY <2>1 DEF IInv, Types
  <2> QED
    BY <2>1, <2>2 DEF RestInv, PassIsCurrent, DisabledPass, DisabledRest
<1>5. CASE DeleteDRBDAdapter
  <2>1. CASE ReturnError
    BY <2>1, QueuedIdle DEF ReturnError
  <2>2. CASE /\ JobsDeleted(Node)
             /\ worker' = [worker EXCEPT !.at = "final", !.status = NewStatus]
             /\ queued' = (queued \/ jobs' # jobs)
    <3>1. UNCHANGED <<cluster, current>> /\ worker.at = "drbd"
      BY <1>5 DEF DeleteDRBDAdapter
    <3>2. jobs' = AllDeleted
      BY <2>2 DEF JobsDeleted, AllDeleted
    <3>3. /\ worker'.spec = worker.spec /\ worker'.at = "final"
          /\ worker'.status = NewStatus
      BY <2>2 DEF IInv, Types
    <3>4. queued' \in BOOLEAN /\ (~queued' => ~queued)
      BY <2>2
    <3>5. AllDeleted' = AllDeleted /\ NewStatus' = NewStatus
      BY DEF AllDeleted
    <3>6. PassIsCurrent'
      BY <3>1, <3>3, <3>4 DEF RestInv, PassIsCurrent
    <3>7. DisabledPass'
      BY <3>2, <3>3 DEF DisabledPass, AllDeleted
    <3>8. DisabledRest'
      BY <3>3 DEF DisabledRest
    <3> QED
      BY <3>4, <3>6, <3>7, <3>8 DEF RestInv
  <2> QED
    BY <1>5, <2>1, <2>2 DEF DeleteDRBDAdapter
<1>6. CASE UpdateFinalStatus
  <2>0. IdleWorker.at = "idle" /\ jobs' = jobs /\ worker.at = "final"
    BY <1>6 DEF UpdateFinalStatus, IdleWorker
  <2>1. CASE ReturnError
    BY <2>1, QueuedIdle DEF ReturnError
  <2>2. CASE StatusUpdated("worker", worker.status) /\ worker' = IdleWorker
    <3>1. /\ queued' \in BOOLEAN /\ cluster'.spec = cluster.spec
          /\ cluster'.status = worker.status
      BY <2>2 DEF StatusUpdated, RestInv, IInv, Types
    <3>2. ~queued' => ~queued
      BY <2>2 DEF StatusUpdated
    <3>3. DisabledRest'
      BY <2>0, <3>1, <3>2 DEF DisabledRest, RestInv, PassIsCurrent,
         DisabledPass, AllDeleted
    <3> QED
      BY <2>0, <2>2, <3>1, <3>3 DEF RestInv, PassIsCurrent, DisabledPass
  <2>3. CASE /\ worker.status = worker.read
             /\ worker' = IdleWorker
             /\ UNCHANGED <<cluster, current, queued>>
    <3>1. DisabledRest'
      BY <2>0, <2>3 DEF DisabledRest, RestInv, PassIsCurrent, DisabledPass,
         AllDeleted, IInv, WorkerCurrent
    <3> QED
      BY <2>0, <2>3, <3>1 DEF RestInv, PassIsCurrent, DisabledPass
  <2> QED
    BY <1>6, <2>1, <2>2, <2>3 DEF UpdateFinalStatus
<1>7. CASE PanicOnCreating
  BY <1>7, QueuedIdle DEF PanicOnCreating, Panic, Restart
<1> QED
  BY <1>1, <1>2, <1>3, <1>4, <1>5, <1>6, <1>7 DEF Reconcile

\* Steps of the rest: what a user or a job does queues the Cluster.
LEMMA EnvironmentRests ==
    RestInv /\ (Crash \/ Environment \/ UNCHANGED vars) => RestInv'
<1> SUFFICES ASSUME RestInv, Crash \/ Environment \/ UNCHANGED vars
             PROVE  RestInv'
  OBVIOUS
<1>1. CASE Crash
  BY <1>1, QueuedIdle DEF Crash, Restart
<1>2. CASE Environment
  <2>1. worker' = worker /\ queued' = TRUE
    BY <1>2 DEF Environment, EditSpec, DeleteJob, JobCompletes, JobFails,
       Resync, Operator
  <2> QED
    BY <2>1, QueuedStep DEF ChangeIsQueued
<1>3. CASE UNCHANGED vars
  BY <1>3, QueuedStep DEF vars, ChangeIsQueued, RestInv
<1> QED
  BY <1>1, <1>2, <1>3

\* When the operator has come to rest with DRBD disabled no job is left and
\* the status says so.
THEOREM NothingLeft == Spec => []DisabledLeavesNothing
<1>1. Init => RestInv
  BY DEF Init, IdleWorker, RestInv, PassIsCurrent, DisabledPass, DisabledRest
<1>2. IInv /\ RestInv /\ [Next]_vars => RestInv'
  BY HandlerRests, WorkerRests, EnvironmentRests DEF Next
<1>3. RestInv => DisabledLeavesNothing
  BY DEF RestInv, DisabledRest, DisabledLeavesNothing, Quiet, AllDeleted,
     JobsOf, NoJobs
<1> QED
  BY <1>1, <1>2, <1>3, InitInv, InvStep, PTL DEF Spec

-----------------------------------------------------------------------------
(* Types *)

\* What TypeOK says besides Types.
OtherTypes ==
    /\ current \in SUBSET {"worker", "handler"}
    /\ events \in [completed: BOOLEAN, deleted: [Node -> Nat]]
    /\ queued \in BOOLEAN
    /\ deployOnMaster \in BOOLEAN
    /\ configs \in {"none", "affinity", "full"}
    /\ faults \in 0..MaxFaults
    /\ edits \in 0..MaxEdits
    /\ deletes \in 0..MaxDeletes
    /\ installed \subseteq Node
    /\ twice \subseteq Node
    /\ restarted \in BOOLEAN

\* A call that fails is within the bound.
LEMMA FaultType ==
    faults \in 0..MaxFaults /\ (Fault \/ UNCHANGED faults)
        => faults' \in 0..MaxFaults
  BY DrbdAssumption DEF Fault

\* The deletions of jobs are numbers.
LEMMA EventsType ==
    ASSUME Types, OtherTypes, NEW nodes \in SUBSET Node, JobsDeleted(nodes)
    PROVE  events' \in [completed: BOOLEAN, deleted: [Node -> Nat]]
<1>1. \A n \in Node : JobsOf(n) \in Nat
  BY DEF Types, Jobs, JobsOf
<1>2. [n \in Node |-> IF n \in nodes THEN events.deleted[n] + JobsOf(n)
                                     ELSE events.deleted[n]] \in [Node -> Nat]
  BY <1>1 DEF OtherTypes
<1> QED
  BY <1>2 DEF JobsDeleted, OtherTypes

\* A restart: nothing is undelivered but a completion.
LEMMA RestartTypes ==
    ASSUME OtherTypes, Restart, faults' \in 0..MaxFaults,
           UNCHANGED <<edits, deletes, installed, twice>>
    PROVE  OtherTypes'
<1>1. NoEvents \in [completed: BOOLEAN, deleted: [Node -> Nat]]
  BY DEF NoEvents
<1>2. (\E n \in Node : jobs[n].complete > 0) \in BOOLEAN
  OBVIOUS
<1>3. events' \in [completed: BOOLEAN, deleted: [Node -> Nat]]
  <2> DEFINE complete == \E n \in Node : jobs[n].complete > 0
  <2>1. events' = [NoEvents EXCEPT !.completed = complete]
    BY DEF Restart
  <2>2. complete \in BOOLEAN
    BY <1>2
  <2> HIDE DEF complete
  <2> QED
    BY <1>1, <2>1, <2>2
<1> QED
  BY <1>3 DEF OtherTypes, Restart

\* A panic is a restart.
LEMMA PanicTypes == OtherTypes /\ Panic => OtherTypes'
  BY RestartTypes DEF Panic, OtherTypes

\* The package variables are set from a section that has its nested ones.
LEMMA ConfigsType ==
    ASSUME NEW spec \in FullSpec, spec.section # "partial", OtherTypes,
           HandelDRBDConfigs(spec)
    PROVE  deployOnMaster' \in BOOLEAN /\ configs' \in {"none", "affinity", "full"}
  BY DEF HandelDRBDConfigs, FullSpec, OtherTypes

\* Every step keeps the types that Types leaves out.
LEMMA OtherTypesStep == Types /\ OtherTypes /\ [Next]_vars => OtherTypes'
<1> SUFFICES ASSUME Types, OtherTypes, [Next]_vars
             PROVE  OtherTypes'
  OBVIOUS
<1>1. CASE Reconcile
  <2>1. CASE DeleteDRBDAdapter
    <3>1. faults' \in 0..MaxFaults
      BY <2>1, FaultType DEF DeleteDRBDAdapter, OtherTypes
    <3>2. events' \in [completed: BOOLEAN, deleted: [Node -> Nat]]
      BY <2>1, EventsType DEF DeleteDRBDAdapter
    <3>3. queued' \in BOOLEAN
      BY <2>1 DEF DeleteDRBDAdapter, ReturnError, OtherTypes
    <3> QED
      BY <2>1, <3>1, <3>2, <3>3 DEF DeleteDRBDAdapter, OtherTypes, history
  <2>2. ASSUME NEW n \in Node, CreateDRBDForNode(n)
        PROVE  OtherTypes'
    <3>1. faults' \in 0..MaxFaults
      BY <2>2, FaultType DEF CreateDRBDForNode, OtherTypes
    <3>2. twice' \subseteq Node /\ queued' \in BOOLEAN
      BY <2>2 DEF CreateDRBDForNode, JobCreated, ReturnError, OtherTypes
    <3> QED
      BY <2>2, <3>1, <3>2 DEF CreateDRBDForNode, OtherTypes
  <2>3. CASE CreateDRBDAdapter
    <3>1. faults' \in 0..MaxFaults
      BY <2>3, FaultType DEF CreateDRBDAdapter, OtherTypes
    <3>2. queued' \in BOOLEAN
      BY <2>3 DEF CreateDRBDAdapter, ReturnError, OtherTypes
    <3>3. deployOnMaster' \in BOOLEAN /\ configs' \in {"none", "affinity", "full"}
      <4>1. worker.spec \in FullSpec
        BY DEF Types
      <4> QED
        BY <2>3, <4>1, ConfigsType DEF CreateDRBDAdapter, OtherTypes
    <3> QED
      BY <2>3, <3>1, <3>2, <3>3 DEF CreateDRBDAdapter, OtherTypes, history
  <2>4. CASE StartReconcile
    <3>1. faults' \in 0..MaxFaults
      BY <2>4, FaultType DEF StartReconcile, OtherTypes
    <3> QED
      BY <2>4, <3>1 DEF StartReconcile, OtherTypes, history
  <2>5. CASE FinishCreating
    BY <2>5 DEF FinishCreating, OtherTypes, history
  <2>6. CASE UpdateFinalStatus
    <3>1. faults' \in 0..MaxFaults
      BY <2>6, FaultType DEF UpdateFinalStatus, OtherTypes
    <3>2. current' \in SUBSET {"worker", "handler"} /\ queued' \in BOOLEAN
      BY <2>6 DEF UpdateFinalStatus, StatusUpdated, ReturnError, OtherTypes
    <3> QED
      BY <2>6, <3>1, <3>2 DEF UpdateFinalStatus, OtherTypes, history
  <2>7. CASE PanicOnCreating
    BY <2>7, PanicTypes DEF PanicOnCreating
  <2> QED
    BY <1>1, <2>1, <2>2, <2>3, <2>4, <2>5, <2>6, <2>7 DEF Reconcile
<1>2. CASE HandleDrbdJob
  <2>1. CASE CountCompletedJobs
    <3>1. faults' \in 0..MaxFaults
      BY <2>1, FaultType DEF CountCompletedJobs, OtherTypes
    <3> QED
      BY <2>1, <3>1 DEF CountCompletedJobs, OtherTypes, history
  <2>2. CASE ReadForJobUpdate
    <3>1. faults' \in 0..MaxFaults
      BY <2>2, FaultType DEF ReadForJobUpdate, OtherTypes
    <3> QED
      BY <2>2, <3>1 DEF ReadForJobUpdate, OtherTypes, history
  <2>3. CASE WriteForJobUpdate
    <3>1. faults' \in 0..MaxFaults
      BY <2>3, FaultType DEF WriteForJobUpdate, OtherTypes
    <3>2. current' \in SUBSET {"worker", "handler"} /\ queued' \in BOOLEAN
      BY <2>3 DEF WriteForJobUpdate, StatusUpdated, OtherTypes
    <3> QED
      BY <2>3, <3>1, <3>2 DEF WriteForJobUpdate, OtherTypes, history
  <2>4. ASSUME NEW n \in Node, PanicOnJobDelete(n)
        PROVE  OtherTypes'
    BY <2>4, PanicTypes DEF PanicOnJobDelete
  <2>5. ASSUME NEW n \in Node, ReadForJobDelete(n)
        PROVE  OtherTypes'
    <3>1. faults' \in 0..MaxFaults
      BY <2>5, FaultType DEF ReadForJobDelete, OtherTypes
    <3>2. events' \in [completed: BOOLEAN, deleted: [Node -> Nat]]
      BY <2>5 DEF ReadForJobDelete, OtherTypes
    <3>3. deployOnMaster' \in BOOLEAN /\ configs' \in {"none", "affinity", "full"}
      <4>1. cluster.spec \in FullSpec
        BY DEF Types
      <4> QED
        BY <2>5, <4>1, ConfigsType DEF ReadForJobDelete, OtherTypes
    <3> QED
      BY <2>5, <3>1, <3>2, <3>3 DEF ReadForJobDelete, OtherTypes, history
  <2>6. ASSUME NEW n \in Node, RecreateJob(n)
        PROVE  OtherTypes'
    <3>1. faults' \in 0..MaxFaults
      BY <2>6, FaultType DEF RecreateJob, OtherTypes
    <3>2. twice' \subseteq Node /\ queued' \in BOOLEAN
      BY <2>6 DEF RecreateJob, JobCreated, OtherTypes
    <3> QED
      BY <2>6, <3>1, <3>2 DEF RecreateJob, OtherTypes
  <2>7. CASE PanicOnRecreating
    BY <2>7, PanicTypes DEF PanicOnRecreating
  <2> QED
    BY <1>2, <2>1, <2>2, <2>3, <2>4, <2>5, <2>6, <2>7 DEF HandleDrbdJob
<1>3. CASE Crash
  BY <1>3, FaultType, RestartTypes DEF Crash, OtherTypes
<1>4. CASE Environment
  <2>1. CASE EditSpec
    BY <2>1, DrbdAssumption DEF EditSpec, OtherTypes, Operator, history
  <2>2. ASSUME NEW n \in Node, DeleteJob(n)
        PROVE  OtherTypes'
    <3>1. deletes' \in 0..MaxDeletes
      BY <2>2, DrbdAssumption DEF DeleteJob, OtherTypes
    <3>2. events' \in [completed: BOOLEAN, deleted: [Node -> Nat]]
      BY <2>2 DEF DeleteJob, OtherTypes
    <3> QED
      BY <2>2, <3>1, <3>2 DEF DeleteJob, OtherTypes, Operator, history
  <2>3. ASSUME NEW n \in Node, JobCompletes(n)
        PROVE  OtherTypes'
    BY <2>3 DEF JobCompletes, OtherTypes, Operator
  <2>4. ASSUME NEW n \in Node, JobFails(n)
        PROVE  OtherTypes'
    BY <2>4 DEF JobFails, OtherTypes, Operator, history
  <2>5. CASE Resync
    <3> DEFINE complete ==
                  events.completed \/ \E n \in Node : jobs[n].complete > 0
    <3>1. events' = [events EXCEPT !.completed = complete]
      BY <2>5 DEF Resync
    <3>2. complete \in BOOLEAN
      OBVIOUS
    <3> HIDE DEF complete
    <3>3. events' \in [completed: BOOLEAN, deleted: [Node -> Nat]]
      BY <3>1, <3>2 DEF OtherTypes
    <3> QED
      BY <2>5, <3>3 DEF Resync, OtherTypes, Operator, history
  <2> QED
    BY <1>4, <2>1, <2>2, <2>3, <2>4, <2>5 DEF Environment
<1>5. CASE UNCHANGED vars
  BY <1>5 DEF vars, OtherTypes
<1> QED
  BY <1>1, <1>2, <1>3, <1>4, <1>5 DEF Next

\* TypeOK: the variables keep their types.
THEOREM TypeCorrect == Spec => []TypeOK
<1>1. Init => OtherTypes
  <2>1. 0 \in 0..MaxFaults /\ 0 \in 0..MaxEdits /\ 0 \in 0..MaxDeletes
    BY DrbdAssumption
  <2>2. NoEvents \in [completed: BOOLEAN, deleted: [Node -> Nat]]
    BY DEF NoEvents
  <2> QED
    BY <2>1, <2>2 DEF Init, OtherTypes
<1>2. IInv => Types
  BY DEF IInv
<1>3. Types /\ OtherTypes => TypeOK
  BY DEF Types, OtherTypes, TypeOK
<1> QED
  BY <1>1, <1>2, <1>3, InitInv, InvStep, OtherTypesStep, PTL DEF Spec

-----------------------------------------------------------------------------
(* Completion means installed *)

\* The condition of CompletionMeansInstalled: no node has had two jobs, and
\* the process remembers which nodes get one.
Counts == twice = {} /\ (Master = {} \/ ~restarted)

WorkersInstalled == Node \ Master \subseteq installed

\* The jobs there are say what was installed, one to a node, and are those of
\* nodes that need an installation.
JobsTell ==
    /\ \A n \in Node : jobs[n].complete > 0 => n \in installed
    /\ twice = {} => \A n \in Node : JobsOf(n) <= 1
    /\ Master = {} \/ ~restarted =>
          \A n \in Node : JobsOf(n) > 0 => n \in NeedInstall

\* A number that is recorded, or that the worker or the handler holds in order
\* to record it, was counted when all worker nodes had been installed.
NumbersTell ==
    Counts /\ (\/ cluster.status.jobNum > 0
               \/ worker.status.jobNum > 0
               \/ handler.jobCount > 0)
        => WorkersInstalled

\* A subset of a finite set that is as large is the whole set.
LEMMA AllCounted ==
    ASSUME Types, JobsTell, Counts, CompletedJobs > 0,
           CompletedJobs >= Cardinality(NeedInstall)
    PROVE  WorkersInstalled
<1> DEFINE number  == [n \in Node |-> jobs[n].complete]
           counted == UNION {{n} \X (1..number[n]) : n \in Node}
           needed  == NeedInstall \X {1}
<1>1. NeedInstall \subseteq Node /\ Node \ Master \subseteq NeedInstall
  BY DEF NeedInstall
<1>2. CompletedJobs = Cardinality(counted)
  <2>1. InHwameistor
    BY DEF CompletedJobs
  <2> QED
    BY <2>1 DEF CompletedJobs, Total
<1>3. counted \subseteq needed
  <2> SUFFICES ASSUME NEW n \in Node, NEW i \in 1..number[n]
               PROVE  <<n, i>> \in needed
    OBVIOUS
  <2>1. JobsOf(n) <= 1 /\ (JobsOf(n) > 0 => n \in NeedInstall)
    BY DEF JobsTell, Counts
  <2>2. /\ jobs[n].complete \in Nat /\ jobs[n].running \in Nat
        /\ jobs[n].failed \in Nat
    BY DEF Types, Jobs
  <2>3. i = 1 /\ JobsOf(n) > 0
    BY <2>1, <2>2 DEF JobsOf
  <2> QED
    BY <2>1, <2>3
<1>4. /\ IsFiniteSet(needed)
      /\ Cardinality(needed) = Cardinality(NeedInstall)
      /\ Cardinality(NeedInstall) \in Nat
  <2>1. IsFiniteSet(NeedInstall)
    BY <1>1, FS_Subset, DrbdAssumption
  <2>2. Cardinality(NeedInstall) \in Nat
    BY <2>1, FS_CardinalityType
  <2>3. IsFiniteSet({1}) /\ Cardinality({1}) = 1
    BY FS_Singleton
  <2>4. /\ IsFiniteSet(needed)
        /\ Cardinality(needed) = Cardinality(NeedInstall) * Cardinality({1})
    BY <2>1, <2>3, FS_Product
  <2> QED
    BY <2>2, <2>3, <2>4
<1>5. counted = needed
  <2> HIDE DEF counted, needed
  <2>1. /\ Cardinality(counted) <= Cardinality(needed)
        /\ Cardinality(needed) = Cardinality(counted) => needed = counted
    BY <1>3, <1>4, FS_Subset
  <2>2. Cardinality(counted) \in Nat
    BY <1>3, <1>4, FS_Subset, FS_CardinalityType
  <2> QED
    BY <1>2, <1>4, <2>1, <2>2
<1>6. ASSUME NEW n \in Node \ Master
      PROVE  n \in installed
  <2>1. <<n, 1>> \in counted
    BY <1>1, <1>5
  <2>2. 1 \in 1..jobs[n].complete
    BY <2>1
  <2>3. jobs[n].complete > 0
    BY <2>2 DEF Types, Jobs
  <2> QED
    BY <2>3 DEF JobsTell
<1> QED
  BY <1>6 DEF WorkersInstalled

\* Jobs are only created on nodes that need an installation, and the second of
\* a node is noted.
LEMMA CreatedTells ==
    ASSUME Types, JobsTell, NEW n \in Node, n \in NeedInstall,
           JobCreated(n), UNCHANGED <<deployOnMaster, installed, restarted>>
    PROVE  JobsTell'
<1>1. \A m \in Node : /\ jobs[m].complete \in Nat /\ jobs[m].running \in Nat
                      /\ jobs[m].failed \in Nat
  BY DEF Types, Jobs
<1>2. /\ jobs'[n].complete = jobs[n].complete
      /\ jobs'[n].failed = jobs[n].failed
      /\ jobs'[n].running = jobs[n].running + 1
      /\ \A m \in Node \ {n} : jobs'[m] = jobs[m]
  BY DEF JobCreated, Types, Jobs
<1>3. ASSUME twice' = {}
      PROVE  twice = {} /\ JobsOf(n) <= 0
  <2>1. JobsOf(n) \in Nat
    BY <1>1 DEF JobsOf
  <2>2. ~(JobsOf(n) > 0)
    BY <1>3 DEF JobCreated
  <2> QED
    BY <1>3, <2>1, <2>2 DEF JobCreated
<1>4. NeedInstall' = NeedInstall
  BY DEF NeedInstall
<1>5. \A m \in Node : jobs'[m].complete > 0 => m \in installed'
  BY <1>2 DEF JobsTell
<1>6. twice' = {} => \A m \in Node : JobsOf(m)' <= 1
  BY <1>1, <1>2, <1>3 DEF JobsTell, JobsOf
<1>7. Master = {} \/ ~restarted' =>
        \A m \in Node : JobsOf(m)' > 0 => m \in NeedInstall'
  BY <1>1, <1>2, <1>4 DEF JobsTell, JobsOf
<1> QED
  BY <1>5, <1>6, <1>7 DEF JobsTell

\* Other steps create no job; a job that completes has installed.
LEMMA KeptTells ==
    ASSUME Types, Types', JobsTell, installed \subseteq installed',
           twice' = twice,
           Master = {} \/ ~restarted' =>
                (Master = {} \/ ~restarted)
                /\ NeedInstall \subseteq NeedInstall',
           \A n \in Node :
                /\ JobsOf(n)' <= JobsOf(n)
                /\ \/ jobs'[n].complete <= jobs[n].complete
                   \/ n \in installed'
    PROVE  JobsTell'
<1>1. \A n \in Node : /\ jobs[n].complete \in Nat /\ jobs'[n].complete \in Nat
                      /\ JobsOf(n) \in Nat /\ JobsOf(n)' \in Nat
  BY DEF Types, Jobs, JobsOf
<1>2. \A n \in Node : jobs'[n].complete > 0 => n \in installed'
  BY <1>1 DEF JobsTell
<1>3. twice' = {} => \A n \in Node : JobsOf(n)' <= 1
  BY <1>1 DEF JobsTell
<1>4. Master = {} \/ ~restarted' =>
        \A n \in Node : JobsOf(n)' > 0 => n \in NeedInstall'
  BY <1>1 DEF JobsTell
<1> QED
  BY <1>2, <1>3, <1>4 DEF JobsTell

\* Where nothing new is counted the numbers keep what they tell.
LEMMA KeptNumbersTell ==
    ASSUME NumbersTell, Counts' => Counts, installed \subseteq installed',
           \/ cluster.status.jobNum > 0
           \/ worker.status.jobNum > 0
           \/ handler.jobCount > 0
           \/ ~(\/ cluster'.status.jobNum > 0
                \/ worker'.status.jobNum > 0
                \/ handler'.jobCount > 0)
    PROVE  NumbersTell'
  BY DEF NumbersTell, WorkersInstalled

\* The history only grows, so that what counts later has counted before.
LEMMA CountsBefore == OtherTypes /\ [Next]_vars /\ Counts' => Counts
<1> SUFFICES ASSUME OtherTypes, [Next]_vars, Counts'
             PROVE  Counts
  OBVIOUS
<1>1. twice \subseteq twice'
  BY DEF Next, Reconcile, HandleDrbdJob, Environment, vars, history,
     StartReconcile, CreateDRBDAdapter, CreateDRBDForNode, FinishCreating,
     DeleteDRBDAdapter, UpdateFinalStatus, CountCompletedJobs,
     ReadForJobUpdate, WriteForJobUpdate, PanicOnJobDelete, ReadForJobDelete,
     PanicOnCreating, PanicOnRecreating, Panic, RecreateJob, JobCreated, Crash, EditSpec, DeleteJob, JobCompletes,
     JobFails, Resync
<1>2. restarted => restarted'
  BY DEF Next, Reconcile, HandleDrbdJob, Environment, vars, history,
     StartReconcile, CreateDRBDAdapter, CreateDRBDForNode, FinishCreating,
     DeleteDRBDAdapter, UpdateFinalStatus, CountCompletedJobs,
     ReadForJobUpdate, WriteForJobUpdate, PanicOnJobDelete, ReadForJobDelete,
     PanicOnCreating, PanicOnRecreating, Panic, RecreateJob, Crash, Restart, EditSpec, DeleteJob, JobCompletes,
     JobFails, Resync
<1> QED
  BY <1>1, <1>2 DEF Counts

\* Every step keeps what the jobs say.
LEMMA JobsTellStep ==
    Types /\ Types' /\ OtherTypes /\ OtherTypes' /\ JobsTell
        /\ Master \subseteq Node /\ [Next]_vars => JobsTell'
<1> SUFFICES ASSUME Types, Types', OtherTypes, OtherTypes', JobsTell,
                    Master \subseteq Node, [Next]_vars
             PROVE  JobsTell'
  OBVIOUS
<1>0. \A n \in Node : /\ jobs[n].running \in Nat /\ jobs'[n].running \in Nat
                      /\ jobs[n].complete \in Nat /\ jobs'[n].complete \in Nat
                      /\ jobs[n].failed \in Nat /\ jobs'[n].failed \in Nat
  BY DEF Types, Jobs
<1>1. ASSUME UNCHANGED <<jobs, twice, installed, restarted>>,
             deployOnMaster => deployOnMaster'
      PROVE  JobsTell'
  <2>1. NeedInstall \subseteq NeedInstall'
    BY <1>1 DEF NeedInstall
  <2>2. \A n \in Node : JobsOf(n)' <= JobsOf(n)
    BY <1>0, <1>1 DEF JobsOf
  <2> QED
    BY <1>0, <1>1, <2>1, <2>2, KeptTells
<1>2. ASSUME NEW n \in Node,
             CreateDRBDForNode(n) \/ RecreateJob(n)
      PROVE  JobsTell'
  <2>1. UNCHANGED <<deployOnMaster, installed, restarted>>
    BY <1>2 DEF CreateDRBDForNode, RecreateJob
  <2>2. \/ n \in NeedInstall /\ JobCreated(n)
        \/ UNCHANGED <<jobs, twice>>
    BY <1>2 DEF CreateDRBDForNode, RecreateJob
  <2> QED
    BY <1>1, <2>1, <2>2, CreatedTells
<1>3. ASSUME NEW nodes \in SUBSET Node, JobsDeleted(nodes),
             UNCHANGED <<deployOnMaster, twice, installed, restarted>>
      PROVE  JobsTell'
  <2>1. \A n \in Node : jobs'[n] = NoJobs \/ jobs'[n] = jobs[n]
    BY <1>3 DEF JobsDeleted
  <2>2. \A n \in Node : /\ JobsOf(n)' <= JobsOf(n)
                        /\ jobs'[n].complete <= jobs[n].complete
    BY <1>0, <2>1 DEF JobsOf, NoJobs
  <2>3. NeedInstall' = NeedInstall
    BY <1>3 DEF NeedInstall
  <2> QED
    BY <1>3, <2>2, <2>3, KeptTells
<1>4. ASSUME Restart, UNCHANGED <<jobs, installed, twice>>
      PROVE  JobsTell'
  <2>1. Master = {} => NeedInstall = NeedInstall'
    BY DEF NeedInstall
  <2>2. restarted'
    BY <1>4 DEF Restart
  <2>3. \A n \in Node : JobsOf(n)' <= JobsOf(n)
    BY <1>0, <1>4 DEF JobsOf
  <2> QED
    BY <1>0, <1>4, <2>1, <2>2, <2>3, KeptTells
<1>5. CASE Reconcile
  <2>1. CASE DeleteDRBDAdapter
    <3>1. PICK nodes \in SUBSET Node : JobsDeleted(nodes)
      BY <2>1 DEF DeleteDRBDAdapter
    <3> QED
      BY <1>3, <2>1, <3>1 DEF DeleteDRBDAdapter, history
  <2>2. CASE StartReconcile
    BY <1>1, <2>2 DEF StartReconcile, history
  <2>3. CASE CreateDRBDAdapter
    <3>1. deployOnMaster => deployOnMaster'
      BY <2>3 DEF CreateDRBDAdapter, HandelDRBDConfigs
    <3> QED
      BY <1>1, <2>3, <3>1 DEF CreateDRBDAdapter, history
  <2>4. CASE FinishCreating
    BY <1>1, <2>4 DEF FinishCreating, history
  <2>5. CASE UpdateFinalStatus
    BY <1>1, <2>5 DEF UpdateFinalStatus, history
  <2>6. CASE PanicOnCreating
    BY <1>4, <2>6 DEF PanicOnCreating, Panic
  <2> QED
    BY <1>2, <1>5, <2>1, <2>2, <2>3, <2>4, <2>5, <2>6 DEF Reconcile
<1>6. CASE HandleDrbdJob
  <2>1. CASE CountCompletedJobs
    BY <1>1, <2>1 DEF CountCompletedJobs, history
  <2>2. CASE ReadForJobUpdate
    BY <1>1, <2>2 DEF ReadForJobUpdate, history
  <2>3. CASE WriteForJobUpdate
    BY <1>1, <2>3 DEF WriteForJobUpdate, history
  <2>4. ASSUME NEW n \in Node, PanicOnJobDelete(n)
        PROVE  JobsTell'
    BY <1>4, <2>4 DEF PanicOnJobDelete, Panic
  <2>5. ASSUME NEW n \in Node, ReadForJobDelete(n)
        PROVE  JobsTell'
    <3>1. deployOnMaster => deployOnMaster'
      BY <2>5 DEF ReadForJobDelete, HandelDRBDConfigs
    <3>2. UNCHANGED <<jobs, twice, installed, restarted>>
      BY <2>5 DEF ReadForJobDelete, history
    <3> QED
      BY <1>1, <3>1, <3>2
  <2>6. ASSUME NEW n \in Node, RecreateJob(n)
        PROVE  JobsTell'
    BY <1>2, <2>6
  <2>7. CASE PanicOnRecreating
    BY <1>4, <2>7 DEF PanicOnRecreating, Panic
  <2> QED
    BY <1>6, <2>1, <2>2, <2>3, <2>4, <2>5, <2>6, <2>7 DEF HandleDrbdJob
<1>7. CASE Crash
  BY <1>4, <1>7 DEF Crash
<1>8. ASSUME NEW n \in Node, DeleteJob(n) \/ JobCompletes(n) \/ JobFails(n)
      PROVE  JobsTell'
  <2>1. UNCHANGED <<deployOnMaster, twice, restarted>>
    BY <1>8 DEF DeleteJob, JobCompletes, JobFails, Operator, history
  <2>2. NeedInstall' = NeedInstall
    BY <2>1 DEF NeedInstall
  <2>3. \A m \in Node \ {n} : jobs'[m] = jobs[m]
    BY <1>8 DEF DeleteJob, JobCompletes, JobFails, Types
  <2>4. /\ installed \subseteq installed'
        /\ JobsOf(n)' <= JobsOf(n)
        /\ jobs'[n].complete <= jobs[n].complete \/ n \in installed'
    <3>1. CASE DeleteJob(n)
      <4>1. PICK kind \in {"running", "complete", "failed"} :
                /\ jobs[n][kind] > 0
                /\ jobs' = [jobs EXCEPT ![n][kind] = @ - 1]
        BY <3>1 DEF DeleteJob
      <4>2. /\ jobs'[n].running <= jobs[n].running
            /\ jobs'[n].complete <= jobs[n].complete
            /\ jobs'[n].failed <= jobs[n].failed
        <5>1. CASE kind = "running"
          BY <1>0, <4>1, <5>1 DEF Types, Jobs
        <5>2. CASE kind = "complete"
          BY <1>0, <4>1, <5>2 DEF Types, Jobs
        <5>3. CASE kind = "failed"
          BY <1>0, <4>1, <5>3 DEF Types, Jobs
        <5> QED
          BY <4>1, <5>1, <5>2, <5>3
      <4>3. JobsOf(n)' <= JobsOf(n)
        BY <1>0, <4>2 DEF JobsOf
      <4> QED
        BY <3>1, <4>2, <4>3 DEF DeleteJob, history
    <3>2. CASE JobCompletes(n)
      <4>1. /\ jobs'[n].running = jobs[n].running - 1
            /\ jobs'[n].complete = jobs[n].complete + 1
            /\ jobs'[n].failed = jobs[n].failed
        BY <3>2 DEF JobCompletes, Types, Jobs
      <4>2. JobsOf(n)' <= JobsOf(n)
        BY <1>0, <4>1 DEF JobsOf
      <4> QED
        BY <3>2, <4>2 DEF JobCompletes
    <3>3. CASE JobFails(n)
      <4>1. /\ jobs'[n].running = jobs[n].running - 1
            /\ jobs'[n].complete = jobs[n].complete
            /\ jobs'[n].failed = jobs[n].failed + 1
        BY <3>3 DEF JobFails, Types, Jobs
      <4>2. JobsOf(n)' <= JobsOf(n)
        BY <1>0, <4>1 DEF JobsOf
      <4> QED
        BY <1>0, <3>3, <4>1, <4>2 DEF JobFails, history
    <3> QED
      BY <1>8, <3>1, <3>2, <3>3
  <2>5. \A m \in Node : /\ JobsOf(m)' <= JobsOf(m)
                        /\ \/ jobs'[m].complete <= jobs[m].complete
                           \/ m \in installed'
    BY <1>0, <2>3, <2>4 DEF JobsOf
  <2> QED
    BY <2>1, <2>2, <2>4, <2>5, KeptTells
<1>9. CASE EditSpec \/ Resync
  BY <1>1, <1>9 DEF EditSpec, Resync, Operator, history
<1>10. CASE UNCHANGED vars
  BY <1>1, <1>10 DEF vars
<1> QED
  BY <1>5, <1>6, <1>7, <1>8, <1>9, <1>10 DEF Next, Environment

\* Every step keeps what the numbers tell: a number is copied, reset, or
\* counted when there are as many jobs as nodes.
LEMMA NumbersTellStep ==
    IInv /\ OtherTypes /\ JobsTell /\ NumbersTell /\ [Next]_vars
        => NumbersTell'
<1> SUFFICES ASSUME IInv, OtherTypes, JobsTell, NumbersTell, [Next]_vars
             PROVE  NumbersTell'
  OBVIOUS
<1>1. Counts' => Counts
  BY CountsBefore
<1>2. installed \subseteq installed'
  BY DEF Next, Reconcile, HandleDrbdJob, Environment, vars, history,
     StartReconcile, CreateDRBDAdapter, CreateDRBDForNode, FinishCreating,
     DeleteDRBDAdapter, UpdateFinalStatus, CountCompletedJobs,
     ReadForJobUpdate, WriteForJobUpdate, PanicOnJobDelete, ReadForJobDelete,
     PanicOnCreating, PanicOnRecreating, Panic, RecreateJob, Crash, EditSpec, DeleteJob, JobCompletes, JobFails, Resync
<1>3. /\ ~(IdleWorker.status.jobNum > 0) /\ ~(NewStatus.jobNum > 0)
      /\ ~(IdleHandler.jobCount > 0)
  BY DEF IdleWorker, IdleHandler, NewStatus
<1>4. ASSUME \/ cluster' = cluster
             \/ cluster'.status = cluster.status
             \/ cluster'.status = worker.status
             \/ cluster'.status.jobNum = handler.jobCount,
             \/ worker' = IdleWorker
             \/ worker'.status.jobNum = worker.status.jobNum
             \/ worker'.status = NewStatus
             \/ worker'.status = cluster.status,
             \/ handler' = IdleHandler
             \/ handler'.jobCount = handler.jobCount
             \/ ~(handler'.jobCount > 0)
      PROVE  NumbersTell'
  BY <1>1, <1>2, <1>3, <1>4, KeptNumbersTell
<1>5. CASE CountCompletedJobs
  <2>1. UNCHANGED <<cluster, worker>>
    BY <1>5 DEF CountCompletedJobs
  <2>2. CASE handler' = handler
    BY <1>4, <2>1, <2>2
  <2>3. CASE /\ CompletedJobs >= Cardinality(NeedInstall)
             /\ handler' = [IdleHandler EXCEPT !.at = "counted",
                                               !.jobCount = CompletedJobs]
    <3>1. handler'.jobCount = CompletedJobs
      BY <2>3 DEF IdleHandler
    <3>2. CASE CompletedJobs > 0
      <4>1. Counts => WorkersInstalled
        BY <2>3, <3>2, AllCounted DEF IInv
      <4>2. Counts' => WorkersInstalled'
        BY <1>1, <1>2, <4>1 DEF WorkersInstalled
      <4> QED
        BY <4>2 DEF NumbersTell
    <3>3. CASE ~(CompletedJobs > 0)
      BY <1>4, <2>1, <3>1, <3>3
    <3> QED
      BY <3>2, <3>3
  <2> QED
    BY <1>5, <2>2, <2>3 DEF CountCompletedJobs
<1>6. CASE Reconcile /\ ~PanicOnCreating
  <2>1. handler' = handler
    BY <1>6 DEF Reconcile, StartReconcile, CreateDRBDAdapter,
       CreateDRBDForNode, FinishCreating, DeleteDRBDAdapter, UpdateFinalStatus
  <2>2. CASE StartReconcile
    <3>1. worker' = worker \/ worker'.status = cluster.status
      BY <2>2 DEF StartReconcile, IdleWorker
    <3> QED
      BY <1>4, <2>1, <2>2, <3>1 DEF StartReconcile
  <2>3. CASE CreateDRBDAdapter
    <3>1. worker' = IdleWorker \/ worker'.status = worker.status
      BY <2>3 DEF CreateDRBDAdapter, ReturnError, IInv, Types
    <3> QED
      BY <1>4, <2>1, <2>3, <3>1 DEF CreateDRBDAdapter
  <2>4. ASSUME NEW n \in Node, CreateDRBDForNode(n)
        PROVE  NumbersTell'
    <3>1. worker' = IdleWorker \/ worker'.status = worker.status
      BY <2>4 DEF CreateDRBDForNode, ReturnError, IInv, Types
    <3> QED
      BY <1>4, <2>1, <2>4, <3>1 DEF CreateDRBDForNode
  <2>5. CASE FinishCreating
    <3>1. worker'.status.jobNum = worker.status.jobNum
      BY <2>5 DEF FinishCreating, IInv, Types, Status
    <3> QED
      BY <1>4, <2>1, <2>5, <3>1 DEF FinishCreating
  <2>6. CASE DeleteDRBDAdapter
    <3>1. worker' = IdleWorker \/ worker'.status = NewStatus
      BY <2>6 DEF DeleteDRBDAdapter, ReturnError, IInv, Types
    <3> QED
      BY <1>4, <2>1, <2>6, <3>1 DEF DeleteDRBDAdapter
  <2>7. CASE UpdateFinalStatus
    <3>1. worker' = IdleWorker
      BY <2>7 DEF UpdateFinalStatus, ReturnError
    <3>2. cluster' = cluster \/ cluster'.status = worker.status
      BY <2>7 DEF UpdateFinalStatus, StatusUpdated, IInv, Types
    <3> QED
      BY <1>4, <2>1, <3>1, <3>2
  <2> QED
    BY <1>6, <2>2, <2>3, <2>4, <2>5, <2>6, <2>7 DEF Reconcile
<1>7. CASE ReadForJobUpdate
  <2>1. handler' = IdleHandler \/ handler'.jobCount = handler.jobCount
    BY <1>7 DEF ReadForJobUpdate, HandlerReturns, IInv, Types
  <2> QED
    BY <1>4, <1>7, <2>1 DEF ReadForJobUpdate
<1>8. CASE WriteForJobUpdate
  <2>1. handler' = IdleHandler /\ worker' = worker
    BY <1>8 DEF WriteForJobUpdate, HandlerReturns
  <2>2. cluster' = cluster \/ cluster'.status.jobNum = handler.jobCount
    BY <1>8 DEF WriteForJobUpdate, StatusUpdated, IInv, Types
  <2> QED
    BY <1>4, <2>1, <2>2
<1>9. ASSUME NEW n \in Node,
             ReadForJobDelete(n) \/ RecreateJob(n)
      PROVE  NumbersTell'
  <2>1. cluster' = cluster
    BY <1>9 DEF ReadForJobDelete, RecreateJob
  <2>2. worker' = worker
    BY <1>9 DEF ReadForJobDelete, RecreateJob
  <2>3. \/ handler' = IdleHandler
        \/ handler' = handler
        \/ handler' = [IdleHandler EXCEPT !.at = "recreating",
                                          !.recreate = {n}]
    BY <1>9 DEF ReadForJobDelete, RecreateJob, HandlerReturns
  <2>4. \/ handler' = IdleHandler
        \/ handler' = handler
        \/ ~(handler'.jobCount > 0)
    <3>1. [IdleHandler EXCEPT !.at = "recreating", !.recreate = {n}].jobCount
            = IdleHandler.jobCount
      BY InitialTypes
    <3> QED
      BY <1>3, <2>3, <3>1
  <2> QED
    BY <1>4, <2>1, <2>2, <2>4
<1>10. CASE Crash
  BY <1>4, <1>10 DEF Crash, Restart
<1>11. CASE Environment
  <2>1. UNCHANGED <<worker, handler>>
    BY <1>11 DEF Environment, EditSpec, DeleteJob, JobCompletes, JobFails,
       Resync, Operator
  <2>2. cluster' = cluster \/ cluster'.status = cluster.status
    BY <1>11 DEF Environment, EditSpec, DeleteJob, JobCompletes, JobFails,
       Resync, IInv, Types
  <2> QED
    BY <1>4, <2>1, <2>2
<1>12. CASE UNCHANGED vars
  BY <1>4, <1>12 DEF vars
<1>13. CASE PanicOnCreating \/ PanicOnRecreating
            \/ \E n \in Node : PanicOnJobDelete(n)
  BY <1>4, <1>13 DEF PanicOnCreating, PanicOnRecreating, PanicOnJobDelete,
     Panic, Restart
<1> QED
  BY <1>5, <1>6, <1>7, <1>8, <1>9, <1>10, <1>11, <1>12, <1>13
     DEF Next, HandleDrbdJob

\* CompletionMeansInstalled: while no node has had two jobs, and no restart
\* has made the process forget that masters need DRBD as well, the number that
\* is recorded means that every worker node has DRBD.
THEOREM RecordedIsInstalled == Spec => []CompletionMeansInstalled
<1>1. Init => JobsTell /\ NumbersTell
  <2> SUFFICES ASSUME Init
               PROVE  JobsTell /\ NumbersTell
    OBVIOUS
  <2>1. \A n \in Node : jobs[n].complete = 0 /\ JobsOf(n) = 0
    BY DEF Init, NoJobs, JobsOf
  <2>2. /\ cluster.status.jobNum = 0 /\ worker.status.jobNum = 0
        /\ handler.jobCount = 0
    BY DEF Init, NewStatus, IdleWorker, IdleHandler
  <2> QED
    BY <2>1, <2>2 DEF JobsTell, NumbersTell
<1>2. JobsTell /\ IInv /\ IInv' /\ TypeOK /\ TypeOK' /\ [Next]_vars => JobsTell'
  <2>1. IInv => Types
    BY DEF IInv
  <2>2. TypeOK => OtherTypes
    BY DEF TypeOK, OtherTypes
  <2>3. IInv' => Types'
    BY DEF IInv
  <2>4. TypeOK' => OtherTypes'
    BY DEF TypeOK, OtherTypes
  <2> QED
    BY <2>1, <2>2, <2>3, <2>4, JobsTellStep, DrbdAssumption
<1>3. JobsTell /\ NumbersTell /\ IInv /\ TypeOK /\ [Next]_vars => NumbersTell'
  BY NumbersTellStep DEF TypeOK, OtherTypes
<1>4. NumbersTell => CompletionMeansInstalled
  BY DEF NumbersTell, Counts, WorkersInstalled, CompletionMeansInstalled
<1>5. Spec => []TypeOK
  BY TypeCorrect
<1>6. Spec => []IInv
  BY InitInv, InvStep, PTL DEF Spec
<1> QED
  BY <1>1, <1>2, <1>3, <1>4, <1>5, <1>6, PTL DEF Spec

=============================================================================
