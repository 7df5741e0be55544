------------------------------ MODULE Shutdown ------------------------------
(***************************************************************************)
(* TFCluster.shutdown.  The cluster runs: every PS occupies the slot of    *)
(* its executor with a task of the start job that waits on its manager's   *)
(* control queue; a worker either runs in the foreground of its task       *)
(* (InputMode.TENSORFLOW) or in a background process, its task being over  *)
(* (InputMode.SPARK).  In TENSORFLOW mode the driver first samples Spark's *)
(* status tracker until it sees only PS tasks; then a Spark job with one   *)
(* task per worker tells the workers to stop, each task the node of the    *)
(* executor it happens to run on; then the driver puts None into each PS's *)
(* control queue and waits; then it waits for all Spark jobs to end.       *)
(*                                                                         *)
(* Executors have one slot; the executor of a node is named by the node.   *)
(***************************************************************************)
EXTENDS Naturals, FiniteSets

CONSTANTS Ps, Worker,       \* the nodes
          Spare,            \* executors without a node
          Spread,           \* does Spark use every executor once in a job?
          MaxCrashes,       \* bound: start tasks that fail and are retried
          TaskMaxFailures   \* spark.task.maxFailures

Node == Ps \cup Worker
Executor == Node \cup Spare
ShutTask == 1..Cardinality(Worker)

ASSUME NodeAssumption ==
    /\ IsFiniteSet(Node) /\ Worker # {}
    /\ Ps \cap Worker = {} /\ Spare \cap Node = {}
ASSUME FlagAssumption == Spread \in BOOLEAN
ASSUME BoundAssumption == MaxCrashes \in Nat /\ TaskMaxFailures \in Nat \ {0}

VARIABLES
    sparkMode, \* input_mode == InputMode.SPARK, fixed when the cluster was started
    task,      \* task[n]: n's task in the start job: active, retrying, done
    crashes,
    orphaned,  \* nodes that were restarted: cluster_info has their old manager
    mgrState,  \* mgrState[n]: 'state' in the manager that cluster_info lists
    noneIn,    \* workers whose queues have got None
    exited,    \* workers whose TensorFlow process is over
    control,   \* control[p]: empty, put, got, stopped, done
    shut,      \* shut[i]: pending, queues, state, done
    at,        \* at[i]: the executor task i of the shutdown job runs on, as a set
    failed,    \* failed[i]: failures of task i of the shutdown job
    usedUp,    \* executors on which a shutdown task was done
    driver,    \* where shutdown() is
    count,     \* how often only PS tasks were seen
    psTodo     \* PS nodes to be stopped yet

startVars == <<sparkMode, task, crashes, orphaned>>
jobVars == <<shut, at, failed, usedUp>>
nodeVars == <<mgrState, noneIn, exited, control>>
driverVars == <<driver, count, psTodo>>
vars == <<startVars, nodeVars, jobVars, driverVars>>

TypeOK ==
    /\ sparkMode \in BOOLEAN
    /\ task \in [Node -> {"active", "retrying", "done"}]
    /\ crashes \in 0..MaxCrashes
    /\ orphaned \subseteq Node
    /\ mgrState \in [Node -> {"running", "stopped"}]
    /\ noneIn \subseteq Worker
    /\ exited \subseteq Worker
    /\ control \in [Ps -> {"empty", "put", "got", "stopped", "done"}]
    /\ shut \in [ShutTask -> {"pending", "queues", "state", "done"}]
    /\ at \in [ShutTask -> SUBSET Executor]
    /\ failed \in [ShutTask -> 0..TaskMaxFailures]
    /\ usedUp \subseteq Executor
    /\ driver \in {"poll", "workers", "ps", "wait", "returned", "raised"}
    /\ count \in 0..3
    /\ psTodo \subseteq Ps

Init ==
    /\ sparkMode \in BOOLEAN
    /\ task = [n \in Node |-> IF sparkMode /\ n \in Worker THEN "done" ELSE "active"]
    /\ crashes = 0
    /\ orphaned = {}
    /\ mgrState = [n \in Node |-> "running"]
    /\ noneIn = {}
    /\ exited = {}
    /\ control = [p \in Ps |-> "empty"]
    /\ shut = [i \in ShutTask |-> "pending"]
    /\ at = [i \in ShutTask |-> {}]
    /\ failed = [i \in ShutTask |-> 0]
    /\ usedUp = {}
    /\ driver = IF sparkMode THEN "workers" ELSE "poll"
    /\ count = 0
    /\ psTodo = Ps

-----------------------------------------------------------------------------
(***************************************************************************)
(* The start job.                                                          *)
(***************************************************************************)
\* An executor's only slot is free.
Free(e) ==
    /\ e \in Node => task[e] # "active"
    /\ \A i \in ShutTask : e \notin at[i]

\* A foreground worker's fn returns, and its task with it.
WorkerFinishes(w) ==
    /\ w \in Worker
    /\ task[w] = "active"
    /\ task' = [task EXCEPT ![w] = "done"]
    /\ exited' = exited \cup {w}
    /\ UNCHANGED <<sparkMode, crashes, orphaned, mgrState, noneIn, control, jobVars, driverVars>>

\* A background worker reads None and leaves its loop (TrainFeed).
WorkerLeaves(w) ==
    /\ w \in noneIn \ exited
    /\ exited' = exited \cup {w}
    /\ UNCHANGED <<startVars, mgrState, noneIn, control, jobVars, driverVars>>

\* A task of the start job fails; Spark will run it again.
NodeFails(n) ==
    /\ task[n] = "active"
    /\ crashes < MaxCrashes
    /\ crashes' = crashes + 1
    /\ task' = [task EXCEPT ![n] = "retrying"]
    /\ UNCHANGED <<sparkMode, orphaned, nodeVars, jobVars, driverVars>>

\* The retried task runs with a manager of its own, while cluster_info goes on
\* listing the old one (ClusterStart: ManagerIsSingleton).
NodeRestarts(n) ==
    /\ task[n] = "retrying"
    /\ Free(n)
    /\ task' = [task EXCEPT ![n] = "active"]
    /\ orphaned' = orphaned \cup {n}
    /\ UNCHANGED <<sparkMode, crashes, nodeVars, jobVars, driverVars>>

(***************************************************************************)
(* The foreground loop of a PS task on its control queue.                  *)
(***************************************************************************)
PsGets(p) ==
    /\ task[p] = "active"
    /\ p \notin orphaned
    /\ control[p] = "put"
    /\ control' = [control EXCEPT ![p] = "got"]
    /\ UNCHANGED <<startVars, mgrState, noneIn, exited, jobVars, driverVars>>

PsStops(p) ==
    /\ task[p] = "active"
    /\ p \notin orphaned
    /\ control[p] = "got"
    /\ mgrState' = [mgrState EXCEPT ![p] = "stopped"]
    /\ control' = [control EXCEPT ![p] = "stopped"]
    /\ UNCHANGED <<startVars, noneIn, exited, jobVars, driverVars>>

\* task_done; the loop and the task end.
PsEnds(p) ==
    /\ task[p] = "active"
    /\ p \notin orphaned
    /\ control[p] = "stopped"
    /\ control' = [control EXCEPT ![p] = "done"]
    /\ task' = [task EXCEPT ![p] = "done"]
    /\ UNCHANGED <<sparkMode, crashes, orphaned, mgrState, noneIn, exited, jobVars, driverVars>>

-----------------------------------------------------------------------------
(***************************************************************************)
(* The driver: polling, in TENSORFLOW mode.                                *)
(***************************************************************************)
NumActiveTasks == Cardinality({n \in Node : task[n] = "active"})

\* Faulty: is content when one task more than the PS is left.
OnlyOneWorkerLeft == NumActiveTasks = Cardinality(Ps) + 1

\* Faulty: waits for fewer tasks than there are PS.
FewerThanPs == NumActiveTasks < Cardinality(Ps)

OnlyPsLeft == NumActiveTasks = Cardinality(Ps)

StartJobActive == \E n \in Node : task[n] # "done"

\* One look at the status tracker that counts: no job any more, or as many
\* active tasks as there are PS, for the third time.  Any other look changes
\* nothing, and does not reset the count.
Poll ==
    /\ driver = "poll"
    /\ IF StartJobActive
          THEN /\ OnlyPsLeft
               /\ count' = count + 1
               /\ driver' = IF count' >= 3 THEN "workers" ELSE "poll"
          ELSE /\ driver' = "workers"
               /\ UNCHANGED count
    /\ UNCHANGED <<startVars, nodeVars, jobVars, psTodo>>

(***************************************************************************)
(* The shutdown job, one task per worker.                                  *)
(***************************************************************************)
ShutStarts(i, e) ==
    /\ driver = "workers"
    /\ shut[i] = "pending"
    /\ Free(e)
    /\ Spread => e \notin usedUp
    /\ shut' = [shut EXCEPT ![i] = "queues"]
    /\ at' = [at EXCEPT ![i] = {e}]
    /\ UNCHANGED <<startVars, nodeVars, failed, usedUp, driverVars>>

\* The task runs on a worker's executor, whose manager has the queues.
WorkersManager(i) == at[i] \subseteq Worker

\* On an executor that has no manager, or a PS's, which lacks the queue, the
\* task raises; when it has failed too often so does shutdown().
ShutFails(i) ==
    /\ driver = "workers"
    /\ shut[i] = "queues"
    /\ ~WorkersManager(i)
    /\ shut' = [shut EXCEPT ![i] = "pending"]
    /\ at' = [at EXCEPT ![i] = {}]
    /\ failed' = [failed EXCEPT ![i] = @ + 1]
    /\ driver' = IF failed'[i] = TaskMaxFailures THEN "raised" ELSE driver
    /\ UNCHANGED <<startVars, nodeVars, usedUp, count, psTodo>>

ShutPutsNone(i) ==
    /\ driver = "workers"
    /\ shut[i] = "queues"
    /\ WorkersManager(i)
    /\ noneIn' = noneIn \cup at[i]
    /\ shut' = [shut EXCEPT ![i] = "state"]
    /\ UNCHANGED <<startVars, mgrState, exited, control, at, failed, usedUp, driverVars>>

ShutSetsState(i) ==
    /\ driver = "workers"
    /\ shut[i] = "state"
    /\ mgrState' = [n \in Node |-> IF n \in at[i] THEN "stopped" ELSE mgrState[n]]
    /\ shut' = [shut EXCEPT ![i] = "done"]
    /\ usedUp' = usedUp \cup at[i]
    /\ at' = [at EXCEPT ![i] = {}]
    /\ UNCHANGED <<startVars, noneIn, exited, control, failed, driverVars>>

ShutJobDone == \A i \in ShutTask : shut[i] = "done"

\* foreachPartition returns when all tasks of the job are done.
WorkersStopped ==
    /\ driver = "workers"
    /\ ShutJobDone
    /\ driver' = "ps"
    /\ UNCHANGED <<startVars, nodeVars, jobVars, count, psTodo>>

(***************************************************************************)
(* The PS nodes, one after the other, and the end.                         *)
(***************************************************************************)
\* q.put(None), when the PS before is through.
StopPs(p) ==
    /\ driver = "ps"
    /\ control[p] = "empty"
    /\ \A q \in Ps : control[q] \in {"empty", "done"}
    /\ control' = [control EXCEPT ![p] = "put"]
    /\ UNCHANGED <<startVars, mgrState, noneIn, exited, jobVars, driverVars>>

\* Faulty: does not wait for task_done.
JoinSkipped(p) == control[p] # "empty"

JoinReturns(p) == control[p] = "done"

\* q.join() returns.
JoinPs(p) ==
    /\ driver = "ps"
    /\ p \in psTodo
    /\ JoinReturns(p)
    /\ psTodo' = psTodo \ {p}
    /\ UNCHANGED <<startVars, nodeVars, jobVars, driver, count>>

AllPsStopped ==
    /\ driver = "ps"
    /\ psTodo = {}
    /\ driver' = "wait"
    /\ UNCHANGED <<startVars, nodeVars, jobVars, count, psTodo>>

\* No active job is left.
Return ==
    /\ driver = "wait"
    /\ ~StartJobActive
    /\ driver' = "returned"
    /\ UNCHANGED <<startVars, nodeVars, jobVars, count, psTodo>>

-----------------------------------------------------------------------------
Driver == \/ Poll \/ WorkersStopped \/ AllPsStopped \/ Return
          \/ \E p \in Ps : StopPs(p) \/ JoinPs(p)

ShutJob(i) == \/ \E e \in Executor : ShutStarts(i, e)
              \/ ShutFails(i) \/ ShutPutsNone(i) \/ ShutSetsState(i)

NodeStep(n) == \/ n \in Worker /\ (WorkerFinishes(n) \/ WorkerLeaves(n))
               \/ n \in Ps /\ (PsGets(n) \/ PsStops(n) \/ PsEnds(n))
               \/ NodeRestarts(n)

Next ==
    \/ Driver
    \/ \E i \in ShutTask : ShutJob(i)
    \/ \E n \in Node : NodeStep(n) \/ NodeFails(n)

Spec == Init /\ [][Next]_vars

\* Driver, Spark and nodes run; fn returns at some time in TENSORFLOW mode.
FairSpec ==
    /\ Spec
    /\ WF_vars(Driver)
    /\ \A i \in ShutTask : WF_vars(ShutJob(i))
    /\ \A n \in Node : WF_vars(NodeStep(n))

-----------------------------------------------------------------------------
(***************************************************************************)
(* Properties.                                                             *)
(***************************************************************************)

\* When shutdown() returns, every node was told to stop: each worker's queues
\* have got None and each manager is in state 'stopped'.
ReturnedMeansStopped ==
    driver = "returned" => noneIn = Worker /\ \A n \in Node : mgrState[n] = "stopped"

\* The shutdown job starts only when all foreground workers have finished
\* ("in TENSORFLOW mode, this will only run after all workers have finished").
WorkersFinishFirst ==
    ~sparkMode /\ driver # "poll" => exited = Worker

\* While no task of the start job fails, the sampling is right about that.
WorkersFinishFirstIfNoneFails == crashes = 0 => WorkersFinishFirst

\* The driver is past a PS only when that PS has marked itself stopped.
PsStoppedWhenJoined == \A p \in Ps \ psTodo : mgrState[p] = "stopped"

\* The driver never gets ahead of the nodes: past a PS only when it has stopped, and
\* back from shutdown() only when all nodes were told to.
StoppedInOrder == TypeOK /\ PsStoppedWhenJoined /\ ReturnedMeansStopped

\* Unless a task of the start job fails, shutdown() comes to an end, and
\* unless it raises every worker's process has come to its end, too.
ShutdownEnds ==
    \/ <>(crashes > 0)
    \/ /\ <>(driver \in {"returned", "raised"})
       /\ <>(driver = "raised" \/ exited = Worker)

=============================================================================
