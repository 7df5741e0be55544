--------------------------- MODULE ShutdownProofs ---------------------------
(***************************************************************************)
(* Proofs about TFCluster.shutdown, for any sets of PS nodes, workers and  *)
(* spare executors, both input modes and any number of restarted nodes.    *)
(*                                                                         *)
(* Nothing in shutdown() names the worker that a task of the shutdown job  *)
(* is to stop: a task stops the node of the executor it runs on.  That all *)
(* workers are stopped when the job is done is a matter of counting: there *)
(* are as many tasks as workers, each was done on a worker's executor, and *)
(* no two on the same (if Spark spreads them).                             *)
(***************************************************************************)
EXTENDS Shutdown, FiniteSetTheorems, TLAPS

Done == {i \in ShutTask : shut[i] = "done"}

\* Where the tasks of the shutdown job run: on one executor each, on different ones,
\* and, when Spark spreads them, on none that was used before.
TasksApart ==
    /\ \A i \in ShutTask : shut[i] \in {"pending", "done"} <=> at[i] = {}
    /\ \A i \in ShutTask : at[i] # {} => \E e \in Executor : at[i] = {e}
    /\ \A i, j \in ShutTask : i # j => at[i] \cap at[j] = {}
    /\ Spread => \A i \in ShutTask : at[i] \cap usedUp = {}

\* A task gets past the queues on a worker's executor only, and what it leaves there.
WorkersTold ==
    /\ \A i \in ShutTask : shut[i] = "state" => at[i] \subseteq noneIn
    /\ usedUp \subseteq noneIn
    /\ \A w \in usedUp : mgrState[w] = "stopped"

\* One worker's executor is used up by each task that is done.
Counted == Spread => Cardinality(usedUp) = Cardinality(Done)

\* How far the driver is.
DriverInStep ==
    /\ driver = "poll" => count <= 2
    /\ driver # "raised" => \A i \in ShutTask : failed[i] < TaskMaxFailures
    /\ driver \in {"ps", "wait", "returned"} => ShutJobDone
    /\ driver \in {"wait", "returned"} => psTodo = {}

\* A PS that has seen None has stopped before it lets the driver go on.
PsInStep ==
    /\ \A p \in Ps : control[p] \in {"stopped", "done"} => mgrState[p] = "stopped"
    /\ \A p \in Ps \ psTodo : control[p] = "done"

\* The inductive invariant.
IInv == TypeOK /\ TasksApart /\ WorkersTold /\ Counted /\ DriverInStep /\ PsInStep

-----------------------------------------------------------------------------
LEMMA NodeFacts ==
    /\ IsFiniteSet(Worker) /\ IsFiniteSet(Ps) /\ IsFiniteSet(Node)
    /\ Cardinality(Worker) \in Nat /\ Cardinality(Ps) \in Nat
    /\ IsFiniteSet(ShutTask) /\ Cardinality(ShutTask) = Cardinality(Worker)
    /\ TaskMaxFailures \in Nat \ {0} /\ MaxCrashes \in Nat
    /\ \A p \in Ps : p \in Node /\ p \notin Worker
    /\ Worker \subseteq Node /\ Node \subseteq Executor
<1>1. IsFiniteSet(Worker) /\ IsFiniteSet(Ps) /\ IsFiniteSet(Node)
  BY NodeAssumption, FS_Subset DEF Node
<1>2. Cardinality(Worker) \in Nat /\ Cardinality(Ps) \in Nat
  BY <1>1, FS_CardinalityType
<1>3. IsFiniteSet(ShutTask) /\ Cardinality(ShutTask) = Cardinality(Worker)
  BY <1>2, FS_Interval DEF ShutTask
<1> QED  BY <1>1, <1>2, <1>3, NodeAssumption, BoundAssumption DEF Node, Executor

LEMMA InitIInv == Init => IInv
<1> SUFFICES ASSUME Init PROVE IInv
  OBVIOUS
<1>1. TypeOK
  <2>1. sparkMode \in BOOLEAN
    BY DEF Init
  <2>2. task \in [Node -> {"active", "retrying", "done"}]
    BY DEF Init
  <2>3. failed \in [ShutTask -> 0..TaskMaxFailures] /\ crashes \in 0..MaxCrashes
    BY NodeFacts DEF Init
  <2>4. driver \in {"poll", "workers", "ps", "wait", "returned", "raised"} /\ count \in 0..3
    BY DEF Init
  <2>5. at \in [ShutTask -> SUBSET Executor]
    BY DEF Init
  <2> QED  BY <2>1, <2>2, <2>3, <2>4, <2>5 DEF Init, TypeOK
<1>2. TasksApart /\ WorkersTold /\ DriverInStep /\ PsInStep
  BY NodeFacts DEF Init, TasksApart, WorkersTold, DriverInStep, PsInStep, ShutJobDone
<1>3. Counted
  <2>1. Done = {}
    BY DEF Init, Done
  <2> QED  BY <2>1 DEF Init, Counted
<1> QED  BY <1>1, <1>2, <1>3 DEF IInv

-----------------------------------------------------------------------------
(* The steps of the nodes: managers only become stopped.                   *)

LEMMA NodeKeeps ==
    ASSUME IInv, TypeOK', UNCHANGED <<shut, at, failed, usedUp, driver, count, psTodo>>,
           noneIn' = noneIn,
           \A n \in Node : mgrState[n] = "stopped" => mgrState'[n] = "stopped",
           \A p \in Ps : /\ control'[p] \in {"stopped", "done"} => mgrState'[p] = "stopped"
                         /\ control[p] = "done" => control'[p] = "done"
    PROVE  IInv'
<1>1. TasksApart' /\ DriverInStep'
  BY DEF IInv, TasksApart, DriverInStep, ShutJobDone
<1>2. WorkersTold'
  <2>1. usedUp \subseteq Node
    BY NodeFacts DEF IInv, TypeOK, WorkersTold
  <2> QED  BY <2>1 DEF IInv, WorkersTold
<1>3. Counted'
  BY DEF IInv, Counted, Done
<1>4. PsInStep'
  BY DEF IInv, PsInStep, TypeOK
<1> QED  BY <1>1, <1>2, <1>3, <1>4 DEF IInv

LEMMA NodeStepKeeps == ASSUME IInv, NEW n \in Node, NodeStep(n) \/ NodeFails(n) PROVE IInv'
<1> USE DEF startVars, jobVars, nodeVars, driverVars
<1>0. TypeOK /\ \A p \in Ps : control[p] \in {"stopped", "done"} => mgrState[p] = "stopped"
  BY DEF IInv, PsInStep
<1>1. CASE n \in Worker /\ WorkerFinishes(n)
  <2>1. TypeOK'
    BY <1>0, <1>1 DEF WorkerFinishes, TypeOK
  <2> QED  BY <1>0, <1>1, <2>1, NodeKeeps DEF WorkerFinishes
<1>2. CASE n \in Worker /\ WorkerLeaves(n)
  <2>1. TypeOK'
    BY <1>0, <1>2 DEF WorkerLeaves, TypeOK
  <2> QED  BY <1>0, <1>2, <2>1, NodeKeeps DEF WorkerLeaves
<1>3. CASE n \in Ps /\ PsGets(n)
  <2>1. TypeOK'
    BY <1>0, <1>3 DEF PsGets, TypeOK
  <2>2. \A p \in Ps : /\ control'[p] \in {"stopped", "done"} => mgrState'[p] = "stopped"
                      /\ control[p] = "done" => control'[p] = "done"
    BY <1>0, <1>3 DEF PsGets, TypeOK
  <2> QED  BY <1>3, <2>1, <2>2, NodeKeeps DEF PsGets
<1>4. CASE n \in Ps /\ PsStops(n)
  <2>1. TypeOK'
    BY <1>0, <1>4 DEF PsStops, TypeOK
  <2>2. \A m \in Node : mgrState[m] = "stopped" => mgrState'[m] = "stopped"
    BY <1>0, <1>4 DEF PsStops, TypeOK
  <2>3. \A p \in Ps : /\ control'[p] \in {"stopped", "done"} => mgrState'[p] = "stopped"
                      /\ control[p] = "done" => control'[p] = "done"
    BY <1>0, <1>4, NodeFacts DEF PsStops, TypeOK
  <2> QED  BY <1>4, <2>1, <2>2, <2>3, NodeKeeps DEF PsStops
<1>5. CASE n \in Ps /\ PsEnds(n)
  <2>1. TypeOK'
    BY <1>0, <1>5 DEF PsEnds, TypeOK
  <2>2. \A p \in Ps : /\ control'[p] \in {"stopped", "done"} => mgrState'[p] = "stopped"
                      /\ control[p] = "done" => control'[p] = "done"
    BY <1>0, <1>5 DEF PsEnds, TypeOK
  <2> QED  BY <1>5, <2>1, <2>2, NodeKeeps DEF PsEnds
<1>6. CASE NodeRestarts(n)
  <2>1. TypeOK'
    BY <1>0, <1>6 DEF NodeRestarts, TypeOK
  <2> QED  BY <1>0, <1>6, <2>1, NodeKeeps DEF NodeRestarts
<1>7. CASE NodeFails(n)
  <2>1. crashes' \in 0..MaxCrashes
    BY <1>0, <1>7, NodeFacts DEF NodeFails, TypeOK
  <2>2. TypeOK'
    BY <1>0, <1>7, <2>1 DEF NodeFails, TypeOK
  <2> QED  BY <1>0, <1>7, <2>2, NodeKeeps DEF NodeFails
<1> QED  BY <1>1, <1>2, <1>3, <1>4, <1>5, <1>6, <1>7 DEF NodeStep

-----------------------------------------------------------------------------
(* The shutdown job.                                                       *)

LEMMA ShutStartsKeeps ==
    ASSUME IInv, NEW i \in ShutTask, NEW e \in Executor, ShutStarts(i, e)
    PROVE  IInv'
<1> USE DEF startVars, jobVars, nodeVars, driverVars
<1>0. /\ TypeOK /\ shut[i] = "pending" /\ (\A j \in ShutTask : e \notin at[j])
      /\ Spread => e \notin usedUp
      /\ driver = "workers"
      /\ UNCHANGED <<startVars, nodeVars, failed, usedUp, driverVars>>
  BY DEF IInv, ShutStarts, Free
<1>1. /\ shut' \in [ShutTask -> {"pending", "queues", "state", "done"}]
      /\ shut'[i] = "queues" /\ \A j \in ShutTask : j # i => shut'[j] = shut[j]
      /\ at' \in [ShutTask -> SUBSET Executor]
      /\ at'[i] = {e} /\ \A j \in ShutTask : j # i => at'[j] = at[j]
  BY <1>0 DEF ShutStarts, TypeOK
<1>2. TypeOK'
  BY <1>0, <1>1 DEF TypeOK
<1>3. TasksApart'
  BY <1>0, <1>1 DEF IInv, TasksApart
<1>4. WorkersTold'
  BY <1>0, <1>1 DEF IInv, WorkersTold
<1>5. Counted'
  <2>1. Done' = Done
    BY <1>0, <1>1 DEF Done
  <2> QED  BY <1>0, <2>1 DEF IInv, Counted
<1>6. DriverInStep' /\ PsInStep'
  BY <1>0 DEF IInv, DriverInStep, PsInStep
<1> QED  BY <1>2, <1>3, <1>4, <1>5, <1>6 DEF IInv

LEMMA ShutFailsKeeps == ASSUME IInv, NEW i \in ShutTask, ShutFails(i) PROVE IInv'
<1> USE DEF startVars, jobVars, nodeVars, driverVars
<1>0. /\ TypeOK /\ shut[i] = "queues" /\ driver = "workers"
      /\ UNCHANGED <<startVars, nodeVars, usedUp, count, psTodo>>
  BY DEF IInv, ShutFails
<1>1. /\ shut' \in [ShutTask -> {"pending", "queues", "state", "done"}]
      /\ shut'[i] = "pending" /\ \A j \in ShutTask : j # i => shut'[j] = shut[j]
      /\ at' \in [ShutTask -> SUBSET Executor]
      /\ at'[i] = {} /\ \A j \in ShutTask : j # i => at'[j] = at[j]
  BY <1>0 DEF ShutFails, TypeOK
<1>2. /\ failed' \in [ShutTask -> 0..TaskMaxFailures]
      /\ driver' \in {"workers", "raised"}
      /\ driver' # "raised" => \A j \in ShutTask : failed'[j] < TaskMaxFailures
  <2>1. \A j \in ShutTask : failed[j] \in 0..TaskMaxFailures /\ failed[j] < TaskMaxFailures
    BY <1>0 DEF IInv, DriverInStep, TypeOK
  <2>2. failed \in [ShutTask -> 0..TaskMaxFailures] /\ failed' = [failed EXCEPT ![i] = @ + 1]
    BY <1>0 DEF TypeOK, ShutFails
  <2>3. failed[i] + 1 \in 0..TaskMaxFailures
    BY <2>1, NodeFacts
  <2>4. /\ failed' \in [ShutTask -> 0..TaskMaxFailures]
        /\ failed'[i] = failed[i] + 1 /\ \A j \in ShutTask : j # i => failed'[j] = failed[j]
    BY <2>2, <2>3
  <2>5. driver' = IF failed'[i] = TaskMaxFailures THEN "raised" ELSE "workers"
    BY <1>0 DEF ShutFails
  <2> QED  BY <2>1, <2>3, <2>4, <2>5, NodeFacts
<1>3. TypeOK'
  BY <1>0, <1>1, <1>2 DEF TypeOK
<1>4. TasksApart'
  BY <1>0, <1>1 DEF IInv, TasksApart
<1>5. WorkersTold'
  BY <1>0, <1>1 DEF IInv, WorkersTold
<1>6. Counted'
  <2>1. Done' = Done
    BY <1>0, <1>1 DEF Done
  <2> QED  BY <1>0, <2>1 DEF IInv, Counted
<1>7. DriverInStep' /\ PsInStep'
  BY <1>0, <1>2 DEF IInv, DriverInStep, PsInStep
<1> QED  BY <1>3, <1>4, <1>5, <1>6, <1>7 DEF IInv

LEMMA ShutPutsNoneKeeps == ASSUME IInv, NEW i \in ShutTask, ShutPutsNone(i) PROVE IInv'
<1> USE DEF startVars, jobVars, nodeVars, driverVars
<1>0. /\ TypeOK /\ shut[i] = "queues" /\ driver = "workers" /\ at[i] \subseteq Worker
      /\ noneIn' = noneIn \cup at[i]
      /\ UNCHANGED <<startVars, mgrState, exited, control, at, failed, usedUp, driverVars>>
  BY DEF IInv, ShutPutsNone, WorkersManager
<1>1. /\ shut' \in [ShutTask -> {"pending", "queues", "state", "done"}]
      /\ shut'[i] = "state" /\ \A j \in ShutTask : j # i => shut'[j] = shut[j]
  BY <1>0 DEF ShutPutsNone, TypeOK
<1>2. TypeOK'
  BY <1>0, <1>1 DEF TypeOK
<1>3. TasksApart'
  BY <1>0, <1>1 DEF IInv, TasksApart
<1>4. WorkersTold'
  BY <1>0, <1>1 DEF IInv, WorkersTold
<1>5. Counted'
  <2>1. Done' = Done
    BY <1>0, <1>1 DEF Done
  <2> QED  BY <1>0, <2>1 DEF IInv, Counted
<1>6. DriverInStep' /\ PsInStep'
  BY <1>0 DEF IInv, DriverInStep, PsInStep
<1> QED  BY <1>2, <1>3, <1>4, <1>5, <1>6 DEF IInv

\* The step that counts: a task is done, and a worker's executor is used up with it.
LEMMA ShutSetsStateKeeps == ASSUME IInv, NEW i \in ShutTask, ShutSetsState(i) PROVE IInv'
<1> USE DEF startVars, jobVars, nodeVars, driverVars
<1>0. /\ TypeOK /\ shut[i] = "state" /\ driver = "workers"
      /\ usedUp' = usedUp \cup at[i]
      /\ UNCHANGED <<startVars, noneIn, exited, control, failed, driverVars>>
  BY DEF IInv, ShutSetsState
<1>1. /\ shut' \in [ShutTask -> {"pending", "queues", "state", "done"}]
      /\ shut'[i] = "done" /\ \A j \in ShutTask : j # i => shut'[j] = shut[j]
      /\ at' \in [ShutTask -> SUBSET Executor]
      /\ at'[i] = {} /\ \A j \in ShutTask : j # i => at'[j] = at[j]
  BY <1>0 DEF ShutSetsState, TypeOK
<1>2. /\ mgrState' \in [Node -> {"running", "stopped"}]
      /\ \A n \in Node : mgrState'[n] = IF n \in at[i] THEN "stopped" ELSE mgrState[n]
  BY <1>0 DEF ShutSetsState, TypeOK
<1>3. PICK e \in Executor : at[i] = {e}
  BY <1>0 DEF IInv, TasksApart
<1>4. e \in noneIn /\ e \in Worker /\ e \in Node
  BY <1>0, <1>3, NodeFacts DEF IInv, WorkersTold, TypeOK
<1>5. TypeOK'
  BY <1>0, <1>1, <1>2, <1>3 DEF TypeOK
<1>6. TasksApart'
  BY <1>0, <1>1 DEF IInv, TasksApart
<1>7. WorkersTold'
  <2>1. usedUp \subseteq Node
    BY <1>0, NodeFacts DEF IInv, TypeOK, WorkersTold
  <2> QED  BY <1>0, <1>1, <1>2, <1>3, <1>4, <2>1 DEF IInv, WorkersTold
<1>8. Counted'
  <2> SUFFICES ASSUME Spread PROVE Cardinality(usedUp') = Cardinality(Done')
    BY DEF Counted
  <2>1. Done' = Done \cup {i} /\ i \notin Done
    BY <1>0, <1>1 DEF Done
  <2>2. IsFiniteSet(Done)
    BY NodeFacts, FS_Subset DEF Done
  <2>3. usedUp' = usedUp \cup {e} /\ e \notin usedUp
    BY <1>0, <1>3 DEF IInv, TasksApart
  <2>4. IsFiniteSet(usedUp)
    BY <1>0, NodeFacts, FS_Subset DEF IInv, WorkersTold, TypeOK
  <2>5. /\ Cardinality(Done') = Cardinality(Done) + 1
        /\ Cardinality(usedUp') = Cardinality(usedUp) + 1
    BY <2>1, <2>2, <2>3, <2>4, FS_AddElement
  <2> QED  BY <2>5 DEF IInv, Counted
<1>9. DriverInStep'
  BY <1>0 DEF IInv, DriverInStep
<1>10. PsInStep'
  BY <1>0, <1>2, NodeFacts DEF IInv, PsInStep
<1> QED  BY <1>5, <1>6, <1>7, <1>8, <1>9, <1>10 DEF IInv

-----------------------------------------------------------------------------
(* The driver.                                                             *)

LEMMA DriverKeeps == ASSUME IInv, Driver PROVE IInv'
<1> USE DEF startVars, jobVars, nodeVars, driverVars
<1>0. TypeOK
  BY DEF IInv
<1>1. CASE Poll
  <2>1. /\ UNCHANGED <<startVars, nodeVars, jobVars, psTodo>>
        /\ count' \in 0..3 /\ driver' \in {"poll", "workers"}
        /\ driver' = "poll" => count' <= 2
        /\ driver = "poll"
    BY <1>0, <1>1 DEF Poll, IInv, DriverInStep, TypeOK
  <2>2. TypeOK'
    BY <1>0, <2>1 DEF TypeOK
  <2>3. DriverInStep'
    BY <2>1 DEF IInv, DriverInStep
  <2> QED  BY <2>1, <2>2, <2>3 DEF IInv, TasksApart, WorkersTold, Counted, Done, PsInStep
<1>2. CASE WorkersStopped
  <2>1. TypeOK' /\ DriverInStep'
    BY <1>0, <1>2 DEF WorkersStopped, TypeOK, IInv, DriverInStep, ShutJobDone
  <2> QED  BY <1>2, <2>1 DEF WorkersStopped, IInv, TasksApart, WorkersTold, Counted, Done, PsInStep
<1>3. CASE AllPsStopped
  <2>1. TypeOK' /\ DriverInStep'
    BY <1>0, <1>3 DEF AllPsStopped, TypeOK, IInv, DriverInStep, ShutJobDone
  <2> QED  BY <1>3, <2>1 DEF AllPsStopped, IInv, TasksApart, WorkersTold, Counted, Done, PsInStep
<1>4. CASE Return
  <2>1. TypeOK' /\ DriverInStep'
    BY <1>0, <1>4 DEF Return, TypeOK, IInv, DriverInStep, ShutJobDone
  <2> QED  BY <1>4, <2>1 DEF Return, IInv, TasksApart, WorkersTold, Counted, Done, PsInStep
<1>5. ASSUME NEW p \in Ps, StopPs(p) PROVE IInv'
  <2>1. TypeOK'
    BY <1>0, <1>5 DEF StopPs, TypeOK
  <2>2. \A q \in Ps : /\ control'[q] \in {"stopped", "done"} => mgrState'[q] = "stopped"
                      /\ control[q] = "done" => control'[q] = "done"
    BY <1>0, <1>5 DEF StopPs, TypeOK, IInv, PsInStep
  <2> QED  BY <1>5, <2>1, <2>2, NodeKeeps DEF StopPs
<1>6. ASSUME NEW p \in Ps, JoinPs(p) PROVE IInv'
  <2>1. TypeOK' /\ DriverInStep'
    BY <1>0, <1>6 DEF JoinPs, TypeOK, IInv, DriverInStep, ShutJobDone
  <2>2. PsInStep'
    BY <1>6 DEF JoinPs, JoinReturns, IInv, PsInStep
  <2> QED  BY <1>6, <2>1, <2>2 DEF JoinPs, IInv, TasksApart, WorkersTold, Counted, Done
<1> QED  BY <1>1, <1>2, <1>3, <1>4, <1>5, <1>6 DEF Driver

LEMMA StepIInv == IInv /\ [Next]_vars => IInv'
<1> SUFFICES ASSUME IInv, [Next]_vars PROVE IInv'
  OBVIOUS
<1>1. CASE UNCHANGED vars
  BY <1>1 DEF vars, startVars, jobVars, nodeVars, driverVars, IInv, TypeOK, TasksApart,
              WorkersTold, Counted, Done, DriverInStep, ShutJobDone, PsInStep
<1>2. CASE Driver
  BY <1>2, DriverKeeps
<1>3. CASE \E i \in ShutTask : ShutJob(i)
  BY <1>3, ShutStartsKeeps, ShutFailsKeeps, ShutPutsNoneKeeps, ShutSetsStateKeeps DEF ShutJob
<1>4. CASE \E n \in Node : NodeStep(n) \/ NodeFails(n)
  BY <1>4, NodeStepKeeps
<1> QED  BY <1>1, <1>2, <1>3, <1>4 DEF Next

LEMMA IInvInvariant == Spec => []IInv
BY InitIInv, StepIInv, PTL DEF Spec

\* When the job is done every worker's executor has been used.
LEMMA JobDoneMeansAll ==
    ASSUME IInv, Spread, ShutJobDone
    PROVE  usedUp = Worker
<1>1. Done = ShutTask
  BY DEF Done, ShutJobDone
<1>2. usedUp \in SUBSET Worker
  BY DEF IInv, WorkersTold, TypeOK
<1>3. Cardinality(usedUp) = Cardinality(Worker)
  BY <1>1, NodeFacts DEF IInv, Counted
<1> QED  BY <1>2, <1>3, NodeFacts, FS_Subset

\* If Spark runs each task of the shutdown job on an executor of its own, the driver
\* never gets ahead of the nodes: it is past a PS only when that PS has stopped, and
\* shutdown() returns only when every worker's queues have got None and every manager
\* is in state 'stopped', although no task is told which worker to stop.
THEOREM NodesStopInOrder == ASSUME Spread PROVE Spec => []StoppedInOrder
<1>1. ASSUME IInv PROVE StoppedInOrder
  <2>1. PsStoppedWhenJoined
    BY <1>1 DEF IInv, PsInStep, PsStoppedWhenJoined
  <2>2. ReturnedMeansStopped
    <3> SUFFICES ASSUME driver = "returned"
                 PROVE  noneIn = Worker /\ \A n \in Node : mgrState[n] = "stopped"
      BY DEF ReturnedMeansStopped
    <3>1. usedUp = Worker
      BY <1>1, JobDoneMeansAll DEF IInv, DriverInStep
    <3>2. \A p \in Ps : mgrState[p] = "stopped"
      BY <1>1, <2>1 DEF IInv, DriverInStep, PsStoppedWhenJoined
    <3> QED  BY <1>1, <3>1, <3>2 DEF IInv, WorkersTold, TypeOK, Node
  <2> QED  BY <1>1, <2>1, <2>2 DEF IInv, StoppedInOrder
<1> QED  BY <1>1, IInvInvariant, PTL

-----------------------------------------------------------------------------
(* The sampling in TENSORFLOW mode.                                        *)

\* As long as no task of the start job has failed, the PS are active until they are
\* stopped, and a worker whose task is over has finished.
Undisturbed ==
    crashes = 0 /\ ~sparkMode =>
      /\ \A n \in Node : task[n] # "retrying"
      /\ \A w \in Worker : task[w] = "done" => w \in exited
      /\ \A p \in Ps : control[p] # "done" => task[p] = "active"
      /\ driver \in {"poll", "workers"} => \A p \in Ps : control[p] = "empty"
      /\ driver # "poll" => exited = Worker

LEMMA InitUndisturbed == Init => Undisturbed
BY NodeFacts DEF Init, Undisturbed

\* The look that counts: as many active tasks as PS, all PS being active, are the PS.
LEMMA PollUndisturbed == ASSUME IInv, Undisturbed, Poll PROVE Undisturbed'
<1> USE DEF startVars, jobVars, nodeVars, driverVars
<1>1. /\ UNCHANGED <<startVars, nodeVars, jobVars, psTodo>>
      /\ driver = "poll" /\ driver' \in {"poll", "workers"}
      /\ StartJobActive => OnlyPsLeft
  BY DEF Poll
<1> SUFFICES ASSUME crashes = 0, ~sparkMode PROVE exited = Worker
  BY <1>1 DEF Undisturbed
<1> DEFINE Active == {n \in Node : task[n] = "active"}
<1>2. \A p \in Ps : task[p] = "active"
  BY <1>1 DEF Undisturbed
<1>3. \A w \in Worker : task[w] # "active"
  <2>1. CASE StartJobActive
    <3>1. IsFiniteSet(Active) /\ Ps \in SUBSET Active
      BY <1>2, NodeFacts, FS_Subset
    <3>2. Cardinality(Active) = Cardinality(Ps)
      BY <1>1, <2>1 DEF OnlyPsLeft, NumActiveTasks
    <3>3. Active = Ps
      BY <3>1, <3>2, FS_Subset
    <3> QED  BY <3>3, NodeFacts
  <2>2. CASE ~StartJobActive
    BY <2>2, NodeFacts DEF StartJobActive
  <2> QED  BY <2>1, <2>2
<1>4. \A w \in Worker : task[w] = "done"
  BY <1>3, NodeFacts DEF Undisturbed, IInv, TypeOK
<1> QED  BY <1>4 DEF Undisturbed, IInv, TypeOK

LEMMA StepUndisturbed == IInv /\ Undisturbed /\ [Next]_vars => Undisturbed'
<1> SUFFICES ASSUME IInv, Undisturbed, [Next]_vars PROVE Undisturbed'
  OBVIOUS
<1> USE DEF startVars, jobVars, nodeVars, driverVars
<1>0. TypeOK
  BY DEF IInv
<1>1. CASE UNCHANGED vars
  BY <1>1 DEF vars, Undisturbed
<1>2. CASE Driver
  <2>1. CASE Poll
    BY <2>1, PollUndisturbed
  <2>2. CASE WorkersStopped \/ AllPsStopped \/ Return
    BY <2>2 DEF WorkersStopped, AllPsStopped, Return, Undisturbed
  <2>3. ASSUME NEW p \in Ps, StopPs(p) PROVE Undisturbed'
    BY <1>0, <2>3 DEF StopPs, Undisturbed, TypeOK
  <2>4. ASSUME NEW p \in Ps, JoinPs(p) PROVE Undisturbed'
    BY <2>4 DEF JoinPs, Undisturbed
  <2> QED  BY <1>2, <2>1, <2>2, <2>3, <2>4 DEF Driver
<1>3. CASE \E i \in ShutTask : ShutJob(i)
  <2> PICK i \in ShutTask : ShutJob(i)
    BY <1>3
  <2>1. /\ UNCHANGED <<startVars, control, exited>>
        /\ driver = "workers" /\ driver' \in {"workers", "raised"}
    BY DEF ShutJob, ShutStarts, ShutFails, ShutPutsNone, ShutSetsState
  <2> QED  BY <2>1 DEF Undisturbed
<1>4. ASSUME NEW n \in Node, NodeStep(n) PROVE Undisturbed'
  <2>1. CASE n \in Worker /\ (WorkerFinishes(n) \/ WorkerLeaves(n))
    <3>1. CASE WorkerFinishes(n)
      <4>1. /\ \A m \in Node : task'[m] = task[m] \/ (m = n /\ task'[m] = "done")
            /\ exited' = exited \cup {n} /\ n \in Worker
            /\ UNCHANGED <<sparkMode, crashes, control, driver>>
        BY <1>0, <2>1, <3>1 DEF WorkerFinishes, TypeOK
      <4> QED  BY <1>0, <4>1, NodeFacts DEF Undisturbed, TypeOK
    <3>2. CASE WorkerLeaves(n)
      BY <1>0, <2>1, <3>2 DEF WorkerLeaves, Undisturbed, TypeOK
    <3> QED  BY <2>1, <3>1, <3>2
  <2>2. CASE n \in Ps /\ (PsGets(n) \/ PsStops(n) \/ PsEnds(n))
    BY <1>0, <2>2, NodeFacts DEF PsGets, PsStops, PsEnds, Undisturbed, TypeOK
  <2>3. CASE NodeRestarts(n)
    BY <2>3 DEF NodeRestarts, Undisturbed
  <2> QED  BY <1>4, <2>1, <2>2, <2>3 DEF NodeStep
<1>5. ASSUME NEW n \in Node, NodeFails(n) PROVE Undisturbed'
  <2>1. crashes' # 0
    BY <1>0, <1>5 DEF NodeFails, TypeOK
  <2> QED  BY <2>1 DEF Undisturbed
<1> QED  BY <1>1, <1>2, <1>3, <1>4, <1>5 DEF Next

\* As long as no task of the start job fails, the three looks at Spark's status tracker
\* are right: in TENSORFLOW mode shutdown() goes on only when all workers have finished.
\* (A task that fails makes the number of active tasks right for the wrong reason.)
THEOREM WorkersFinishBeforeShutdown == Spec => []WorkersFinishFirstIfNoneFails
<1>1. Undisturbed => WorkersFinishFirstIfNoneFails
  BY DEF Undisturbed, WorkersFinishFirstIfNoneFails, WorkersFinishFirst
<1> QED  BY <1>1, InitUndisturbed, StepUndisturbed, IInvInvariant, PTL DEF Spec
=============================================================================
