---------------------------- MODULE ClusterStart ----------------------------
(***************************************************************************)
(* Starting a cluster: TFCluster.run on the driver and the Spark tasks it  *)
(* launches, one per worker number, each running TFSparkNode.run's _mapfn. *)
(* Spark places a task in a free slot of any executor and runs it in that  *)
(* slot's python worker, whose module state (the TFManager) outlives the   *)
(* task.  A task that fails, by an exception or because its process dies,  *)
(* takes its python worker down and is retried by Spark, on any executor.  *)
(*                                                                         *)
(* An executor stands for its (host, ppid); a manager for its address, and *)
(* the manager an attempt starts is named by that attempt.  Requests to    *)
(* the reservation server are atomic except REG, whose sender may die      *)
(* before the server handles it (Reservation models the messages).         *)
(***************************************************************************)
EXTENDS Naturals, Sequences, FiniteSets, SequencesExt

CONSTANTS NumExecutors,     \* nodes of the cluster, num_executors
          NumPs,            \* how many of them are parameter servers
          Executor,         \* Spark executors
          Slot,             \* task slots of an executor
          InputModes,       \* the values of input_mode
          TaskMaxFailures,  \* spark.task.maxFailures
          MaxCrashes        \* bound by input_mode: tasks that die on their own

ASSUME NumAssumption == NumExecutors \in Nat /\ NumPs \in 0..(NumExecutors - 1)
ASSUME FailureAssumption == TaskMaxFailures \in Nat \ {0} /\ MaxCrashes \in [InputModes -> Nat]
ASSUME ModeAssumption == InputModes \subseteq {"SPARK", "TENSORFLOW"}

Num == 0..(NumExecutors - 1)
Place == Executor \X Slot
Nowhere == <<>>

VARIABLES input_mode,    \* how the program feeds the cluster
          reservations,  \* the server's list of node_meta
          inflight,      \* REG requests sent and not yet handled
          pc,            \* pc[w]: where the task of worker number w is
          place,         \* place[w]: the executor and slot it runs in
          failures,      \* failures[w]: failed attempts
          info,          \* info[w]: its cluster_info
          python,        \* python[p]: TFSparkNode.mgr in the python worker of p
          driver,        \* the thread that called TFCluster.run
          job,           \* the start job of the background thread
          crashes,
          orderly        \* history: none of them before run() returned

serverVars == <<reservations, inflight>>
attemptVars == <<place, failures, python>>
driverVars == <<driver, job, crashes, orderly>>
vars == <<input_mode, serverVars, pc, attemptVars, info, driverVars>>

Background == input_mode = "SPARK"

\* The entries node_meta of the list that matter: who, where, and the manager.
Meta == [num : Num, exec : Executor, mgr : Num \X (0..TaskMaxFailures)]

\* "finished": the task has returned, its node runs in the background;
\* "ended": the node ran in the foreground and is over.
Steps == {"pending", "started", "managed", "fresh", "registering", "awaiting",
          "ready", "launched", "finished", "ended"}

TypeOK ==
    /\ input_mode \in InputModes
    /\ reservations \in Seq(Meta)
    /\ inflight \subseteq Meta
    /\ pc \in [Num -> Steps]
    /\ place \in [Num -> Place \cup {Nowhere}]
    /\ failures \in [Num -> 0..TaskMaxFailures]
    /\ info \in [Num -> Seq(Meta)]
    /\ python \in [Place -> {"other", "current"}]
    /\ driver \in {"awaiting", "returned", "ok", "duplicate"}
    /\ job \in {"running", "aborted"}
    /\ crashes \in 0..MaxCrashes[input_mode]
    /\ orderly \in BOOLEAN

\* "other": the python worker has no manager, or one of an earlier cluster, which
\* the code treats alike.
Init ==
    /\ input_mode \in InputModes
    /\ reservations = <<>>
    /\ inflight = {}
    /\ pc = [w \in Num |-> "pending"]
    /\ place = [w \in Num |-> Nowhere]
    /\ failures = [w \in Num |-> 0]
    /\ info = [w \in Num |-> <<>>]
    /\ python = [p \in Place |-> "other"]
    /\ driver = "awaiting"
    /\ job = "running"
    /\ crashes = 0
    /\ orderly = TRUE

-----------------------------------------------------------------------------
IsPs(w) == w < NumPs

\* A task holds its slot until it returns.
Active(w) == pc[w] \notin {"pending", "finished", "ended"}

Busy(p) == \E w \in Num : Active(w) /\ place[w] = p

Mgr(w) == <<w, failures[w]>>

NodeMeta(w) == [num |-> w, exec |-> place[w][1], mgr |-> Mgr(w)]

\* Entries of a list that carry the (host, ppid) of executor e.
Matches(list, e) == {i \in DOMAIN list : list[i].exec = e}

\* Faulty: takes any entry for its own.
ReservedByAnyone(w) == reservations # <<>>

\* The executor of w is in the list already.
Reserved(w) == Matches(reservations, place[w][1]) # {}

\* Faulty: does not wait for the other nodes.
doneAtOnce == TRUE

\* Faulty: waits for one node too many.
doneTooLate == Len(reservations) > NumExecutors

done == Len(reservations) >= NumExecutors

Step(w, from, to) ==
    /\ job = "running"
    /\ pc[w] = from
    /\ pc' = [pc EXCEPT ![w] = to]

\* Spark's reaction to a failed attempt: its python worker is gone, the task
\* is rescheduled, until it has failed too often and the job is aborted.
FailAttempt(w) ==
    /\ python' = [python EXCEPT ![place[w]] = "other"]
    /\ failures' = [failures EXCEPT ![w] = @ + 1]
    /\ pc' = [pc EXCEPT ![w] = "pending"]
    /\ place' = [place EXCEPT ![w] = Nowhere]
    /\ info' = [info EXCEPT ![w] = <<>>]
    /\ job' = IF failures'[w] = TaskMaxFailures THEN "aborted" ELSE job

Schedule(w, p) ==
    /\ Step(w, "pending", "started")
    /\ ~Busy(p)
    /\ place' = [place EXCEPT ![w] = p]
    /\ UNCHANGED <<input_mode, serverVars, failures, info, python, driverVars>>

-----------------------------------------------------------------------------
(***************************************************************************)
(* _mapfn, step by step.                                                   *)
(***************************************************************************)

\* This python worker already runs a manager of this very cluster.
RefuseSecondNode(w) ==
    /\ job = "running"
    /\ pc[w] = "started"
    /\ python[place[w]] = "current"
    /\ FailAttempt(w)
    /\ UNCHANGED <<input_mode, serverVars, driver, crashes, orderly>>

\* No manager, or one of an earlier cluster: start a new one.
StartManager(w) ==
    /\ Step(w, "started", "managed")
    /\ python[place[w]] # "current"
    /\ python' = [python EXCEPT ![place[w]] = "current"]
    /\ UNCHANGED <<input_mode, serverVars, place, failures, info, driverVars>>

\* get_reservations: is this executor already in the list?  If so the task
\* takes over that entry and goes on with the list as it is now.
CheckServer(w) ==
    /\ Step(w, "managed", IF Reserved(w) THEN "ready" ELSE "fresh")
    /\ info' = [info EXCEPT ![w] = reservations]
    /\ UNCHANGED <<input_mode, serverVars, attemptVars, driverVars>>

Register(w) ==
    /\ Step(w, "fresh", "registering")
    /\ inflight' = inflight \cup {NodeMeta(w)}
    /\ UNCHANGED <<input_mode, reservations, attemptVars, info, driverVars>>

\* Faulty: newest first.
AddedInFront(m) == <<m>> \o reservations

\* Reservations.add.
Added(m) == Append(reservations, m)

\* The server appends the entry, whether or not its sender still lives.
HandleRegister(m) ==
    /\ m \in inflight
    /\ inflight' = inflight \ {m}
    /\ reservations' = Added(m)
    /\ pc' = IF pc[m.num] = "registering" /\ m.mgr = Mgr(m.num)
                THEN [pc EXCEPT ![m.num] = "awaiting"] ELSE pc
    /\ UNCHANGED <<input_mode, attemptVars, info, driverVars>>

\* await_reservations: QUERY answers True; the list fetched then is complete,
\* too, since it never shrinks.
AwaitReservations(w) ==
    /\ Step(w, "awaiting", "ready")
    /\ done
    /\ info' = [info EXCEPT ![w] = reservations]
    /\ UNCHANGED <<input_mode, serverVars, attemptVars, driverVars>>

\* fn starts: in a process of its own for a PS or in SPARK mode (a worker's
\* task then returns), else in the task itself.
Launch(w) ==
    /\ Step(w, "ready", IF Background /\ ~IsPs(w) THEN "finished" ELSE "launched")
    /\ UNCHANGED <<input_mode, serverVars, attemptVars, info, driverVars>>

\* A foreground fn returns, and with it the task.
ForegroundEnds(w) ==
    /\ ~Background /\ ~IsPs(w)
    /\ Step(w, "launched", "ended")
    /\ UNCHANGED <<input_mode, serverVars, attemptVars, info, driverVars>>

\* The task fails anywhere in _mapfn: its process dies, or a call raises (a
\* bind of a port in use, a background mode Spark does not support, fn).
Crash(w) ==
    /\ job = "running"
    /\ crashes < MaxCrashes[input_mode]
    /\ Active(w)
    /\ FailAttempt(w)
    /\ crashes' = crashes + 1
    /\ orderly' = (orderly /\ pc[w] = "launched" /\ driver = "ok")
    /\ UNCHANGED <<input_mode, serverVars, driver>>

-----------------------------------------------------------------------------
(***************************************************************************)
(* TFCluster.run.  It waits on the reservation server only: it does not    *)
(* look at the start job.                                                  *)
(***************************************************************************)
DriverReturns ==
    /\ driver = "awaiting"
    /\ done
    /\ driver' = "returned"
    /\ UNCHANGED <<input_mode, serverVars, pc, attemptVars, info, job, crashes,
                   orderly>>

\* The sanity check for two entries with one (host, ppid).
DriverChecks ==
    /\ driver = "returned"
    /\ driver' = IF \E e \in Executor : Cardinality(Matches(reservations, e)) > 1
                    THEN "duplicate" ELSE "ok"
    /\ UNCHANGED <<input_mode, serverVars, pc, attemptVars, info, job, crashes,
                   orderly>>

Task(w) ==
    \/ \E p \in Place : Schedule(w, p)
    \/ RefuseSecondNode(w) \/ StartManager(w) \/ CheckServer(w)
    \/ Register(w) \/ AwaitReservations(w) \/ Launch(w)

Next ==
    \/ \E w \in Num : Task(w) \/ ForegroundEnds(w) \/ Crash(w)
    \/ \E m \in inflight : HandleRegister(m)
    \/ DriverReturns
    \/ DriverChecks

Spec == Init /\ [][Next]_vars

\* Spark schedules what it can, tasks and server run; nothing forces a
\* foreground fn to return or a task to die.
FairSpec ==
    /\ Spec
    /\ \A w \in Num : WF_vars(Task(w))
    /\ WF_vars(\E m \in inflight : HandleRegister(m))
    /\ WF_vars(DriverReturns \/ DriverChecks)

-----------------------------------------------------------------------------
(***************************************************************************)
(* Properties.                                                             *)
(***************************************************************************)
Running(w) == pc[w] \in {"launched", "finished"}

NumsIn(list) == {list[i].num : i \in DOMAIN list}

\* Any two cluster_infos in use agree as far as both go, and each contains
\* the entry of the executor that uses it: the port a node's server binds.
ViewsComparable ==
    \A v, w \in Num :
        /\ Running(w) => Matches(info[w], place[w][1]) # {}
        /\ IsPrefix(info[v], info[w]) \/ IsPrefix(info[w], info[v])

\* The state is well formed, and what await_reservations and the retry check of _mapfn
\* have given the nodes fits together, whatever tasks fail.
ViewsConsistent == TypeOK /\ ViewsComparable

\* A node starts its TensorFlow server only with all nodes in its cluster
\* spec ("wait for other nodes to finish reservations").
StartsWithFullCluster == \A w \in Num : Running(w) => NumsIn(info[w]) = Num

\* When run() hands the cluster to the driver program, every worker number
\* has registered ("wait for executors to register and start TFNodes before
\* continuing").
DriverSeesEveryNode == driver = "ok" => NumsIn(reservations) = Num

\* While no task fails during the start, every node starts with the whole
\* cluster and the driver gets it; nodes that fail and are retried later,
\* wherever Spark puts them, still do.
FullClusterIfOrderly == orderly => StartsWithFullCluster /\ DriverSeesEveryNode

\* A retry after the start takes over the entry it finds: no (host, ppid), the
\* key under which managers are looked up, gets a second entry, and the list
\* the driver holds by reference does not grow under its hands.
RetryKeepsListIfOrderly ==
    orderly =>
        /\ \A e \in Executor : Cardinality(Matches(reservations, e)) <= 1
        /\ driver = "ok" => Len(reservations) = NumExecutors

\* What a start without early failures guarantees from then on, whatever fails and is
\* retried later: nodes and driver have the whole cluster, and the list stays as it is.
OrderlyStartLasts == FullClusterIfOrderly /\ RetryKeepsListIfOrderly

NoneFailed == \A w \in Num : failures[w] = 0

\* While no task has failed, the manager that feeders and shutdown look up for
\* an executor (the first entry with its (host, ppid)) is the manager its
\* running node reads from.
ManagerIsSingletonIfNoneFails ==
    NoneFailed =>
        \A w \in Num : Running(w) =>
            \E i \in Matches(reservations, place[w][1]) :
                /\ \A j \in Matches(reservations, place[w][1]) : i <= j
                /\ reservations[i].mgr = Mgr(w)

\* The start comes to an end, all nodes running and run() returning the
\* cluster, unless a task fails.
ClusterStartsUnlessFailure ==
    <>(\/ ~NoneFailed
       \/ driver = "ok" /\ \A w \in Num : pc[w] \in {"launched", "finished", "ended"})

=============================================================================
