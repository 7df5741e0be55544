----------------------------- MODULE TrainFeed -----------------------------
(***************************************************************************)
(* Feeding training data to one worker node (InputMode.SPARK).  Spark runs *)
(* one task per partition (TFSparkNode.train): it puts the partition's     *)
(* items into the node's input queue and waits for the queue to be worked  *)
(* off.  The node's TensorFlow process, started in the background, reads   *)
(* batches from the queue (TFNode.DataFeed) and runs a training step per   *)
(* batch, until it reads the end mark or training is over; in the latter   *)
(* case terminate() tells later tasks to skip their partition and empties  *)
(* the queue.  When all tasks are through, the driver's shutdown job puts  *)
(* the end mark None (TFSparkNode.shutdown).                               *)
(*                                                                         *)
(* The queue is a multiprocessing.JoinableQueue in the manager's process,  *)
(* the consumer's loop is the user program's (mnist_dist.py map_fun).      *)
(***************************************************************************)
EXTENDS Naturals, Sequences, FiniteSets, Functions

CONSTANTS Feeder,       \* the feeding tasks that Spark places on this executor
          Slots,        \* how many of them may run at a time
          MaxItems,     \* bound: items of a partition
          BatchSize,    \* batch_size of the user program
          MaxRetries,   \* bound: feeding tasks that fail and are retried
          SlowFeeders,  \* may a task pause for the 5 s of terminate's timeout?
          MayDie,       \* may the TensorFlow process die?
          None          \* the end mark

Item == Feeder \X (1..MaxItems)

ASSUME FeederAssumption == IsFiniteSet(Feeder)
ASSUME SizeAssumption ==
    Slots \in Nat \ {0} /\ MaxItems \in Nat /\ BatchSize \in Nat \ {0} /\ MaxRetries \in Nat
ASSUME FlagAssumption == SlowFeeders \in BOOLEAN /\ MayDie \in BOOLEAN
ASSUME NoneAssumption == None \notin Item

VARIABLES
    \* the manager
    state,         \* kdict['state']
    queue,         \* the input queue
    unfinished,    \* the queue's count of unfinished tasks
    \* the feeding tasks
    size,          \* size[f]: items of f's partition
    feeder,        \* where task f is
    put,           \* put[f]: items its current attempt has put
    retries,
    \* the TensorFlow process
    consumer,      \* where it is
    hand,          \* the item it has got and not marked done, <<>> if none
    batch,
    doneFeeding,   \* DataFeed.done_feeding
    trainingOver,  \* sv.should_stop() or the global step has reached args.steps
    processed,     \* history: the items training steps were run on
    \* the driver
    driver

managerVars == <<state, queue, unfinished>>
feedVars == <<size, put, retries>>
consumerVars == <<consumer, hand, batch, doneFeeding, trainingOver, processed>>
vars == <<managerVars, feedVars, feeder, consumerVars, driver>>

TypeOK ==
    /\ state \in {"running", "terminating", "stopped"}
    /\ queue \in Seq(Item \cup {None})
    /\ unfinished \in Nat
    /\ size \in [Feeder -> 0..MaxItems]
    /\ feeder \in [Feeder -> {"idle", "feeding", "joining", "joined", "skipped"}]
    /\ put \in [Feeder -> 0..MaxItems]
    /\ retries \in 0..MaxRetries
    /\ consumer \in {"loop", "batch", "step", "left", "drain", "exited", "dead"}
    /\ hand \in Seq(Item \cup {None})
    /\ batch \in Seq(Item)
    /\ doneFeeding \in BOOLEAN
    /\ trainingOver \in BOOLEAN
    /\ processed \in Seq(Item)
    /\ driver \in {"feeding", "stopping", "stopped"}

Init ==
    /\ state = "running"
    /\ queue = <<>>
    /\ unfinished = 0
    /\ size \in [Feeder -> 0..MaxItems]
    /\ feeder = [f \in Feeder |-> "idle"]
    /\ put = [f \in Feeder |-> 0]
    /\ retries = 0
    /\ consumer = "loop"
    /\ hand = <<>>
    /\ batch = <<>>
    /\ doneFeeding = FALSE
    /\ trainingOver = FALSE
    /\ processed = <<>>
    /\ driver = "feeding"

-----------------------------------------------------------------------------
(***************************************************************************)
(* multiprocessing.JoinableQueue.                                          *)
(***************************************************************************)
QueuePut(x) ==
    /\ queue' = Append(queue, x)
    /\ unfinished' = unfinished + 1

QueueGet ==
    /\ queue # <<>>
    /\ hand' = <<Head(queue)>>
    /\ queue' = Tail(queue)

\* Faulty: every task_done wakes who waits in join().
EveryTask == TRUE

LastTask == unfinished = 1

\* The last task_done wakes everybody who waits in join().
TaskDone ==
    /\ unfinished' = unfinished - 1
    /\ hand' = <<>>
    /\ feeder' = [f \in Feeder |->
                     IF LastTask /\ feeder[f] = "joining" THEN "joined" ELSE feeder[f]]

-----------------------------------------------------------------------------
(***************************************************************************)
(* TFSparkNode.train: one task per partition.                              *)
(***************************************************************************)
ActiveFeeders == {f \in Feeder : feeder[f] \in {"feeding", "joining"}}

\* The task reads the state once, before its first item, and a task that
\* finds the manager terminating only counts its items.
StartFeeding(f) ==
    /\ feeder[f] = "idle"
    /\ Cardinality(ActiveFeeders) < Slots
    /\ feeder' = [feeder EXCEPT ![f] = IF state = "terminating" THEN "skipped" ELSE "feeding"]
    /\ UNCHANGED <<managerVars, feedVars, consumerVars, driver>>

PutItem(f) ==
    /\ feeder[f] = "feeding"
    /\ put[f] < size[f]
    /\ QueuePut(<<f, put[f] + 1>>)
    /\ put' = [put EXCEPT ![f] = @ + 1]
    /\ UNCHANGED <<state, size, feeder, retries, consumerVars, driver>>

\* join() returns at once when there is nothing unfinished.
JoinQueue(f) ==
    /\ feeder[f] = "feeding"
    /\ put[f] = size[f]
    /\ feeder' = [feeder EXCEPT ![f] = IF unfinished = 0 THEN "joined" ELSE "joining"]
    /\ UNCHANGED <<managerVars, feedVars, consumerVars, driver>>

\* The task fails and Spark runs it again from the start of its partition.
FeederRetried(f) ==
    /\ f \in ActiveFeeders
    /\ retries < MaxRetries
    /\ retries' = retries + 1
    /\ feeder' = [feeder EXCEPT ![f] = "idle"]
    /\ put' = [put EXCEPT ![f] = 0]
    /\ UNCHANGED <<state, queue, unfinished, size, consumerVars, driver>>

-----------------------------------------------------------------------------
(***************************************************************************)
(* The TensorFlow process: the user program's loop around DataFeed.        *)
(***************************************************************************)

\* while not sv.should_stop() and not tf_feed.should_stop() and step < steps
LoopTest ==
    /\ consumer = "loop"
    /\ consumer' = IF trainingOver \/ doneFeeding THEN "left" ELSE "batch"
    /\ UNCHANGED <<managerVars, feeder, feedVars, hand, batch, doneFeeding,
                   trainingOver, processed, driver>>

\* next_batch: queue.get(block=True).
NextItem ==
    /\ consumer = "batch"
    /\ hand = <<>>
    /\ QueueGet
    /\ UNCHANGED <<state, unfinished, feeder, feedVars, consumer, batch, doneFeeding,
                   trainingOver, processed, driver>>

\* Faulty: takes the end mark for an item.
BatchWithMark(x) == Append(batch, x)

\* Faulty: the end mark discards the batch begun.
BatchCut(x) == IF x = None THEN <<>> ELSE Append(batch, x)

BatchWith(x) == IF x = None THEN batch ELSE Append(batch, x)

\* next_batch, on the item it got: keep it or note the end, task_done, and
\* return when the batch is full or the feed has ended.
TakeItem ==
    /\ consumer = "batch"
    /\ hand # <<>>
    /\ TaskDone
    /\ doneFeeding' = (doneFeeding \/ hand[1] = None)
    /\ batch' = BatchWith(hand[1])
    /\ consumer' = IF doneFeeding' \/ Len(batch') = BatchSize THEN "step" ELSE "batch"
    /\ UNCHANGED <<state, queue, feedVars, trainingOver, processed, driver>>

\* sess.run on the batch; on an empty batch nothing.
TrainStep ==
    /\ consumer = "step"
    /\ processed' = processed \o batch
    /\ batch' = <<>>
    /\ consumer' = "loop"
    /\ UNCHANGED <<managerVars, feeder, feedVars, hand, doneFeeding,
                   trainingOver, driver>>

\* Faulty: terminate() is never called.
NeverTerminates == FALSE

Terminates == trainingOver

\* After the loop: terminate() if training is over, and it first sets state.
AfterLoop ==
    /\ consumer = "left"
    /\ consumer' = IF Terminates THEN "drain" ELSE "exited"
    /\ state' = IF Terminates THEN "terminating" ELSE state
    /\ UNCHANGED <<queue, unfinished, feeder, feedVars, hand, batch, doneFeeding,
                   trainingOver, processed, driver>>

\* terminate: get with a timeout, and task_done, until the queue is Empty.
DrainGet ==
    /\ consumer = "drain"
    /\ hand = <<>>
    /\ QueueGet
    /\ UNCHANGED <<state, unfinished, feeder, feedVars, consumer, batch, doneFeeding,
                   trainingOver, processed, driver>>

\* Faulty: forgets the task_done of what it drops.
DrainForgets ==
    /\ consumer = "drain"
    /\ hand # <<>>
    /\ hand' = <<>>
    /\ UNCHANGED <<managerVars, feeder, feedVars, consumer, batch, doneFeeding,
                   trainingOver, processed, driver>>

DrainDone ==
    /\ consumer = "drain"
    /\ hand # <<>>
    /\ TaskDone
    /\ UNCHANGED <<state, queue, feedVars, consumer, batch, doneFeeding, trainingOver,
                   processed, driver>>

\* Nothing arrived for 5 s.  Unless tasks may be that slow, this means that
\* no task is in the middle of its partition.
DrainEmpty ==
    /\ consumer = "drain"
    /\ hand = <<>>
    /\ queue = <<>>
    /\ SlowFeeders \/ \A f \in Feeder : feeder[f] # "feeding"
    /\ consumer' = "exited"
    /\ UNCHANGED <<managerVars, feeder, feedVars, hand, batch, doneFeeding,
                   trainingOver, processed, driver>>

\* The other workers of the cluster reach the last step, or stop.
TrainingIsOver ==
    /\ ~trainingOver
    /\ trainingOver' = TRUE
    /\ UNCHANGED <<managerVars, feeder, feedVars, consumer, hand, batch,
                   doneFeeding, processed, driver>>

ConsumerDies ==
    /\ MayDie
    /\ consumer \notin {"exited", "dead"}
    /\ consumer' = "dead"
    /\ UNCHANGED <<managerVars, feeder, feedVars, hand, batch, doneFeeding,
                   trainingOver, processed, driver>>

-----------------------------------------------------------------------------
(***************************************************************************)
(* TFCluster.shutdown on the driver, after train() has returned, and its   *)
(* task on this executor, TFSparkNode.shutdown.                            *)
(***************************************************************************)
ShutdownPutsNone ==
    /\ driver = "feeding"
    /\ \A f \in Feeder : feeder[f] \in {"joined", "skipped"}
    /\ QueuePut(None)
    /\ driver' = "stopping"
    /\ UNCHANGED <<state, feeder, feedVars, consumerVars>>

ShutdownSetsState ==
    /\ driver = "stopping"
    /\ state' = "stopped"
    /\ driver' = "stopped"
    /\ UNCHANGED <<queue, unfinished, feeder, feedVars, consumerVars>>

-----------------------------------------------------------------------------
Train(f) == StartFeeding(f) \/ PutItem(f) \/ JoinQueue(f)

Consume == \/ LoopTest \/ NextItem \/ TakeItem \/ TrainStep \/ AfterLoop
           \/ DrainGet \/ DrainDone \/ DrainEmpty

Shutdown == ShutdownPutsNone \/ ShutdownSetsState

Next ==
    \/ \E f \in Feeder : Train(f) \/ FeederRetried(f)
    \/ Consume
    \/ Shutdown
    \/ TrainingIsOver
    \/ ConsumerDies

Spec == Init /\ [][Next]_vars

\* Tasks, process and driver run.  Nothing makes training end or a process
\* fail.
FairSpec ==
    /\ Spec
    /\ \A f \in Feeder : WF_vars(Train(f))
    /\ WF_vars(Consume)
    /\ WF_vars(Shutdown)

-----------------------------------------------------------------------------
(***************************************************************************)
(* Properties.                                                             *)
(***************************************************************************)
ItemsOf(f) == {f} \X (1..size[f])

\* When the join() of a task returns, none of its items is left in the queue
\* or in the hands of next_batch or terminate, whoever else feeds the queue.
\* It may still be in a batch that has not been trained on: task_done comes
\* when an item is taken.
JoinMeansTaken ==
    \A f \in Feeder : feeder[f] = "joined" =>
        \A x \in Range(queue) \cup Range(hand) : x = None \/ x[1] # f

\* A process that leaves because the feed has ended has trained on every item
\* of every partition, each exactly once and in the partition's order, if no
\* task was retried.
EveryItemProcessed ==
    consumer = "exited" /\ state # "terminating" /\ ~trainingOver =>
        /\ \A f \in Feeder : ItemsOf(f) \subseteq Range(processed)
        /\ retries = 0 =>
              \A i, j \in DOMAIN processed :
                  i < j /\ processed[i][1] = processed[j][1]
                      => processed[i][2] < processed[j][2]

\* terminate "drops remaining items in the queue": what is in the queue when
\* it is through, and later, is nothing but the end mark.
NothingLeftBehind ==
    consumer = "exited" => Range(queue) \subseteq {None}

\* Unless the TensorFlow process dies, the feed comes to its end whether or
\* not training is over first: every task returns, the end mark is put and
\* the process leaves.
FeedCompletes == <>((driver = "stopped" /\ consumer = "exited") \/ consumer = "dead")

=============================================================================
