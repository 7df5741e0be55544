--------------------------- MODULE InferenceFeed ---------------------------
(***************************************************************************)
(* Inference on one worker node (InputMode.SPARK).  The task of a          *)
(* partition (TFSparkNode.inference) puts its items and an EndPartition    *)
(* mark into the input queue, waits for the queue to be worked off, and    *)
(* then reads as many results from the output queue as it has put items.   *)
(* The TensorFlow process reads batches that end with the partition        *)
(* (DataFeed.next_batch with train_mode false) and puts one result per     *)
(* item (batch_results).  It leaves on the None of the shutdown task: in   *)
(* inference mode the user program's step count does not move.             *)
(*                                                                         *)
(* A result is abstracted to the item it was computed from.                *)
(***************************************************************************)
EXTENDS Naturals, Sequences, FiniteSets, Functions

CONSTANTS Feeder,        \* the inference tasks that Spark places here
          Slots,         \* how many of them may run at a time
          MaxItems,      \* bound: items of a partition
          BatchSize,     \* batch_size of the user program
          MaxRetries,    \* bound: tasks that fail and are retried
          EndPartition,  \* marker.EndPartition
          None           \* the end mark

Item == Feeder \X (1..MaxItems)

ASSUME FeederAssumption == IsFiniteSet(Feeder)
ASSUME SizeAssumption ==
    Slots \in Nat \ {0} /\ MaxItems \in Nat /\ BatchSize \in Nat \ {0} /\ MaxRetries \in Nat
ASSUME MarkAssumption == None \notin Item /\ EndPartition \notin Item /\ None # EndPartition

VARIABLES
    \* the manager's queues
    input, unfinished, output,
    \* the tasks
    size,         \* size[f]: items of f's partition
    feeder,       \* where task f is
    put,          \* put[f]: items its current attempt has put
    results,      \* results[f]: what its current attempt has read
    retries,
    \* the TensorFlow process
    consumer, hand, batch, doneFeeding,
    \* the driver
    driver,
    \* history: all items put, all results read, and whether every task so far
    \* has run without another beside it and without failing
    fed, read, alone

queueVars == <<input, unfinished, output>>
taskVars == <<size, put, results, retries>>
consumerVars == <<consumer, hand, batch, doneFeeding>>
historyVars == <<fed, read, alone>>
vars == <<queueVars, taskVars, feeder, consumerVars, driver, historyVars>>

TypeOK ==
    /\ input \in Seq(Item \cup {None, EndPartition})
    /\ unfinished \in Nat
    /\ output \in Seq(Item)
    /\ size \in [Feeder -> 0..MaxItems]
    /\ feeder \in [Feeder -> {"idle", "feeding", "joining", "reading", "returned"}]
    /\ put \in [Feeder -> 0..MaxItems]
    /\ results \in [Feeder -> Seq(Item)]
    /\ retries \in 0..MaxRetries
    /\ consumer \in {"loop", "batch", "step", "exited"}
    /\ hand \in Seq(Item \cup {None, EndPartition})
    /\ batch \in Seq(Item)
    /\ doneFeeding \in BOOLEAN
    /\ driver \in {"feeding", "stopped"}
    /\ fed \in Seq(Item)
    /\ read \in Seq(Item)
    /\ alone \in BOOLEAN

Init ==
    /\ input = <<>> /\ unfinished = 0 /\ output = <<>>
    /\ size \in [Feeder -> 0..MaxItems]
    /\ feeder = [f \in Feeder |-> "idle"]
    /\ put = [f \in Feeder |-> 0]
    /\ results = [f \in Feeder |-> <<>>]
    /\ retries = 0
    /\ consumer = "loop" /\ hand = <<>> /\ batch = <<>> /\ doneFeeding = FALSE
    /\ driver = "feeding"
    /\ fed = <<>> /\ read = <<>> /\ alone = TRUE

InputPut(x) ==
    /\ input' = Append(input, x)
    /\ unfinished' = unfinished + 1

-----------------------------------------------------------------------------
(***************************************************************************)
(* TFSparkNode.inference: one task per partition.                          *)
(***************************************************************************)
ActiveFeeders == {f \in Feeder : feeder[f] \in {"feeding", "joining", "reading"}}

StartFeeding(f) ==
    /\ feeder[f] = "idle"
    /\ Cardinality(ActiveFeeders) < Slots
    /\ feeder' = [feeder EXCEPT ![f] = "feeding"]
    /\ alone' = (alone /\ ActiveFeeders = {})
    /\ UNCHANGED <<queueVars, taskVars, consumerVars, driver, fed, read>>

PutItem(f) ==
    /\ feeder[f] = "feeding"
    /\ put[f] < size[f]
    /\ InputPut(<<f, put[f] + 1>>)
    /\ put' = [put EXCEPT ![f] = @ + 1]
    /\ fed' = Append(fed, <<f, put[f] + 1>>)
    /\ UNCHANGED <<output, size, feeder, results, retries, consumerVars, driver, read, alone>>

\* The end-of-partition mark, also for an empty partition, whose task then
\* returns at once.  Any other goes on to join(), whether it finds the queue
\* worked off already or is woken when it is.
PutEndPartition(f) ==
    /\ feeder[f] = "feeding"
    /\ put[f] = size[f]
    /\ InputPut(EndPartition)
    /\ feeder' = [feeder EXCEPT ![f] = IF size[f] = 0 THEN "returned" ELSE "joining"]
    /\ UNCHANGED <<output, taskVars, consumerVars, driver, historyVars>>

\* Faulty: stops one result short.
OneShort(f) == Len(results'[f]) + 1 >= put[f]

AllRead(f) == Len(results'[f]) = put[f]

\* One result per item, in a blocking read; the last one ends the task.
ReadResult(f) ==
    /\ feeder[f] = "reading"
    /\ output # <<>>
    /\ results' = [results EXCEPT ![f] = Append(@, Head(output))]
    /\ output' = Tail(output)
    /\ read' = Append(read, Head(output))
    /\ feeder' = [feeder EXCEPT ![f] = IF AllRead(f) THEN "returned" ELSE @]
    /\ UNCHANGED <<input, unfinished, size, put, retries, consumerVars, driver, fed, alone>>

\* The task fails and Spark runs it again: the attempt's results are lost,
\* what it has put into the queue is not.
FeederRetried(f) ==
    /\ f \in ActiveFeeders
    /\ retries < MaxRetries
    /\ retries' = retries + 1
    /\ feeder' = [feeder EXCEPT ![f] = "idle"]
    /\ put' = [put EXCEPT ![f] = 0]
    /\ results' = [results EXCEPT ![f] = <<>>]
    /\ alone' = FALSE
    /\ UNCHANGED <<queueVars, size, consumerVars, driver, fed, read>>

-----------------------------------------------------------------------------
(***************************************************************************)
(* The TensorFlow process.                                                 *)
(***************************************************************************)
LoopTest ==
    /\ consumer = "loop"
    /\ consumer' = IF doneFeeding THEN "exited" ELSE "batch"
    /\ UNCHANGED <<queueVars, feeder, taskVars, hand, batch, doneFeeding,
                   driver, historyVars>>

\* next_batch: queue.get(block=True).
NextItem ==
    /\ consumer = "batch"
    /\ hand = <<>>
    /\ input # <<>>
    /\ hand' = <<Head(input)>>
    /\ input' = Tail(input)
    /\ UNCHANGED <<unfinished, output, feeder, taskVars, consumer, batch, doneFeeding,
                   driver, historyVars>>

\* task_done wakes the tasks in join() when it is the last one.
TaskDone ==
    /\ unfinished' = unfinished - 1
    /\ hand' = <<>>
    /\ feeder' = [f \in Feeder |->
                     IF unfinished = 1 /\ feeder[f] = "joining" THEN "reading" ELSE feeder[f]]

\* Faulty: the end of a partition does not end the batch (as in training).
BatchEndsInTrainMode(x) ==
    \/ x = None
    \/ x \in Item /\ Len(batch) + 1 = BatchSize

\* When next_batch returns after an item x: the feed has ended, the partition
\* has ended with items in the batch, or the batch is full.
BatchEnds(x) ==
    \/ x = None
    \/ x = EndPartition /\ batch # <<>>
    \/ x \in Item /\ Len(batch) + 1 = BatchSize

\* Faulty: takes the mark for an item.
BatchWithMark(x) == IF x # None THEN Append(batch, x) ELSE batch

BatchWith(x) == IF x \in Item THEN Append(batch, x) ELSE batch

\* next_batch, on the item it got.
TakeItem ==
    /\ consumer = "batch"
    /\ hand # <<>>
    /\ TaskDone
    /\ doneFeeding' = (doneFeeding \/ hand[1] = None)
    /\ batch' = BatchWith(hand[1])
    /\ consumer' = IF BatchEnds(hand[1]) THEN "step" ELSE "batch"
    /\ UNCHANGED <<input, output, taskVars, driver, historyVars>>

\* Faulty: the results go out in reverse order.
NextResultReversed == batch[Len(batch)]

NextResult == Head(batch)

\* sess.run and batch_results: the results go out one by one.
PutResult ==
    /\ consumer = "step"
    /\ output' = IF batch = <<>> THEN output ELSE Append(output, NextResult)
    /\ batch' = IF batch = <<>> THEN batch ELSE Tail(batch)
    /\ consumer' = IF Len(batch) <= 1 THEN "loop" ELSE "step"
    /\ UNCHANGED <<input, unfinished, feeder, taskVars, hand, doneFeeding, driver, historyVars>>

-----------------------------------------------------------------------------
\* The shutdown task, after the inference job: None into the input queue.  The
\* None it puts into the output queue has no reader any more.
ShutdownPutsNone ==
    /\ driver = "feeding"
    /\ \A f \in Feeder : feeder[f] = "returned"
    /\ InputPut(None)
    /\ driver' = "stopped"
    /\ UNCHANGED <<output, feeder, taskVars, consumerVars, historyVars>>

Infer(f) == StartFeeding(f) \/ PutItem(f) \/ PutEndPartition(f) \/ ReadResult(f)

Consume == LoopTest \/ NextItem \/ TakeItem \/ PutResult

Next ==
    \/ \E f \in Feeder : Infer(f) \/ FeederRetried(f)
    \/ Consume
    \/ ShutdownPutsNone

Spec == Init /\ [][Next]_vars

FairSpec ==
    /\ Spec
    /\ \A f \in Feeder : WF_vars(Infer(f))
    /\ WF_vars(Consume)
    /\ WF_vars(ShutdownPutsNone)

-----------------------------------------------------------------------------
(***************************************************************************)
(* Properties.                                                             *)
(***************************************************************************)

\* "returns inference results": a task returns the results of its own
\* partition, one per item and in the order of the items.
ResultsMatchPartition ==
    \A f \in Feeder : feeder[f] = "returned" =>
        results[f] = [k \in 1..size[f] |-> <<f, k>>]

\* Tasks that run one at a time and do not fail return what they should, and
\* between two of them no result is left over for the next one.
OwnResultsIfAlone ==
    alone => /\ ResultsMatchPartition
             /\ ActiveFeeders = {} => output = <<>> /\ batch = <<>>

\* The items of a sequence that also holds marks, in order.
Items(s) ==
    LET at == {i \in DOMAIN s : s[i] \in Item}
        rank(i) == Cardinality({j \in at : j <= i})
    IN  [k \in 1..Cardinality(at) |-> s[CHOOSE i \in at : rank(i) = k]]

\* Items go through both queues and the process in the order in which they
\* were put, and none is lost or duplicated on the way, however many tasks
\* feed at a time, fail and are retried.
PipelineInOrder == fed = read \o output \o batch \o Items(hand \o input)

\* Every task gets the results it waits for, and the process leaves at the
\* end.
InferenceCompletes == <>(driver = "stopped" /\ consumer = "exited")

=============================================================================
