----------------------------- MODULE FeedProofs -----------------------------
(***************************************************************************)
(* Proofs about feeding a node, for any number of feeding tasks, task      *)
(* slots, partition sizes and batch size, with tasks that fail and are     *)
(* retried: first training, with a TensorFlow process that may die, then   *)
(* inference.                                                              *)
(*                                                                         *)
(* That join() returns only when the task's items are out of the queue     *)
(* rests on one count: what the queue calls unfinished is what is in it    *)
(* plus the item in the reader's hand.  So join() can only return while    *)
(* both are empty, and the task puts nothing after that.                   *)
(*                                                                         *)
(* What becomes of the items follows them from the queue through the hand  *)
(* and the batch to the training steps: while training is not over none is *)
(* dropped on the way, and none overtakes another of its partition.        *)
(*                                                                         *)
(* In inference what is on its way, in the two queues, in hand or in the   *)
(* batch, is one sequence: a put appends to it, a read takes its head, and *)
(* nothing else changes it.  While tasks run one at a time, it holds items *)
(* of the running task only.                                               *)
(***************************************************************************)
EXTENDS TrainFeed, FiniteSetTheorems, SequenceTheorems, TLAPS

Element == Item \cup {None}

\* The unfinished tasks of the queue are the items in it and in hand.
Accounted ==
    /\ Len(hand) <= 1
    /\ unfinished = Len(queue) + Len(hand)

\* A task puts no more than its partition.
WithinPartition == \A f \in Feeder : put[f] <= size[f]

\* The inductive invariant.
IInv == TypeOK /\ WithinPartition /\ Accounted /\ JoinMeansTaken

-----------------------------------------------------------------------------
\* What appending, taking the head and dropping it do to a sequence's range.
LEMMA RangeAppend ==
    ASSUME NEW S, NEW s \in Seq(S), NEW x \in S
    PROVE  /\ Range(Append(s, x)) = Range(s) \cup {x}
           /\ Append(s, x) \in Seq(S)
           /\ Len(Append(s, x)) = Len(s) + 1
<1>1. /\ Len(s) \in Nat /\ DOMAIN s = 1..Len(s)
      /\ Append(s, x) \in Seq(S)
      /\ Len(Append(s, x)) = Len(s) + 1
      /\ DOMAIN Append(s, x) = 1..(Len(s) + 1)
      /\ \A i \in 1..Len(s) : Append(s, x)[i] = s[i]
      /\ Append(s, x)[Len(s) + 1] = x
  BY LenProperties, AppendProperties
<1> QED  BY <1>1 DEF Range

\* Taking the head of the queue adds nothing to it.
LEMMA RangeHeadTail ==
    ASSUME NEW S, NEW s \in Seq(S), s # <<>>
    PROVE  /\ Head(s) \in Range(s)
           /\ Tail(s) \in Seq(S)
           /\ Range(Tail(s)) \subseteq Range(s)
           /\ Range(<<Head(s)>>) = {Head(s)}
           /\ Len(Tail(s)) = Len(s) - 1
           /\ Head(s) \in S
<1>1. /\ Len(s) \in Nat \ {0} /\ DOMAIN s = 1..Len(s)
      /\ Head(s) = s[1]
  BY EmptySeq, LenProperties
<1>2. /\ Tail(s) \in Seq(S)
      /\ Len(Tail(s)) = Len(s) - 1
      /\ DOMAIN Tail(s) = 1..(Len(s) - 1)
      /\ \A i \in 1..(Len(s) - 1) : Tail(s)[i] = s[i + 1]
  BY <1>1, HeadTailProperties, LenProperties
<1>3. Head(s) \in Range(s) /\ Range(Tail(s)) \subseteq Range(s)
  BY <1>1, <1>2 DEF Range
<1>4. Range(<<Head(s)>>) = {Head(s)}
  BY DEF Range
<1> QED  BY <1>1, <1>2, <1>3, <1>4

\* An empty queue holds nothing.
LEMMA RangeEmpty == Range(<<>>) = {}
BY DEF Range

-----------------------------------------------------------------------------
\* A fresh queue, tasks not started and a process at its loop satisfy it.
LEMMA InitIInv == Init => IInv
<1> SUFFICES ASSUME Init PROVE IInv
  OBVIOUS
<1>1. TypeOK
  <2>1. put \in [Feeder -> 0..MaxItems] /\ retries \in 0..MaxRetries /\ unfinished \in Nat
    BY SizeAssumption DEF Init
  <2>2. doneFeeding \in BOOLEAN /\ trainingOver \in BOOLEAN
    BY Zenon DEF Init
  <2>3. /\ queue \in Seq(Item \cup {None}) /\ hand \in Seq(Item \cup {None})
        /\ batch \in Seq(Item) /\ processed \in Seq(Item)
    BY DEF Init
  <2> QED  BY <2>1, <2>2, <2>3, Zenon DEF Init, TypeOK
<1>2. WithinPartition
  BY <1>1 DEF Init, TypeOK, WithinPartition
<1>3. Accounted
  BY DEF Init, Accounted
<1>4. JoinMeansTaken
  BY DEF Init, JoinMeansTaken
<1> QED  BY <1>1, <1>2, <1>3, <1>4 DEF IInv

\* The get of a queue moves one element into an empty hand.
LEMMA GetKeeps ==
    ASSUME IInv, hand = <<>>, QueueGet, UNCHANGED <<unfinished, feeder>>
    PROVE  /\ queue' \in Seq(Element) /\ hand' \in Seq(Element)
           /\ Accounted' /\ JoinMeansTaken'
<1>1. queue \in Seq(Element) /\ queue # <<>>
  BY DEF IInv, TypeOK, QueueGet, Element
<1>2. /\ queue' \in Seq(Element) /\ Len(queue') = Len(queue) - 1
      /\ hand' \in Seq(Element) /\ Len(hand') = 1
      /\ Range(queue') \cup Range(hand') \subseteq Range(queue)
  BY <1>1, RangeHeadTail DEF QueueGet
<1>3. Accounted'
  <2>1. Len(queue) \in Nat /\ Len(hand) = 0
    BY <1>1, LenProperties
  <2> QED  BY <1>2, <2>1 DEF IInv, Accounted
<1>4. JoinMeansTaken'
  BY <1>2 DEF IInv, JoinMeansTaken
<1> QED  BY <1>2, <1>3, <1>4

\* A put adds to the queue an element that belongs to no joined task.
LEMMA PutKeeps ==
    ASSUME IInv, NEW x \in Element, QueuePut(x), UNCHANGED <<hand, feeder>>,
           x = None \/ feeder[x[1]] # "joined"
    PROVE  queue' \in Seq(Element) /\ Accounted' /\ JoinMeansTaken'
<1>1. queue \in Seq(Element) /\ Len(queue) \in Nat /\ Len(hand) \in Nat
  BY LenProperties DEF IInv, TypeOK, Element
<1>2. /\ queue' \in Seq(Element) /\ Len(queue') = Len(queue) + 1
      /\ Range(queue') = Range(queue) \cup {x}
  BY <1>1, RangeAppend DEF QueuePut
<1>3. Accounted'
  BY <1>1, <1>2 DEF IInv, Accounted, QueuePut
<1>4. ASSUME NEW f \in Feeder, feeder'[f] = "joined", NEW y \in Range(queue') \cup Range(hand')
      PROVE  y = None \/ y[1] # f
  <2>1. feeder[f] = "joined"
    BY <1>4
  <2>2. y \in Range(queue) \cup Range(hand) \/ y = x
    BY <1>2, <1>4
  <2> QED  BY <2>1, <2>2 DEF IInv, JoinMeansTaken
<1>5. JoinMeansTaken'
  BY <1>4 DEF JoinMeansTaken
<1> QED  BY <1>2, <1>3, <1>5

\* task_done for the element in hand releases joins only on an empty queue.
LEMMA DoneKeeps ==
    ASSUME IInv, hand # <<>>, TaskDone, UNCHANGED queue
    PROVE  /\ unfinished' \in Nat /\ hand' = <<>>
           /\ feeder' \in [Feeder -> {"idle", "feeding", "joining", "joined", "skipped"}]
           /\ Accounted' /\ JoinMeansTaken'
<1>1. queue \in Seq(Element) /\ Len(queue) \in Nat /\ hand \in Seq(Element) /\ Len(hand) \in Nat
  BY LenProperties DEF IInv, TypeOK, Element
<1>1a. Len(hand) # 0
  <2>1. \A seq \in Seq(Element) : seq # <<>> => Len(seq) \in Nat \ {0}
    BY EmptySeq, Zenon
  <2> QED  BY <1>1, <2>1
<1>2. Len(hand) = 1 /\ unfinished = Len(queue) + 1
  <2>1. Len(hand) <= 1 /\ unfinished = Len(queue) + Len(hand)
    BY DEF IInv, Accounted
  <2>2. \A h, q \in Nat : h <= 1 /\ h # 0 => h = 1 /\ q + h = q + 1
    OBVIOUS
  <2> QED  BY <1>1, <1>1a, <2>1, <2>2, Zenon
<1>3. unfinished' = Len(queue) /\ hand' = <<>>
  BY <1>1, <1>2 DEF TaskDone
<1>4. feeder' \in [Feeder -> {"idle", "feeding", "joining", "joined", "skipped"}]
  BY DEF TaskDone, IInv, TypeOK
<1>5. Accounted'
  BY <1>1, <1>3 DEF Accounted
<1>6. ASSUME NEW f \in Feeder, feeder'[f] = "joined"
      PROVE  feeder[f] = "joined" \/ queue = <<>>
  <2>1. feeder[f] = "joined" \/ unfinished = 1
    BY <1>6 DEF TaskDone, LastTask
  <2> QED  BY <1>1, <1>2, <2>1, EmptySeq
<1>7. JoinMeansTaken'
  BY <1>3, <1>6, RangeEmpty DEF IInv, JoinMeansTaken
<1> QED  BY <1>1, <1>3, <1>4, <1>5, <1>7

\* A step that leaves queue, hand and count alone and lets no task join.
LEMMA QuietKeeps ==
    ASSUME IInv, UNCHANGED <<queue, unfinished, hand>>,
           \A f \in Feeder : feeder'[f] = "joined" => feeder[f] = "joined"
    PROVE  Accounted' /\ JoinMeansTaken'
BY DEF IInv, Accounted, JoinMeansTaken

\* No step of a task, the TensorFlow process or the shutdown breaks it.
LEMMA StepIInv == IInv /\ [Next]_vars => IInv'
<1> SUFFICES ASSUME IInv, [Next]_vars PROVE IInv'
  OBVIOUS
<1> USE DEF managerVars, feedVars, consumerVars
<1>1. ASSUME NEW f \in Feeder, StartFeeding(f) PROVE IInv'
  <2>1. TypeOK' /\ WithinPartition'
    BY <1>1 DEF StartFeeding, IInv, TypeOK, WithinPartition
  <2>2. Accounted' /\ JoinMeansTaken'
    BY <1>1, QuietKeeps DEF StartFeeding, IInv, TypeOK
  <2> QED  BY <2>1, <2>2 DEF IInv
<1>2. ASSUME NEW f \in Feeder, PutItem(f) PROVE IInv'
  <2> DEFINE x == <<f, put[f] + 1>>
  <2>1. put[f] + 1 \in 1..size[f] /\ size[f] \in 0..MaxItems /\ MaxItems \in Nat
    BY <1>2, SizeAssumption DEF PutItem, IInv, TypeOK
  <2>2. x \in Item /\ x \in Element
    BY <2>1 DEF Item, Element
  <2>3. queue' \in Seq(Element) /\ Accounted' /\ JoinMeansTaken'
    BY <1>2, <2>2, PutKeeps DEF PutItem
  <2>4. TypeOK'
    BY <1>2, <2>1, <2>3 DEF PutItem, QueuePut, IInv, TypeOK, Element
  <2>5. WithinPartition'
    BY <1>2, <2>1 DEF PutItem, IInv, TypeOK, WithinPartition
  <2> QED  BY <2>3, <2>4, <2>5 DEF IInv
<1>3. ASSUME NEW f \in Feeder, JoinQueue(f) PROVE IInv'
  <2>1. TypeOK' /\ WithinPartition'
    BY <1>3 DEF JoinQueue, IInv, TypeOK, WithinPartition
  <2>2. Accounted'
    BY <1>3 DEF JoinQueue, IInv, Accounted
  <2>3. unfinished = 0 => queue = <<>> /\ hand = <<>>
    BY LenProperties, EmptySeq DEF IInv, TypeOK, Accounted
  <2>4. \A g \in Feeder : feeder'[g] = "joined" => feeder[g] = "joined" \/ unfinished = 0
    BY <1>3 DEF JoinQueue, IInv, TypeOK
  <2>5. JoinMeansTaken'
    BY <1>3, <2>3, <2>4, RangeEmpty DEF JoinQueue, IInv, JoinMeansTaken
  <2> QED  BY <2>1, <2>2, <2>5 DEF IInv
<1>4. ASSUME NEW f \in Feeder, FeederRetried(f) PROVE IInv'
  <2>1. TypeOK' /\ WithinPartition'
    BY <1>4, SizeAssumption DEF FeederRetried, IInv, TypeOK, WithinPartition
  <2>2. Accounted' /\ JoinMeansTaken'
    BY <1>4, QuietKeeps DEF FeederRetried, IInv, TypeOK
  <2> QED  BY <2>1, <2>2 DEF IInv
<1>5. CASE LoopTest \/ TrainStep \/ AfterLoop \/ DrainEmpty \/ TrainingIsOver \/ ConsumerDies
  <2>1. UNCHANGED <<queue, unfinished, hand, feeder, size, put, retries, driver>>
    BY <1>5 DEF LoopTest, TrainStep, AfterLoop, DrainEmpty, TrainingIsOver, ConsumerDies
  <2>2. processed' \in Seq(Item) /\ batch' \in Seq(Item)
    <3>1. batch \in Seq(Item) /\ processed \in Seq(Item)
      BY DEF IInv, TypeOK
    <3>2. CASE TrainStep
      BY <3>1, <3>2, ConcatProperties, EmptySeq DEF TrainStep
    <3>3. CASE ~TrainStep
      BY <1>5, <3>1, <3>3 DEF LoopTest, AfterLoop, DrainEmpty, TrainingIsOver, ConsumerDies
    <3> QED  BY <3>2, <3>3
  <2>5. TypeOK'
    BY <1>5, <2>1, <2>2 DEF LoopTest, TrainStep, AfterLoop, Terminates, DrainEmpty,
                            TrainingIsOver, ConsumerDies, IInv, TypeOK
  <2>3. WithinPartition'
    BY <2>1 DEF IInv, WithinPartition
  <2>4. Accounted' /\ JoinMeansTaken'
    BY <2>1, QuietKeeps
  <2> QED  BY <2>3, <2>4, <2>5 DEF IInv
<1>6. CASE NextItem \/ DrainGet
  <2>1. /\ hand = <<>> /\ QueueGet
        /\ UNCHANGED <<state, unfinished, feeder, size, put, retries, consumer, batch,
                       doneFeeding, trainingOver, processed, driver>>
    BY <1>6 DEF NextItem, DrainGet
  <2>2. /\ queue' \in Seq(Element) /\ hand' \in Seq(Element)
        /\ Accounted' /\ JoinMeansTaken'
    BY <2>1, GetKeeps
  <2>3. TypeOK'
    BY <2>1, <2>2 DEF IInv, TypeOK, Element
  <2>4. WithinPartition'
    BY <2>1 DEF IInv, WithinPartition
  <2> QED  BY <2>2, <2>3, <2>4 DEF IInv
<1>7. CASE TakeItem
  <2>1. hand # <<>> /\ TaskDone /\ UNCHANGED queue
    BY <1>7 DEF TakeItem
  <2>2. /\ unfinished' \in Nat /\ hand' = <<>>
        /\ feeder' \in [Feeder -> {"idle", "feeding", "joining", "joined", "skipped"}]
        /\ Accounted' /\ JoinMeansTaken'
    BY <2>1, DoneKeeps
  <2>3. hand[1] \in Item \cup {None}
    BY <2>1, LenProperties, EmptySeq DEF IInv, TypeOK
  <2>4. batch' \in Seq(Item)
    BY <1>7, <2>3 DEF TakeItem, BatchWith, IInv, TypeOK
  <2>5. TypeOK'
    BY <1>7, <2>2, <2>4 DEF TakeItem, IInv, TypeOK
  <2>6. WithinPartition'
    BY <1>7 DEF TakeItem, IInv, WithinPartition
  <2> QED  BY <2>2, <2>5, <2>6 DEF IInv
<1>8. CASE DrainDone
  <2>1. /\ unfinished' \in Nat /\ hand' = <<>>
        /\ feeder' \in [Feeder -> {"idle", "feeding", "joining", "joined", "skipped"}]
        /\ Accounted' /\ JoinMeansTaken'
    BY <1>8, DoneKeeps DEF DrainDone
  <2>2. TypeOK'
    BY <1>8, <2>1 DEF DrainDone, IInv, TypeOK
  <2>3. WithinPartition'
    BY <1>8 DEF DrainDone, IInv, WithinPartition
  <2> QED  BY <2>1, <2>2, <2>3 DEF IInv
<1>1a. CASE ShutdownPutsNone
  <2>1. queue' \in Seq(Element) /\ Accounted' /\ JoinMeansTaken'
    BY <1>1a, PutKeeps DEF ShutdownPutsNone, Element
  <2>2. TypeOK'
    BY <1>1a, <2>1 DEF ShutdownPutsNone, QueuePut, IInv, TypeOK, Element
  <2>3. WithinPartition'
    BY <1>1a DEF ShutdownPutsNone, IInv, WithinPartition
  <2> QED  BY <2>1, <2>2, <2>3 DEF IInv
<1>10. CASE ShutdownSetsState
  BY <1>10, QuietKeeps DEF ShutdownSetsState, IInv, TypeOK, WithinPartition
<1>11. CASE UNCHANGED vars
  BY <1>11 DEF vars, IInv, TypeOK, WithinPartition, Accounted, JoinMeansTaken
<1> QED
  BY <1>1, <1>2, <1>3, <1>4, <1>5, <1>6, <1>7, <1>8, <1>1a, <1>10, <1>11
     DEF Next, Train, Consume, Shutdown

\* The training feed keeps the inductive invariant.
LEMMA IInvInvariant == Spec => []IInv
BY InitIInv, StepIInv, PTL DEF Spec

-----------------------------------------------------------------------------
\* Every variable of the training feed keeps its type.
THEOREM TypeCorrect == Spec => []TypeOK
<1>1. IInv => TypeOK
  BY DEF IInv
<1> QED  BY IInvInvariant, <1>1, PTL

\* A feeding task whose join() has returned has no item left in the queue or
\* in the reader's hand, for any number of concurrent tasks and retries.
THEOREM JoinMeansTakenHolds == Spec => []JoinMeansTaken
<1>1. IInv => JoinMeansTaken
  BY DEF IInv
<1> QED  BY IInvInvariant, <1>1, PTL

-----------------------------------------------------------------------------
(***************************************************************************)
(* What becomes of the items.                                              *)
(***************************************************************************)

\* Who has got how far: a task that waits has put its partition, the end mark is put
\* when no task is left, and the process holds items only in the middle of a batch.
Progress ==
    /\ \A f \in Feeder : feeder[f] \in {"joining", "joined"} => put[f] = size[f]
    /\ driver # "feeding" => \A f \in Feeder : feeder[f] \in {"joined", "skipped"}
    /\ driver = "feeding" => None \notin Range(queue) \cup Range(hand) /\ ~doneFeeding
    /\ consumer \in {"loop", "left", "exited", "step"} => hand = <<>>
    /\ consumer \in {"loop", "left", "drain", "exited"} => batch = <<>>

\* Why the process leaves its loop, and which tasks skip their partition.
Leaving ==
    /\ consumer \in {"left", "exited"} => trainingOver \/ doneFeeding
    /\ consumer = "drain" => trainingOver
    /\ consumer \in {"drain", "exited"} => state = "terminating" \/ driver # "feeding"
    /\ state = "terminating" => trainingOver
    /\ \A f \in Feeder : feeder[f] = "skipped" => trainingOver

\* As long as training is not over, what a task has put is on its way or processed.
Conserved ==
    ~trainingOver =>
        \A f \in Feeder : \A k \in 1..put[f] :
            <<f, k>> \in Range(queue) \cup Range(hand) \cup Range(batch) \cup Range(processed)

\* Item x may precede item y.
Precedes(x, y) == x # None /\ y # None /\ x[1] = y[1] => x[2] < y[2]

InSequence(s) == \A i, j \in 1..Len(s) : i < j => Precedes(s[i], s[j])

Before(s, t) == \A x \in Range(s), y \in Range(t) : Precedes(x, y)

\* Without retries no item overtakes another of its partition, or comes twice.
InOrder ==
    retries = 0 =>
        /\ InSequence(queue) /\ InSequence(batch) /\ InSequence(processed)
        /\ Before(hand, queue)
        /\ Before(batch, hand) /\ Before(batch, queue)
        /\ Before(processed, batch) /\ Before(processed, hand) /\ Before(processed, queue)
        /\ \A x \in Range(queue) \cup Range(hand) \cup Range(batch) \cup Range(processed) :
              x # None => x[2] <= put[x[1]]

\* The inductive invariant about items.
ItemInv == Progress /\ Leaving /\ Conserved /\ InOrder

\* A process that has left keeps its queue clean, if no task is slow.
Clean ==
    consumer = "exited" => /\ Range(queue) \subseteq {None}
                           /\ \A f \in Feeder : feeder[f] # "feeding"

LEMMA SequenceAppend ==
    ASSUME NEW S, NEW s \in Seq(S), NEW x \in S, InSequence(s), \A y \in Range(s) : Precedes(y, x)
    PROVE  InSequence(Append(s, x))
<1>1. /\ Len(s) \in Nat /\ DOMAIN s = 1..Len(s) /\ Len(Append(s, x)) = Len(s) + 1
      /\ \A i \in 1..Len(s) : Append(s, x)[i] = s[i]
      /\ Append(s, x)[Len(s) + 1] = x
  BY LenProperties, AppendProperties
<1>2. \A i \in 1..Len(s) : Precedes(s[i], x)
  BY <1>1 DEF Range
<1> SUFFICES ASSUME NEW i \in 1..(Len(s) + 1), NEW j \in 1..(Len(s) + 1), i < j
             PROVE  Precedes(Append(s, x)[i], Append(s, x)[j])
  BY <1>1 DEF InSequence
<1>3. i \in 1..Len(s) /\ (j \in 1..Len(s) \/ j = Len(s) + 1)
  BY <1>1
<1> QED  BY <1>1, <1>2, <1>3 DEF InSequence

LEMMA SequenceTail ==
    ASSUME NEW S, NEW s \in Seq(S), s # <<>>
    PROVE  /\ Range(s) = {Head(s)} \cup Range(Tail(s))
           /\ InSequence(s) => /\ InSequence(Tail(s))
                              /\ \A y \in Range(Tail(s)) : Precedes(Head(s), y)
<1>1. /\ Len(s) \in Nat \ {0} /\ DOMAIN s = 1..Len(s)
      /\ Head(s) = s[1]
  BY EmptySeq, LenProperties
<1>2. /\ Len(Tail(s)) = Len(s) - 1
      /\ DOMAIN Tail(s) = 1..(Len(s) - 1)
      /\ \A i \in 1..(Len(s) - 1) : Tail(s)[i] = s[i + 1]
  BY <1>1, HeadTailProperties, LenProperties
<1>3. Range(s) = {Head(s)} \cup Range(Tail(s))
  <2>1. ASSUME NEW i \in 1..Len(s) PROVE s[i] \in {Head(s)} \cup Range(Tail(s))
    <3>1. CASE i = 1
      BY <1>1, <3>1
    <3>2. CASE i # 1
      <4>1. i - 1 \in 1..(Len(s) - 1) /\ (i - 1) + 1 = i
        BY <1>1, <3>2
      <4>2. Tail(s)[i - 1] = s[i]
        BY <1>2, <4>1
      <4> QED  BY <1>2, <4>1, <4>2 DEF Range
    <3> QED  BY <3>1, <3>2
  <2>2. Range(s) \subseteq {Head(s)} \cup Range(Tail(s))
    BY <1>1, <2>1 DEF Range
  <2> QED  BY <2>2, RangeHeadTail
<1>4. ASSUME InSequence(s) PROVE InSequence(Tail(s))
  <2> SUFFICES ASSUME NEW i \in 1..(Len(s) - 1), NEW j \in 1..(Len(s) - 1), i < j
               PROVE  Precedes(Tail(s)[i], Tail(s)[j])
    BY <1>2 DEF InSequence
  <2>1. i + 1 \in 1..Len(s) /\ j + 1 \in 1..Len(s) /\ i + 1 < j + 1
    BY <1>1
  <2> QED  BY <1>2, <1>4, <2>1 DEF InSequence
<1>5. ASSUME InSequence(s), NEW i \in 1..(Len(s) - 1) PROVE Precedes(Head(s), Tail(s)[i])
  <2>1. i + 1 \in 1..Len(s) /\ 1 \in 1..Len(s) /\ 1 < i + 1
    BY <1>1
  <2> QED  BY <1>1, <1>2, <1>5, <2>1 DEF InSequence
<1> QED  BY <1>2, <1>3, <1>4, <1>5 DEF Range

LEMMA SequenceConcat ==
    ASSUME NEW S, NEW s \in Seq(S), NEW t \in Seq(S)
    PROVE  /\ Range(s \o t) = Range(s) \cup Range(t)
           /\ InSequence(s) /\ InSequence(t) /\ Before(s, t) => InSequence(s \o t)
<1>1. /\ Len(s) \in Nat /\ DOMAIN s = 1..Len(s) /\ Len(t) \in Nat /\ DOMAIN t = 1..Len(t)
      /\ Len(s \o t) = Len(s) + Len(t) /\ DOMAIN (s \o t) = 1..(Len(s) + Len(t))
      /\ \A i \in 1..Len(s) : (s \o t)[i] = s[i]
      /\ \A i \in 1..Len(t) : (s \o t)[Len(s) + i] = t[i]
  BY LenProperties, ConcatProperties
<1>2. \A i \in 1..(Len(s) + Len(t)) :
        \/ i \in 1..Len(s) /\ (s \o t)[i] = s[i]
        \/ i \notin 1..Len(s) /\ i - Len(s) \in 1..Len(t) /\ (s \o t)[i] = t[i - Len(s)]
  <2> SUFFICES ASSUME NEW i \in 1..(Len(s) + Len(t)), i \notin 1..Len(s)
               PROVE  i - Len(s) \in 1..Len(t) /\ (s \o t)[i] = t[i - Len(s)]
    BY <1>1
  <2>1. i - Len(s) \in 1..Len(t) /\ Len(s) + (i - Len(s)) = i
    BY <1>1
  <2>2. (s \o t)[Len(s) + (i - Len(s))] = t[i - Len(s)]
    BY <1>1, <2>1
  <2> QED  BY <2>1, <2>2
<1>3. Range(s \o t) = Range(s) \cup Range(t)
  <2>1. Range(s \o t) \subseteq Range(s) \cup Range(t)
    BY <1>1, <1>2 DEF Range
  <2>2. \A i \in 1..Len(s) : s[i] \in Range(s \o t)
    <3>1. 1..Len(s) \subseteq 1..(Len(s) + Len(t))
      BY <1>1
    <3> QED  BY <1>1, <3>1 DEF Range
  <2>3. \A i \in 1..Len(t) : t[i] \in Range(s \o t)
    <3>1. \A i \in 1..Len(t) : Len(s) + i \in 1..(Len(s) + Len(t))
      BY <1>1
    <3> QED  BY <1>1, <3>1 DEF Range
  <2> QED  BY <1>1, <2>1, <2>2, <2>3 DEF Range
<1>4. ASSUME InSequence(s), InSequence(t), Before(s, t) PROVE InSequence(s \o t)
  <2> SUFFICES ASSUME NEW i \in 1..(Len(s) + Len(t)), NEW j \in 1..(Len(s) + Len(t)), i < j
               PROVE  Precedes((s \o t)[i], (s \o t)[j])
    BY <1>1 DEF InSequence
  <2>1. CASE j \in 1..Len(s)
    BY <1>1, <1>4, <2>1 DEF InSequence
  <2>2. CASE i \in 1..Len(s) /\ j \notin 1..Len(s)
    <3>1. s[i] \in Range(s) /\ t[j - Len(s)] \in Range(t)
      BY <1>1, <1>2, <2>2 DEF Range
    <3> QED  BY <1>2, <1>4, <2>2, <3>1 DEF Before
  <2>3. CASE i \notin 1..Len(s) /\ j \notin 1..Len(s)
    <3>1. i - Len(s) < j - Len(s)
      BY <1>1
    <3> QED  BY <1>2, <1>4, <2>3, <3>1 DEF InSequence
  <2> QED  BY <1>1, <2>1, <2>2, <2>3
<1> QED  BY <1>3, <1>4

LEMMA HandFacts ==
    ASSUME IInv, hand # <<>>
    PROVE  hand[1] \in Element /\ Range(hand) = {hand[1]}
<1>1. hand \in Seq(Element) /\ Len(hand) \in Nat \ {0}
  BY EmptySeq DEF IInv, TypeOK, Element
<1>2. Len(hand) <= 1
  BY DEF IInv, Accounted
<1>3. Len(hand) = 1
  <2>1. \A h \in Nat \ {0} : h <= 1 => h = 1
    OBVIOUS
  <2> QED  BY <1>1, <1>2, <2>1, Zenon
<1>4. DOMAIN hand = 1..1
  BY <1>1, <1>3, LenProperties
<1> QED  BY <1>1, <1>3, <1>4 DEF Range

LEMMA InitItemInv == Init => ItemInv
<1> SUFFICES ASSUME Init PROVE ItemInv
  OBVIOUS
<1>1. Progress /\ Leaving
  BY RangeEmpty DEF Init, Progress, Leaving
<1>2. Conserved
  BY DEF Init, Conserved
<1>3. InSequence(<<>>) /\ \A t : Before(<<>>, t)
  BY RangeEmpty DEF InSequence, Before
<1>4. InOrder
  BY <1>3, RangeEmpty DEF Init, InOrder
<1> QED  BY <1>1, <1>2, <1>4 DEF ItemInv

\* The head of the queue moves into the hand: nothing is lost, nothing overtaken.
LEMMA GetItemInv ==
    ASSUME IInv, ItemInv, NextItem \/ DrainGet
    PROVE  ItemInv'
<1> USE DEF managerVars, feedVars, consumerVars
<1>1. /\ hand = <<>> /\ consumer \in {"batch", "drain"}
      /\ queue # <<>> /\ hand' = <<Head(queue)>> /\ queue' = Tail(queue)
      /\ UNCHANGED <<state, unfinished, feeder, size, put, retries, consumer, batch,
                     doneFeeding, trainingOver, processed, driver>>
  BY DEF NextItem, DrainGet, QueueGet
<1>2. queue \in Seq(Element)
  BY DEF IInv, TypeOK, Element
<1>3. /\ Range(queue) = {Head(queue)} \cup Range(queue') /\ Range(hand') = {Head(queue)}
      /\ Range(hand) = {}
  BY <1>1, <1>2, SequenceTail, RangeHeadTail, RangeEmpty
<1>4. InSequence(queue) => /\ InSequence(queue')
                          /\ \A y \in Range(queue') : Precedes(Head(queue), y)
  BY <1>1, <1>2, SequenceTail
<1>5. Range(queue) \cup Range(hand) = Range(queue') \cup Range(hand')
  BY <1>3
<1>6. Progress'
  BY <1>1, <1>5 DEF ItemInv, Progress
<1>7. Leaving'
  BY <1>1 DEF ItemInv, Leaving
<1>8. Conserved'
  BY <1>1, <1>5 DEF ItemInv, Conserved
<1>9. InOrder'
  BY <1>1, <1>3, <1>4 DEF ItemInv, InOrder, Before
<1> QED  BY <1>6, <1>7, <1>8, <1>9 DEF ItemInv

\* The item in hand goes to the batch; the end mark goes.
LEMMA TakeItemInv ==
    ASSUME IInv, IInv', ItemInv, TakeItem
    PROVE  ItemInv'
<1> USE DEF managerVars, feedVars, consumerVars
<1>1. /\ consumer = "batch" /\ hand # <<>> /\ hand' = <<>> /\ batch' = BatchWith(hand[1])
      /\ consumer' \in {"step", "batch"}
      /\ doneFeeding' = (doneFeeding \/ hand[1] = None)
      /\ UNCHANGED <<state, queue, size, put, retries, trainingOver, processed, driver>>
  BY DEF TakeItem, TaskDone
<1>2. \A f \in Feeder : feeder'[f] = feeder[f] \/ (feeder[f] = "joining" /\ feeder'[f] = "joined")
  BY DEF TakeItem, TaskDone
<1>3. /\ hand[1] \in Element /\ Range(hand) = {hand[1]} /\ Range(hand') = {}
      /\ batch \in Seq(Item)
  BY <1>1, HandFacts, RangeEmpty DEF IInv, TypeOK
<1>4. /\ hand[1] = None => batch' = batch
      /\ hand[1] # None => /\ Range(batch') = Range(batch) \cup {hand[1]}
                           /\ InSequence(batch) /\ Before(batch, hand) => InSequence(batch')
  <2>1. CASE hand[1] = None
    BY <1>1, <2>1 DEF BatchWith
  <2>2. CASE hand[1] # None
    <3>1. hand[1] \in Item /\ batch' = Append(batch, hand[1])
      BY <1>1, <1>3, <2>2 DEF BatchWith, Element
    <3>2. Range(batch') = Range(batch) \cup {hand[1]}
      BY <1>3, <3>1, RangeAppend
    <3>3. Before(batch, hand) => \A y \in Range(batch) : Precedes(y, hand[1])
      BY <1>3 DEF Before
    <3> QED  BY <1>3, <2>2, <3>1, <3>2, <3>3, SequenceAppend
  <2> QED  BY <2>1, <2>2
<1>5. Progress'
  <2>1. driver = "feeding" => hand[1] # None
    BY <1>3 DEF ItemInv, Progress
  <2>2. driver' = "feeding" => None \notin Range(queue') \cup Range(hand') /\ ~doneFeeding'
    BY <1>1, <1>3, <2>1 DEF ItemInv, Progress
  <2> QED  BY <1>1, <1>2, <2>2 DEF ItemInv, Progress
<1>6. Leaving'
  BY <1>1, <1>2 DEF ItemInv, Leaving
<1>7. Conserved'
  <2> SUFFICES ASSUME ~trainingOver, NEW f \in Feeder, NEW k \in 1..put[f]
               PROVE  <<f, k>> \in Range(queue') \cup Range(hand') \cup Range(batch') \cup Range(processed')
    BY <1>1 DEF Conserved
  <2>1. <<f, k>> \in Range(queue) \cup Range(hand) \cup Range(batch) \cup Range(processed)
    BY DEF ItemInv, Conserved
  <2>2. CASE <<f, k>> \in Range(hand)
    <3>1. put[f] \in 0..MaxItems /\ MaxItems \in Nat
      BY SizeAssumption DEF IInv, TypeOK
    <3>2. <<f, k>> \in Item
      BY <3>1 DEF Item
    <3>3. hand[1] = <<f, k>> /\ hand[1] # None
      BY <1>3, <2>2, <3>2, NoneAssumption
    <3> QED  BY <1>4, <3>3
  <2>3. CASE <<f, k>> \notin Range(hand)
    BY <1>1, <1>4, <2>1, <2>3
  <2> QED  BY <2>2, <2>3
<1>8. InOrder'
  <2>1. /\ InSequence(batch) /\ Before(batch, hand) => InSequence(batch')
        /\ Range(batch') \subseteq Range(batch) \cup Range(hand)
    BY <1>3, <1>4
  <2> QED  BY <1>1, <1>3, <2>1 DEF ItemInv, InOrder, Before
<1> QED  BY <1>5, <1>6, <1>7, <1>8 DEF ItemInv

\* The batch goes to the end of what is processed.
LEMMA TrainStepItemInv ==
    ASSUME IInv, ItemInv, TrainStep
    PROVE  ItemInv'
<1> USE DEF managerVars, feedVars, consumerVars
<1>1. /\ consumer = "step" /\ processed' = processed \o batch /\ batch' = <<>> /\ consumer' = "loop"
      /\ UNCHANGED <<managerVars, feeder, feedVars, hand, doneFeeding, trainingOver, driver>>
  BY DEF TrainStep
<1>2. /\ Range(processed') = Range(processed) \cup Range(batch) /\ Range(batch') = {}
      /\ InSequence(processed) /\ InSequence(batch) /\ Before(processed, batch) => InSequence(processed')
  BY <1>1, SequenceConcat, RangeEmpty DEF IInv, TypeOK
<1>3. Progress'
  BY <1>1 DEF ItemInv, Progress
<1>4. Leaving'
  BY <1>1 DEF ItemInv, Leaving
<1>5. Conserved'
  BY <1>1, <1>2 DEF ItemInv, Conserved
<1>6. InSequence(batch')
  BY <1>1 DEF InSequence
<1>7. InOrder'
  BY <1>1, <1>2, <1>6 DEF ItemInv, InOrder, Before
<1> QED  BY <1>3, <1>4, <1>5, <1>7 DEF ItemInv

\* A task puts its next item behind all others.
LEMMA PutItemInv ==
    ASSUME IInv, ItemInv, NEW f \in Feeder, PutItem(f)
    PROVE  ItemInv'
<1> USE DEF managerVars, feedVars, consumerVars
<1> DEFINE x == <<f, put[f] + 1>>
<1>1. /\ feeder[f] = "feeding" /\ queue' = Append(queue, x)
      /\ UNCHANGED <<state, size, feeder, retries, consumerVars, driver>>
      /\ put[f] \in Nat /\ put'[f] = put[f] + 1 /\ \A g \in Feeder : g # f => put'[g] = put[g]
      /\ \A g \in Feeder : put[g] \in Nat
  BY SizeAssumption DEF PutItem, QueuePut, IInv, TypeOK
<1>2. put[f] + 1 \in 1..size[f] /\ size[f] \in 0..MaxItems /\ MaxItems \in Nat
  BY SizeAssumption DEF PutItem, IInv, TypeOK
<1>3. x \in Item /\ x # None /\ queue \in Seq(Element) /\ x \in Element /\ x[1] = f /\ x[2] = put[f] + 1
  BY <1>2, NoneAssumption DEF Item, Element, IInv, TypeOK
<1> HIDE DEF x
<1>4. Range(queue') = Range(queue) \cup {x}
  BY <1>1, <1>3, RangeAppend
<1>5. Progress'
  BY <1>1, <1>3, <1>4 DEF ItemInv, Progress
<1>6. Leaving'
  BY <1>1 DEF ItemInv, Leaving
<1>7. Conserved'
  <2> SUFFICES ASSUME ~trainingOver, NEW g \in Feeder, NEW k \in 1..put'[g]
               PROVE  <<g, k>> \in Range(queue') \cup Range(hand) \cup Range(batch) \cup Range(processed)
    BY <1>1 DEF Conserved
  <2>1. k \in 1..put[g] \/ (g = f /\ k = put[f] + 1)
    BY <1>1
  <2> QED  BY <1>4, <2>1 DEF ItemInv, Conserved, x
<1>8. ASSUME retries = 0
      PROVE  \A y \in Range(queue) \cup Range(hand) \cup Range(batch) \cup Range(processed) :
                Precedes(y, x) /\ (y # None => y[2] \in Nat /\ y[1] \in Feeder /\ y[2] <= put[y[1]])
  <2> SUFFICES ASSUME NEW y \in Range(queue) \cup Range(hand) \cup Range(batch) \cup Range(processed), y # None
               PROVE  Precedes(y, x) /\ y[2] \in Nat /\ y[1] \in Feeder /\ y[2] <= put[y[1]]
    BY DEF Precedes
  <2>1. y[2] <= put[y[1]]
    BY <1>8 DEF ItemInv, InOrder
  <2>2. y \in Item
    <3>1. /\ DOMAIN queue = 1..Len(queue) /\ DOMAIN hand = 1..Len(hand)
          /\ DOMAIN batch = 1..Len(batch) /\ DOMAIN processed = 1..Len(processed)
      BY LenProperties DEF IInv, TypeOK
    <3> QED  BY <3>1 DEF IInv, TypeOK, Range
  <2>3. y[2] \in Nat /\ y[1] \in Feeder
    BY <2>2, SizeAssumption DEF Item
  <2> QED  BY <1>1, <1>3, <2>1, <2>3 DEF Precedes
<1>9. ASSUME retries = 0 PROVE InSequence(queue')
  BY <1>1, <1>3, <1>8, <1>9, SequenceAppend DEF ItemInv, InOrder
<1>10. InOrder'
  <2> SUFFICES ASSUME retries = 0 PROVE InOrder!2'
    BY <1>1 DEF InOrder
  <2>1. Before(hand, queue') /\ Before(batch, queue') /\ Before(processed, queue')
    BY <1>4, <1>8 DEF ItemInv, InOrder, Before
  <2>2. \A y \in Range(queue') \cup Range(hand) \cup Range(batch) \cup Range(processed) :
              y # None => y[2] <= put'[y[1]]
    BY <1>1, <1>3, <1>4, <1>8
  <2> QED  BY <1>1, <1>9, <2>1, <2>2 DEF ItemInv, InOrder, Before
<1> QED  BY <1>5, <1>6, <1>7, <1>10 DEF ItemInv

\* No step of a task, the TensorFlow process or the shutdown breaks it.
LEMMA StepItemInv == IInv /\ IInv' /\ ItemInv /\ [Next]_vars => ItemInv'
<1> SUFFICES ASSUME IInv, IInv', ItemInv, [Next]_vars PROVE ItemInv'
  OBVIOUS
<1> USE DEF managerVars, feedVars, consumerVars
<1>0. feeder \in [Feeder -> {"idle", "feeding", "joining", "joined", "skipped"}]
  BY DEF IInv, TypeOK
<1>1. ASSUME NEW f \in Feeder, StartFeeding(f) PROVE ItemInv'
  <2>1. /\ feeder[f] = "idle" /\ driver = "feeding"
        /\ feeder'[f] = IF state = "terminating" THEN "skipped" ELSE "feeding"
        /\ \A g \in Feeder : g # f => feeder'[g] = feeder[g]
        /\ UNCHANGED <<managerVars, feedVars, consumerVars, driver>>
    BY <1>0, <1>1 DEF StartFeeding, ItemInv, Progress
  <2>2. Progress'
    BY <2>1 DEF ItemInv, Progress
  <2>3. Leaving'
    BY <2>1 DEF ItemInv, Leaving
  <2>4. Conserved' /\ InOrder'
    BY <2>1 DEF ItemInv, Conserved, InOrder, InSequence, Before
  <2> QED  BY <2>2, <2>3, <2>4 DEF ItemInv
<1>2. ASSUME NEW f \in Feeder, JoinQueue(f) PROVE ItemInv'
  <2>1. /\ feeder[f] = "feeding" /\ driver = "feeding" /\ put[f] = size[f]
        /\ feeder'[f] \in {"joined", "joining"}
        /\ \A g \in Feeder : g # f => feeder'[g] = feeder[g]
        /\ UNCHANGED <<managerVars, feedVars, consumerVars, driver>>
    BY <1>0, <1>2 DEF JoinQueue, ItemInv, Progress
  <2>2. Progress' /\ Leaving'
    BY <2>1 DEF ItemInv, Progress, Leaving
  <2>3. Conserved' /\ InOrder'
    BY <2>1 DEF ItemInv, Conserved, InOrder, InSequence, Before
  <2> QED  BY <2>2, <2>3 DEF ItemInv
<1>3. ASSUME NEW f \in Feeder, FeederRetried(f) PROVE ItemInv'
  <2>0. put \in [Feeder -> 0..MaxItems] /\ retries \in Nat
    BY SizeAssumption DEF IInv, TypeOK
  <2>1. /\ feeder[f] \in {"feeding", "joining"} /\ retries' # 0
        /\ feeder'[f] = "idle" /\ put'[f] = 0
        /\ \A g \in Feeder : g # f => feeder'[g] = feeder[g] /\ put'[g] = put[g]
        /\ UNCHANGED <<state, queue, unfinished, size, consumerVars, driver>>
    BY <1>0, <1>3, <2>0 DEF FeederRetried, ActiveFeeders
  <2>1a. driver = "feeding"
    BY <2>1 DEF ItemInv, Progress
  <2>2. Progress' /\ Leaving'
    BY <2>1, <2>1a DEF ItemInv, Progress, Leaving
  <2>3. Conserved'
    <3> SUFFICES ASSUME ~trainingOver, NEW g \in Feeder, NEW k \in 1..put'[g]
                 PROVE  <<g, k>> \in Range(queue) \cup Range(hand) \cup Range(batch) \cup Range(processed)
      BY <2>1 DEF Conserved
    <3>1. g # f
      BY <2>1
    <3> QED  BY <2>1, <3>1 DEF ItemInv, Conserved
  <2>4. InOrder'
    BY <2>1 DEF InOrder
  <2> QED  BY <2>2, <2>3, <2>4 DEF ItemInv
<1>4. CASE LoopTest \/ AfterLoop \/ DrainEmpty \/ TrainingIsOver \/ ConsumerDies
  <2>1. /\ UNCHANGED <<queue, unfinished, hand, batch, processed, feeder, feedVars, doneFeeding, driver>>
        /\ trainingOver => trainingOver'
    BY <1>4 DEF LoopTest, AfterLoop, DrainEmpty, TrainingIsOver, ConsumerDies
  <2>2. Progress'
    <3>1. CASE DrainEmpty
      BY <2>1, <3>1 DEF DrainEmpty, ItemInv, Progress
    <3>2. CASE ~DrainEmpty
      BY <1>4, <2>1, <3>2 DEF LoopTest, AfterLoop, TrainingIsOver, ConsumerDies, ItemInv, Progress
    <3> QED  BY <3>1, <3>2
  <2>3. Leaving'
    BY <1>4, <2>1 DEF LoopTest, AfterLoop, Terminates, DrainEmpty, TrainingIsOver, ConsumerDies,
                      ItemInv, Progress, Leaving
  <2>4. Conserved' /\ InOrder'
    BY <2>1 DEF ItemInv, Conserved, InOrder, InSequence, Before
  <2> QED  BY <2>2, <2>3, <2>4 DEF ItemInv
<1>5. CASE DrainDone
  <2>1. /\ consumer = "drain" /\ trainingOver /\ hand' = <<>> /\ Range(hand') = {}
        /\ \A f \in Feeder : feeder'[f] = feeder[f] \/ (feeder[f] = "joining" /\ feeder'[f] = "joined")
        /\ UNCHANGED <<state, queue, feedVars, consumer, batch, doneFeeding, trainingOver,
                       processed, driver>>
    BY <1>5, RangeEmpty DEF DrainDone, TaskDone, ItemInv, Leaving
  <2>2. Progress' /\ Leaving'
    BY <2>1 DEF ItemInv, Progress, Leaving
  <2>3. Conserved'
    BY <2>1 DEF Conserved
  <2>4. InOrder'
    BY <2>1 DEF ItemInv, InOrder, InSequence, Before
  <2> QED  BY <2>2, <2>3, <2>4 DEF ItemInv
<1>6. CASE ShutdownPutsNone
  <2>1. /\ \A f \in Feeder : feeder[f] \in {"joined", "skipped"}
        /\ driver' = "stopping" /\ queue' = Append(queue, None)
        /\ UNCHANGED <<state, feeder, feedVars, consumerVars>>
    BY <1>6 DEF ShutdownPutsNone, QueuePut
  <2>2. queue \in Seq(Element) /\ None \in Element /\ \A y : Precedes(y, None)
    BY DEF IInv, TypeOK, Element, Precedes
  <2>3. Range(queue') = Range(queue) \cup {None} /\ (InSequence(queue) => InSequence(queue'))
    BY <2>1, <2>2, RangeAppend, SequenceAppend
  <2>4. Progress' /\ Leaving'
    BY <2>1 DEF ItemInv, Progress, Leaving
  <2>5. Conserved'
    BY <2>1, <2>3 DEF ItemInv, Conserved
  <2>6. InOrder'
    BY <2>1, <2>2, <2>3 DEF ItemInv, InOrder, Before
  <2> QED  BY <2>4, <2>5, <2>6 DEF ItemInv
<1>7. CASE ShutdownSetsState
  <2>1. /\ driver # "feeding" /\ driver' = "stopped" /\ state' = "stopped"
        /\ UNCHANGED <<queue, unfinished, feeder, feedVars, consumerVars>>
    BY <1>7 DEF ShutdownSetsState
  <2>2. Progress' /\ Leaving'
    BY <2>1 DEF ItemInv, Progress, Leaving
  <2>3. Conserved' /\ InOrder'
    BY <2>1 DEF ItemInv, Conserved, InOrder, InSequence, Before
  <2> QED  BY <2>2, <2>3 DEF ItemInv
<1>8. CASE UNCHANGED vars
  <2>1. Progress' /\ Leaving' /\ Conserved'
    BY <1>8 DEF vars, ItemInv, Progress, Leaving, Conserved
  <2>2. InOrder'
    BY <1>8 DEF vars, ItemInv, InOrder, InSequence, Before
  <2> QED  BY <2>1, <2>2 DEF ItemInv
<1> QED
  BY <1>1, <1>2, <1>3, <1>4, <1>5, <1>6, <1>7, <1>8, PutItemInv, GetItemInv, TakeItemInv,
     TrainStepItemInv DEF Next, Train, Consume, Shutdown

LEMMA ItemInvInvariant == Spec => [](IInv /\ ItemInv)
BY IInvInvariant, InitItemInv, StepItemInv, PTL DEF Spec

\* When the feed has ended and no task has skipped, all partitions are out of the queue.
LEMMA AllTaken ==
    ASSUME IInv, ItemInv, doneFeeding, ~trainingOver
    PROVE  /\ \A f \in Feeder : feeder[f] = "joined" /\ put[f] = size[f]
           /\ Range(queue) \cup Range(hand) \subseteq {None}
<1>1. driver # "feeding"
  BY DEF ItemInv, Progress
<1>2. \A f \in Feeder : feeder[f] = "joined" /\ put[f] = size[f]
  BY <1>1 DEF ItemInv, Progress, Leaving
<1>3. \A x \in Range(queue) \cup Range(hand) : x = None \/ x[1] \in Feeder
  <2>1. Range(queue) \cup Range(hand) \subseteq Item \cup {None}
    <3>1. DOMAIN queue = 1..Len(queue) /\ DOMAIN hand = 1..Len(hand)
      BY LenProperties DEF IInv, TypeOK
    <3> QED  BY <3>1 DEF IInv, TypeOK, Range
  <2> QED  BY <2>1 DEF Item
<1> QED  BY <1>2, <1>3 DEF IInv, JoinMeansTaken

\* A process that leaves because the feed has ended has trained on every item of every
\* partition, whatever tasks were retried, and without retries on each once and in
\* its partition's order.
THEOREM EveryItemIsProcessed == Spec => []EveryItemProcessed
<1>1. ASSUME IInv, ItemInv PROVE EveryItemProcessed
  <2> SUFFICES ASSUME consumer = "exited", ~trainingOver
               PROVE  EveryItemProcessed!2
    BY DEF EveryItemProcessed
  <2>1. doneFeeding /\ batch = <<>>
    BY <1>1 DEF ItemInv, Leaving, Progress
  <2>2. /\ \A f \in Feeder : put[f] = size[f]
        /\ Range(queue) \cup Range(hand) \subseteq {None} /\ Range(batch) = {}
    BY <1>1, <2>1, AllTaken, RangeEmpty
  <2>3. ASSUME NEW f \in Feeder PROVE ItemsOf(f) \subseteq Range(processed)
    <3> SUFFICES ASSUME NEW k \in 1..size[f] PROVE <<f, k>> \in Range(processed)
      BY DEF ItemsOf
    <3>1. <<f, k>> \in Range(queue) \cup Range(hand) \cup Range(batch) \cup Range(processed)
      BY <1>1, <2>2 DEF ItemInv, Conserved
    <3>2. <<f, k>> # None
      <4>1. size[f] \in 0..MaxItems /\ MaxItems \in Nat
        BY <1>1, SizeAssumption DEF IInv, TypeOK
      <4>2. <<f, k>> \in Item
        BY <4>1 DEF Item
      <4> QED  BY <4>2, NoneAssumption
    <3> QED  BY <2>2, <3>1, <3>2
  <2>4. ASSUME retries = 0, NEW i \in DOMAIN processed, NEW j \in DOMAIN processed, i < j,
               processed[i][1] = processed[j][1]
        PROVE  processed[i][2] < processed[j][2]
    <3>1. processed \in Seq(Item) /\ DOMAIN processed = 1..Len(processed)
      BY <1>1, LenProperties DEF IInv, TypeOK
    <3>2. processed[i] \in Item /\ processed[j] \in Item
      BY <3>1
    <3>3. Precedes(processed[i], processed[j])
      BY <1>1, <2>4, <3>1 DEF ItemInv, InOrder, InSequence
    <3> QED  BY <2>4, <3>2, <3>3, NoneAssumption DEF Precedes
  <2> QED  BY <2>3, <2>4
<1> QED  BY <1>1, ItemInvInvariant, PTL

-----------------------------------------------------------------------------
\* After the process has left, nobody puts an item.
LEMMA StepClean ==
    ASSUME ~SlowFeeders
    PROVE  IInv /\ ItemInv /\ Clean /\ [Next]_vars => Clean'
<1> SUFFICES ASSUME IInv, ItemInv, Clean, [Next]_vars, consumer' = "exited"
             PROVE  /\ Range(queue') \subseteq {None}
                    /\ \A f \in Feeder : feeder'[f] # "feeding"
  BY DEF Clean
<1> USE DEF managerVars, feedVars, consumerVars
<1>1. CASE AfterLoop
  <2>1. ~trainingOver /\ doneFeeding
    BY <1>1 DEF AfterLoop, Terminates, ItemInv, Leaving
  <2> QED  BY <1>1, <2>1, AllTaken DEF AfterLoop
<1>2. CASE DrainEmpty
  BY <1>2, RangeEmpty DEF DrainEmpty
<1>3. ASSUME consumer = "exited", NEW f \in Feeder, Train(f) \/ FeederRetried(f)
      PROVE  /\ Range(queue') \subseteq {None}
             /\ \A g \in Feeder : feeder'[g] # "feeding"
  <2>1. feeder \in [Feeder -> {"idle", "feeding", "joining", "joined", "skipped"}]
    BY DEF IInv, TypeOK
  <2>2. feeder[f] # "feeding"
    BY <1>3 DEF Clean
  <2>3. feeder[f] = "idle" => state = "terminating"
    BY <1>3 DEF ItemInv, Leaving, Progress
  <2> QED  BY <1>3, <2>1, <2>2, <2>3
           DEF Train, StartFeeding, PutItem, JoinQueue, FeederRetried, Clean
<1>4. CASE consumer = "exited" /\ ShutdownPutsNone
  <2>1. queue' = Append(queue, None) /\ UNCHANGED feeder
    BY <1>4 DEF ShutdownPutsNone, QueuePut
  <2>2. queue \in Seq(Element) /\ None \in Element
    BY DEF IInv, TypeOK, Element
  <2>3. Range(queue') = Range(queue) \cup {None}
    BY <2>1, <2>2, RangeAppend
  <2> QED  BY <1>4, <2>1, <2>3 DEF Clean
<1>5. CASE consumer = "exited" /\ (ShutdownSetsState \/ TrainingIsOver \/ UNCHANGED vars)
  BY <1>5 DEF ShutdownSetsState, TrainingIsOver, vars, Clean
<1>6. CASE consumer # "exited" /\ ~AfterLoop /\ ~DrainEmpty
  BY <1>6 DEF Next, Train, StartFeeding, PutItem, JoinQueue, FeederRetried, Consume, LoopTest, NextItem,
       TakeItem, TrainStep, DrainGet, DrainDone, Shutdown, ShutdownPutsNone, ShutdownSetsState,
       TrainingIsOver, ConsumerDies, vars
<1>7. CASE consumer = "exited" /\ (Consume \/ ConsumerDies)
  BY <1>7 DEF Consume, LoopTest, NextItem, TakeItem, TrainStep, AfterLoop, DrainGet, DrainDone,
       DrainEmpty, ConsumerDies
<1> QED  BY <1>1, <1>2, <1>3, <1>4, <1>5, <1>6, <1>7 DEF Next, Shutdown

\* If no feeding task pauses for as long as terminate() waits for the next item, the
\* process leaves nothing but the end mark in its queue, and nothing else comes later,
\* whatever tasks start or are retried then.
THEOREM NothingIsLeftBehind == ASSUME ~SlowFeeders PROVE Spec => []NothingLeftBehind
<1>1. Init => Clean
  BY DEF Init, Clean
<1>2. IInv /\ ItemInv /\ Clean /\ [Next]_vars => Clean'
  BY StepClean
<1>3. Clean => NothingLeftBehind
  BY DEF Clean, NothingLeftBehind
<1> QED  BY <1>1, <1>2, <1>3, ItemInvInvariant, PTL DEF Spec

-----------------------------------------------------------------------------
(***************************************************************************)
(* Inference.  The tasks, their partitions and the process have the same   *)
(* constants and variables as in training.                                 *)
(***************************************************************************)
CONSTANT EndPartition
VARIABLES input, output, results, fed, read, alone

Inference == INSTANCE InferenceFeed

Mark == {None, EndPartition}

\* Where the items of s are, and how many places of S there are up to i.
At(s) == {i \in 1..Len(s) : s[i] \in Item}
Rank(S, i) == Cardinality({j \in S : j <= i})

\* Places are ranked from 1 on, without gaps.
LEMMA RankFacts ==
    ASSUME NEW n \in Nat, NEW S \in SUBSET (1..n)
    PROVE  /\ IsFiniteSet(S) /\ Cardinality(S) \in Nat
           /\ \A i \in S : Rank(S, i) \in 1..Cardinality(S)
           /\ \A i, j \in S : i < j => Rank(S, i) < Rank(S, j)
           /\ \A k \in 1..Cardinality(S) : \E i \in S : Rank(S, i) = k
<1>1. IsFiniteSet(S) /\ Cardinality(S) \in Nat
  <2>1. IsFiniteSet(1..n)
    BY FS_Interval
  <2> QED  BY <2>1, FS_Subset, FS_CardinalityType
<1> DEFINE Upto(i) == {j \in S : j <= i}
           m == Cardinality(S)
<1>2. ASSUME NEW i \in S PROVE Rank(S, i) \in 1..m
  <2>1. Upto(i) \subseteq S /\ i \in Upto(i)
    OBVIOUS
  <2>2. IsFiniteSet(Upto(i)) /\ Cardinality(Upto(i)) \in Nat /\ Cardinality(Upto(i)) <= m
    BY <1>1, <2>1, FS_Subset, FS_CardinalityType
  <2>3. Cardinality(Upto(i)) # 0
    BY <2>1, <2>2, FS_EmptySet
  <2> QED  BY <1>1, <2>2, <2>3 DEF Rank
<1>3. ASSUME NEW i \in S, NEW j \in S, i < j PROVE Rank(S, i) < Rank(S, j)
  <2>0. i \in Nat /\ j \in Nat /\ \A k \in S : k \in Nat
    OBVIOUS
  <2>1. Upto(i) \subseteq Upto(j) /\ j \in Upto(j) /\ j \notin Upto(i) /\ Upto(j) \subseteq S
    <3>1. \A k \in S : k <= i => k <= j
      BY <1>3, <2>0
    <3>2. j \in S /\ j <= j /\ ~(j <= i)
      BY <1>3, <2>0
    <3> QED  BY <3>1, <3>2, Zenon
  <2>2. IsFiniteSet(Upto(j)) /\ IsFiniteSet(Upto(i))
    BY <1>1, <2>1, FS_Subset
  <2>3. Upto(i) # Upto(j)
    BY <2>1
  <2>4. Cardinality(Upto(i)) <= Cardinality(Upto(j)) /\ Cardinality(Upto(i)) # Cardinality(Upto(j))
    BY <2>1, <2>2, <2>3, FS_Subset
  <2>5. Cardinality(Upto(i)) \in Nat /\ Cardinality(Upto(j)) \in Nat
    BY <2>2, FS_CardinalityType
  <2> QED  BY <2>4, <2>5 DEF Rank
<1>4. \A k \in 1..m : \E i \in S : Rank(S, i) = k
  <2> DEFINE r == [i \in S |-> Rank(S, i)]
  <2>1. r \in [S -> 1..m]
    BY <1>2
  <2>2. ASSUME NEW i \in S, NEW j \in S, i # j PROVE r[i] # r[j]
    <3>1. (i < j \/ j < i) /\ Rank(S, i) \in 1..m /\ Rank(S, j) \in 1..m
      BY <1>2, <2>2
    <3>2. Rank(S, i) < Rank(S, j) \/ Rank(S, j) < Rank(S, i)
      BY <1>3, <3>1
    <3> QED  BY <1>1, <3>1, <3>2
  <2>3. r \in Injection(S, 1..m)
    BY <2>1, <2>2 DEF Injection, IsInjective
  <2>4. Cardinality(1..m) = m /\ IsFiniteSet(1..m)
    BY <1>1, FS_Interval
  <2>5. r \in Surjection(S, 1..m)
    BY <1>1, <2>3, <2>4, FS_Injection
  <2> QED  BY <2>5 DEF Surjection
<1> QED  BY <1>1, <1>2, <1>3, <1>4

\* Both feeds have the same items.
LEMMA ItemSame == Inference!Item = Item
BY DEF Inference!Item, Item

\* Items(s) is the sequence that has each item of s at its rank.
LEMMA ItemsAre ==
    ASSUME NEW s \in Seq(Item \cup Mark)
    PROVE  /\ IsFiniteSet(At(s)) /\ Cardinality(At(s)) \in Nat
           /\ Inference!Items(s) \in Seq(Item)
           /\ Len(Inference!Items(s)) = Cardinality(At(s))
           /\ \A t \in Seq(Item) :
                 Len(t) = Cardinality(At(s)) /\ (\A i \in At(s) : t[Rank(At(s), i)] = s[i])
                    => t = Inference!Items(s)
           /\ \A i \in At(s) : /\ Rank(At(s), i) \in 1..Cardinality(At(s))
                               /\ Inference!Items(s)[Rank(At(s), i)] = s[i]
<1>0. PICK S : S = At(s)
  OBVIOUS
<1>1. Len(s) \in Nat /\ DOMAIN s = 1..Len(s) /\ S \in SUBSET (1..Len(s)) /\ \A i \in S : s[i] \in Item
  BY <1>0, LenProperties DEF At
<1>2. /\ IsFiniteSet(S) /\ Cardinality(S) \in Nat
      /\ \A i \in S : Rank(S, i) \in 1..Cardinality(S)
      /\ \A i, j \in S : i < j => Rank(S, i) < Rank(S, j)
      /\ \A k \in 1..Cardinality(S) : \E i \in S : Rank(S, i) = k
  BY <1>1, RankFacts
<1>3. PICK m \in Nat : m = Cardinality(S)
  BY <1>2
<1>4. \A i, j \in S : Rank(S, i) = Rank(S, j) => i = j
  <2> SUFFICES ASSUME NEW i \in S, NEW j \in S, i # j PROVE Rank(S, i) # Rank(S, j)
    OBVIOUS
  <2>1. (i < j \/ j < i) /\ Rank(S, i) \in 1..m /\ Rank(S, j) \in 1..m
    BY <1>1, <1>2, <1>3
  <2> QED  BY <1>2, <2>1
<1>5. PICK c : c = [k \in 1..m |-> CHOOSE i \in S : Rank(S, i) = k]
  OBVIOUS
<1>6. \A k \in 1..m : c[k] \in S /\ Rank(S, c[k]) = k
  BY <1>2, <1>3, <1>5
<1>7. Inference!Items(s) = [k \in 1..m |-> s[c[k]]]
  <2>1. {i \in DOMAIN s : s[i] \in Inference!Item} = S
    BY <1>0, <1>1, ItemSame DEF At
  <2> DEFINE T == {i \in DOMAIN s : s[i] \in Inference!Item}
  <2>2. Inference!Items(s) = [k \in 1..Cardinality(T) |->
                                s[CHOOSE i \in T : Cardinality({j \in T : j <= i}) = k]]
    BY Zenon DEF Inference!Items, Inference!Cardinality, Cardinality, Inference!IsFiniteSet,
                 IsFiniteSet
  <2>3. T = S
    BY <2>1
  <2> HIDE DEF T
  <2>4. Inference!Items(s) = [k \in 1..m |->
                                s[CHOOSE i \in S : Cardinality({j \in S : j <= i}) = k]]
    BY <1>3, <2>2, <2>3, SMTT(30)
  <2>5. c = [k \in 1..m |-> CHOOSE i \in S : Cardinality({j \in S : j <= i}) = k]
    BY <1>5, Zenon DEF Rank
  <2> QED  BY <2>4, <2>5, Zenon
<1>8. PICK u : u = Inference!Items(s)
  OBVIOUS
<1>9. u \in Seq(Item) /\ Len(u) = m /\ \A k \in 1..m : u[k] = s[c[k]]
  <2>1. \A k \in 1..m : s[c[k]] \in Item
    BY <1>1, <1>6
  <2>2. u = [k \in 1..m |-> s[c[k]]]
    BY <1>7, <1>8
  <2> QED  BY <1>3, <2>1, <2>2
<1>10. \A i \in S : Rank(S, i) \in 1..m /\ u[Rank(S, i)] = s[i]
  BY <1>2, <1>3, <1>4, <1>6, <1>9
<1>11. ASSUME NEW t \in Seq(Item), Len(t) = m, \A i \in S : t[Rank(S, i)] = s[i]
       PROVE  t = u
  <2>1. \A k \in 1..m : t[k] = u[k]
    BY <1>6, <1>9, <1>11
  <2> QED  BY <1>9, <1>11, <2>1, SeqEqual
<1> QED  BY <1>0, <1>2, <1>3, <1>8, <1>9, <1>10, <1>11

\* An item at the end of a sequence is the last of its items.
LEMMA ItemsAppend ==
    ASSUME NEW s \in Seq(Item \cup Mark), NEW x \in Item \cup Mark
    PROVE  Inference!Items(Append(s, x)) =
             IF x \in Item THEN Append(Inference!Items(s), x) ELSE Inference!Items(s)
<1> PICK w : w = Append(s, x)
  OBVIOUS
<1> PICK u : u = Inference!Items(s)
  OBVIOUS
<1> PICK n : n = Len(s)
  OBVIOUS
<1> PICK S : S = At(s)
  OBVIOUS
<1> PICK m : m = Cardinality(S)
  OBVIOUS
<1>1. /\ n \in Nat /\ w \in Seq(Item \cup Mark) /\ Len(w) = n + 1
      /\ \A i \in 1..n : w[i] = s[i]
      /\ w[n + 1] = x
  BY LenProperties, AppendProperties
<1>2. /\ IsFiniteSet(S) /\ m \in Nat /\ u \in Seq(Item) /\ Len(u) = m
      /\ \A i \in S : Rank(S, i) \in 1..m /\ u[Rank(S, i)] = s[i]
  BY ItemsAre
<1>3. S \subseteq 1..n /\ At(w) = IF x \in Item THEN S \cup {n + 1} ELSE S
  BY <1>1 DEF At
<1>4. /\ IsFiniteSet(At(w)) /\ Cardinality(At(w)) \in Nat
      /\ \A t \in Seq(Item) :
            Len(t) = Cardinality(At(w)) /\ (\A i \in At(w) : t[Rank(At(w), i)] = w[i])
               => t = Inference!Items(w)
  BY <1>1, ItemsAre
<1>5. CASE x \notin Item
  <2>1. \A i \in S : u[Rank(S, i)] = w[i]
    BY <1>1, <1>2, <1>3
  <2>2. At(w) = S
    BY <1>3, <1>5
  <2>3. Len(u) = Cardinality(At(w)) /\ \A i \in At(w) : u[Rank(At(w), i)] = w[i]
    BY <1>2, <2>1, <2>2
  <2>4. u = Inference!Items(w)
    BY <1>2, <1>4, <2>3, Zenon
  <2> QED  BY <1>5, <2>4
<1>6. CASE x \in Item
  <2> PICK W : W = At(w)
    OBVIOUS
  <2>1. W = S \cup {n + 1} /\ n + 1 \notin S /\ \A i \in S : i \in Nat /\ i <= n
    BY <1>1, <1>3, <1>6
  <2>2. Cardinality(W) = m + 1
    <3>1. Cardinality(S \cup {n + 1}) = Cardinality(S) + 1
      BY <1>2, <2>1, FS_AddElement
    <3> QED  BY <2>1, <3>1
  <2>3. \A i \in S : Rank(W, i) = Rank(S, i)
    <3> SUFFICES ASSUME NEW i \in S PROVE Rank(W, i) = Rank(S, i)
      OBVIOUS
    <3>1. i \in Nat /\ i <= n /\ ~(n + 1 <= i)
      BY <1>1, <2>1
    <3>2. {j \in W : j <= i} = {j \in S : j <= i}
      BY <2>1, <3>1
    <3> QED  BY <3>2 DEF Rank
  <2>4. Rank(W, n + 1) = m + 1
    <3>1. \A j \in W : j <= n + 1
      BY <1>1, <2>1
    <3>2. {j \in W : j <= n + 1} = W
      BY <3>1
    <3> QED  BY <2>2, <3>2 DEF Rank
  <2> PICK t : t = Append(u, x)
    OBVIOUS
  <2>5. t \in Seq(Item) /\ Len(t) = m + 1 /\ (\A k \in 1..m : t[k] = u[k]) /\ t[m + 1] = x
    BY <1>2, <1>6, AppendProperties
  <2>6. \A i \in W : t[Rank(W, i)] = w[i]
    BY <1>1, <1>2, <1>3, <2>1, <2>3, <2>4, <2>5
  <2>7. t \in Seq(Item) /\ Len(t) = Cardinality(At(w)) /\ \A i \in At(w) : t[Rank(At(w), i)] = w[i]
    BY <2>2, <2>5, <2>6
  <2>8. t = Inference!Items(w)
    BY <1>4, <2>7, Zenon
  <2> QED  BY <1>6, <2>8
<1> QED  BY <1>5, <1>6

\* An item at the head of a sequence is the first of its items.
LEMMA ItemsCons ==
    ASSUME NEW s \in Seq(Item \cup Mark), NEW x \in Item \cup Mark
    PROVE  Inference!Items(<<x>> \o s) =
             IF x \in Item THEN <<x>> \o Inference!Items(s) ELSE Inference!Items(s)
<1> PICK w : w = <<x>> \o s
  OBVIOUS
<1> PICK u : u = Inference!Items(s)
  OBVIOUS
<1> PICK n : n = Len(s)
  OBVIOUS
<1> PICK S : S = At(s)
  OBVIOUS
<1> PICK m : m = Cardinality(S)
  OBVIOUS
<1>1. /\ n \in Nat /\ w \in Seq(Item \cup Mark) /\ Len(w) = n + 1
      /\ \A i \in 1..n : w[i + 1] = s[i]
      /\ w[1] = x
  <2>1. <<x>> \in Seq(Item \cup Mark) /\ Len(<<x>>) = 1 /\ <<x>>[1] = x
    OBVIOUS
  <2>2. n \in Nat
    BY LenProperties
  <2> QED  BY <2>1, <2>2, ConcatProperties
<1>2. /\ IsFiniteSet(S) /\ m \in Nat /\ u \in Seq(Item) /\ Len(u) = m
      /\ \A i \in S : Rank(S, i) \in 1..m /\ u[Rank(S, i)] = s[i]
  BY ItemsAre
<1> PICK W : W = At(w)
  OBVIOUS
<1>3. /\ S \subseteq 1..n /\ W \subseteq 1..(n + 1)
      /\ \A i \in 1..n : i + 1 \in W <=> i \in S
      /\ 1 \in W <=> x \in Item
  BY <1>1 DEF At
<1>4. /\ IsFiniteSet(W) /\ Cardinality(W) \in Nat
      /\ \A t \in Seq(Item) :
            Len(t) = Cardinality(W) /\ (\A i \in W : t[Rank(W, i)] = w[i])
               => t = Inference!Items(w)
  BY <1>1, ItemsAre
<1> PICK e : e = IF x \in Item THEN 1 ELSE 0
  OBVIOUS
<1>5. ASSUME NEW i \in 0..n
      PROVE  Cardinality({j \in W : j <= i + 1}) = Cardinality({j \in S : j <= i}) + e
  <2> DEFINE A == {j \in S : j <= i}
             B == {j \in W : j <= i + 1 /\ j # 1}
             C == {j \in W : j <= i + 1}
             sh == [j \in A |-> j + 1]
  <2>1. IsFiniteSet(A) /\ IsFiniteSet(B) /\ Cardinality(A) \in Nat /\ Cardinality(B) \in Nat
    <3>1. A \subseteq S /\ B \subseteq W
      OBVIOUS
    <3> QED  BY <1>2, <1>4, <3>1, FS_Subset, FS_CardinalityType
  <2>2. Cardinality(A) = Cardinality(B)
    <3>1. \A j \in A : j \in 1..n /\ j + 1 \in B
      BY <1>1, <1>3, <1>5
    <3>2. \A j \in B : j - 1 \in A /\ sh[j - 1] = j
      <4> SUFFICES ASSUME NEW j \in B PROVE j - 1 \in A /\ sh[j - 1] = j
        OBVIOUS
      <4>1. j \in 1..(n + 1) /\ j # 1 /\ j <= i + 1 /\ j \in W
        BY <1>3
      <4>2. j - 1 \in 1..n /\ (j - 1) + 1 = j /\ j - 1 <= i
        BY <1>1, <4>1
      <4>3. j - 1 \in S
        BY <1>3, <4>1, <4>2
      <4> QED  BY <4>2, <4>3
    <3>3. sh \in Bijection(A, B)
      <4>1. sh \in [A -> B]
        BY <3>1
      <4>2. \A j, k \in A : sh[j] = sh[k] => j = k
        BY <3>1
      <4>3. \A k \in B : \E j \in A : sh[j] = k
        BY <3>2
      <4> HIDE DEF sh, A, B
      <4> QED  BY <4>1, <4>2, <4>3 DEF Bijection, Injection, Surjection, IsInjective
    <3> HIDE DEF sh, A, B
    <3> QED  BY <2>1, <3>3, FS_Bijection DEF ExistsBijection
  <2>3. CASE x \in Item
    <3>1. C = B \cup {1} /\ 1 \notin B
      BY <1>3, <1>5, <2>3
    <3>2. Cardinality(C) = Cardinality(B) + 1
      BY <2>1, <3>1, FS_AddElement
    <3> QED  BY <2>2, <2>3, <3>2
  <2>4. CASE x \notin Item
    <3>1. C = B
      BY <1>3, <2>4
    <3>2. Cardinality(C) = Cardinality(A) /\ e = 0
      BY <2>2, <2>4, <3>1, Zenon
    <3>3. PICK a \in Nat : a = Cardinality(A)
      BY <2>1, Zenon
    <3> HIDE DEF A, C
    <3>4. Cardinality(C) = Cardinality(A) + e
      BY <3>2, <3>3
    <3> QED  BY <3>4, Zenon DEF A, C
  <2> QED  BY <2>3, <2>4
<1>6. \A i \in S : Rank(W, i + 1) = Rank(S, i) + e
  <2> SUFFICES ASSUME NEW i \in S PROVE Rank(W, i + 1) = Rank(S, i) + e
    OBVIOUS
  <2>1. i \in 0..n
    BY <1>1, <1>3
  <2> QED  BY <1>5, <2>1 DEF Rank
<1>7. Cardinality(W) = m + e
  <2>1. n \in 0..n /\ {j \in W : j <= n + 1} = W /\ {j \in S : j <= n} = S
    BY <1>1, <1>3
  <2> QED  BY <1>5, <2>1
<1>8. x \in Item => Rank(W, 1) = 1
  <2> SUFFICES ASSUME x \in Item PROVE Rank(W, 1) = 1
    OBVIOUS
  <2>1. {j \in W : j <= 1} = {1}
    BY <1>1, <1>3
  <2> QED  BY <2>1, FS_Singleton DEF Rank
<1>9. \A i \in W : (i = 1 /\ x \in Item) \/ (i - 1 \in S /\ (i - 1) + 1 = i)
  <2> SUFFICES ASSUME NEW i \in W, i # 1 PROVE i - 1 \in S /\ (i - 1) + 1 = i
    BY <1>3
  <2>1. i \in 1..(n + 1)
    BY <1>3
  <2>2. i - 1 \in 1..n /\ (i - 1) + 1 = i
    BY <1>1, <2>1
  <2> QED  BY <1>3, <2>2
<1> PICK t : t = IF x \in Item THEN <<x>> \o u ELSE u
  OBVIOUS
<1>10. t \in Seq(Item) /\ Len(t) = m + e /\ (\A k \in 1..m : t[k + e] = u[k]) /\ (x \in Item => t[1] = x)
  <2>1. CASE x \in Item
    <3>1. <<x>> \in Seq(Item) /\ Len(<<x>>) = 1 /\ <<x>>[1] = x
      BY <2>1
    <3>2. t \in Seq(Item) /\ Len(t) = 1 + m /\ \A k \in 1..(1 + m) : t[k] = IF k <= 1 THEN <<x>>[k] ELSE u[k - 1]
      BY <1>2, <2>1, <3>1, ConcatProperties
    <3> QED  BY <1>2, <2>1, <3>1, <3>2
  <2>2. CASE x \notin Item
    BY <1>2, <2>2
  <2> QED  BY <2>1, <2>2
<1>11. \A i \in W : t[Rank(W, i)] = w[i]
  <2> SUFFICES ASSUME NEW i \in W PROVE t[Rank(W, i)] = w[i]
    OBVIOUS
  <2>1. CASE i = 1 /\ x \in Item
    BY <1>1, <1>8, <1>10, <2>1
  <2>2. CASE i - 1 \in S /\ (i - 1) + 1 = i
    <3> PICK k : k = i - 1
      OBVIOUS
    <3>1. k \in S /\ k + 1 = i /\ k \in 1..n
      BY <1>3, <2>2
    <3>2. Rank(W, i) = Rank(S, k) + e /\ Rank(S, k) \in 1..m /\ u[Rank(S, k)] = s[k] /\ w[i] = s[k]
      BY <1>1, <1>2, <1>6, <3>1
    <3> QED  BY <1>10, <3>2
  <2> QED  BY <1>9, <2>1, <2>2
<1>12. t \in Seq(Item) /\ Len(t) = Cardinality(W)
  BY <1>7, <1>10
<1>13. t = Inference!Items(w)
  BY <1>4, <1>11, <1>12, Zenon
<1> QED  BY <1>13

\* A sequence without elements has no items.
LEMMA ItemsNone == Inference!Items(<< >>) = << >>
<1>1. << >> \in Seq(Item \cup Mark) /\ At(<< >>) = {}
  BY DEF At
<1>2. Cardinality({}) = 0
  BY FS_EmptySet
<1>3. Len(<< >>) = 0 /\ << >> \in Seq(Item)
  OBVIOUS
<1> QED  BY <1>1, <1>2, <1>3, ItemsAre

-----------------------------------------------------------------------------
\* What has been put and not been read: it is in the queues or with the process.
InFlight == output \o batch \o Inference!Items(hand \o input)

\* The unfinished tasks of the input queue are the elements in it and in hand.
InputAccounted ==
    /\ Len(hand) <= 1
    /\ unfinished = Len(input) + Len(hand)

\* The first n items of f's partition.
FirstItems(f, n) == [k \in 1..n |-> <<f, k>>]

\* While tasks run one at a time and none fails, everything on its way belongs
\* to the running task, and what it has read are its items before those.
OnlyOwnInFlight ==
    /\ \A f, g \in Inference!ActiveFeeders : f = g
    /\ Inference!ActiveFeeders = {} => InFlight = << >>
    /\ \A f \in Feeder :
          /\ feeder[f] = "idle" => put[f] = 0 /\ results[f] = << >>
          /\ feeder[f] = "feeding" => results[f] = << >>
          /\ feeder[f] \in {"joining", "reading"} => put[f] = size[f]
          /\ feeder[f] \in {"feeding", "joining", "reading"} =>
                results[f] \o InFlight = FirstItems(f, put[f])
          /\ feeder[f] = "returned" => results[f] = FirstItems(f, size[f])

\* The inductive invariants.
InferenceIInv == Inference!TypeOK /\ InputAccounted
AloneInv == alone => OnlyOwnInFlight

FlowVars == <<output, batch, hand, input>>

\* What is on its way are items.
LEMMA FlightFacts ==
    ASSUME Inference!TypeOK
    PROVE  /\ output \in Seq(Item) /\ batch \in Seq(Item)
           /\ hand \in Seq(Item \cup Mark) /\ input \in Seq(Item \cup Mark)
           /\ hand \o input \in Seq(Item \cup Mark)
           /\ Inference!Items(hand \o input) \in Seq(Item)
           /\ InFlight \in Seq(Item)
<1>1. /\ output \in Seq(Item) /\ batch \in Seq(Item)
      /\ hand \in Seq(Item \cup Mark) /\ input \in Seq(Item \cup Mark)
  BY ItemSame DEF Inference!TypeOK, Mark
<1>2. hand \o input \in Seq(Item \cup Mark)
  BY <1>1, ConcatProperties
<1>3. Inference!Items(hand \o input) \in Seq(Item)
  BY <1>2, ItemsAre
<1>4. output \o batch \in Seq(Item)
  BY <1>1, ConcatProperties
<1> QED  BY <1>1, <1>2, <1>3, <1>4, ConcatProperties DEF InFlight

\* A put into the input queue.
LEMMA InputPutEffect ==
    ASSUME Inference!TypeOK, InputAccounted, NEW x \in Item \cup Mark, Inference!InputPut(x),
           UNCHANGED <<output, batch, hand>>
    PROVE  /\ input' \in Seq(Item \cup Mark) /\ unfinished' \in Nat /\ InputAccounted'
           /\ InFlight' = IF x \in Item THEN Append(InFlight, x) ELSE InFlight
<1>1. /\ output \in Seq(Item) /\ batch \in Seq(Item)
      /\ hand \in Seq(Item \cup Mark) /\ input \in Seq(Item \cup Mark)
      /\ hand \o input \in Seq(Item \cup Mark)
      /\ Inference!Items(hand \o input) \in Seq(Item)
  BY FlightFacts
<1>2. input' = Append(input, x) /\ unfinished' = unfinished + 1 /\ output' = output /\ batch' = batch
      /\ hand' = hand
  BY DEF Inference!InputPut
<1>3. input' \in Seq(Item \cup Mark) /\ Len(input') = Len(input) + 1 /\ Len(input) \in Nat
      /\ Len(hand) \in Nat
  BY <1>1, <1>2, AppendProperties, LenProperties
<1>4. unfinished' \in Nat /\ InputAccounted'
  BY <1>2, <1>3 DEF InputAccounted
<1>5. hand' \o input' = Append(hand \o input, x)
  <2>1. <<x>> \in Seq(Item \cup Mark)
    OBVIOUS
  <2>2. input' = input \o <<x>> /\ Append(hand \o input, x) = (hand \o input) \o <<x>>
    BY <1>1, <1>2, AppendIsConcat
  <2> QED  BY <1>1, <1>2, <2>1, <2>2, ConcatAssociative, SMTT(30)
<1>6. CASE x \notin Item
  <2>1. Inference!Items(hand' \o input') = Inference!Items(hand \o input)
    BY <1>1, <1>5, <1>6, ItemsAppend
  <2> QED  BY <1>2, <1>3, <1>4, <1>6, <2>1 DEF InFlight
<1>7. CASE x \in Item
  <2> PICK u : u = Inference!Items(hand \o input)
    OBVIOUS
  <2> PICK v : v = output \o batch
    OBVIOUS
  <2>1. Inference!Items(hand' \o input') = Append(u, x)
    BY <1>1, <1>5, <1>7, ItemsAppend
  <2>2. u \in Seq(Item) /\ v \in Seq(Item) /\ v \o u \in Seq(Item) /\ <<x>> \in Seq(Item)
    BY <1>1, <1>7, ConcatProperties
  <2>3. v \o Append(u, x) = Append(v \o u, x)
    <3>1. Append(u, x) = u \o <<x>> /\ Append(v \o u, x) = (v \o u) \o <<x>>
      BY <1>7, <2>2, AppendIsConcat
    <3> QED  BY <2>2, <3>1, ConcatAssociative
  <2>4. InFlight = v \o u /\ InFlight' = v \o Append(u, x)
    BY <1>2, <2>1 DEF InFlight
  <2> QED  BY <1>3, <1>4, <1>7, <2>3, <2>4
<1> QED  BY <1>3, <1>4, <1>6, <1>7

\* A sequence is its head followed by its tail.
LEMMA HeadThenTail ==
    ASSUME NEW S, NEW s \in Seq(S), s # << >>
    PROVE  s = <<Head(s)>> \o Tail(s) /\ <<Head(s)>> \in Seq(S) /\ Tail(s) \in Seq(S)
<1>1. /\ Head(s) \in S /\ Head(s) = s[1] /\ Len(s) \in Nat
      /\ Tail(s) \in Seq(S) /\ Len(Tail(s)) = Len(s) - 1
      /\ \A i \in 1..Len(Tail(s)) : Tail(s)[i] = s[i + 1]
  BY HeadTailProperties, LenProperties
<1> PICK h : h = <<Head(s)>>
  OBVIOUS
<1> PICK t : t = Tail(s)
  OBVIOUS
<1>2. h \in Seq(S) /\ Len(h) = 1 /\ h[1] = s[1] /\ t \in Seq(S) /\ Len(t) = Len(s) - 1
  BY <1>1
<1> PICK w : w = h \o t
  OBVIOUS
<1>3. /\ w \in Seq(S) /\ Len(w) = Len(s)
      /\ \A i \in 1..Len(s) : w[i] = IF i <= 1 THEN h[i] ELSE t[i - 1]
  BY <1>1, <1>2, ConcatProperties
<1>4. \A i \in 1..Len(s) : w[i] = s[i]
  <2> SUFFICES ASSUME NEW i \in 1..Len(s) PROVE w[i] = s[i]
    OBVIOUS
  <2>1. CASE i = 1
    BY <1>2, <1>3, <2>1
  <2>2. CASE i # 1
    <3>1. i - 1 \in 1..Len(t) /\ (i - 1) + 1 = i /\ ~(i <= 1)
      BY <1>1, <1>2, <2>2
    <3> QED  BY <1>1, <1>3, <3>1
  <2> QED  BY <2>1, <2>2
<1> QED  BY <1>1, <1>2, <1>3, <1>4, SeqEqual

\* The get of an element moves it into the hand of the process.
LEMMA NextItemEffect ==
    ASSUME Inference!TypeOK, InputAccounted, Inference!NextItem
    PROVE  /\ input' \in Seq(Item \cup Mark) /\ hand' \in Seq(Item \cup Mark)
           /\ InputAccounted' /\ InFlight' = InFlight
<1>1. hand \in Seq(Item \cup Mark) /\ input \in Seq(Item \cup Mark)
  BY FlightFacts
<1>2. /\ hand = << >> /\ input # << >> /\ hand' = <<Head(input)>> /\ input' = Tail(input)
      /\ output' = output /\ batch' = batch /\ unfinished' = unfinished
  BY DEF Inference!NextItem
<1>3. /\ Head(input) \in Item \cup Mark /\ Head(input) = input[1]
      /\ input' \in Seq(Item \cup Mark) /\ Len(input') = Len(input) - 1
      /\ \A i \in 1..Len(input') : input'[i] = input[i + 1]
      /\ Len(input) \in Nat
  BY <1>1, <1>2, HeadTailProperties, LenProperties
<1>4. hand' \in Seq(Item \cup Mark) /\ Len(hand') = 1 /\ hand'[1] = input[1] /\ Len(hand) = 0
  BY <1>2, <1>3
<1>5. InputAccounted'
  BY <1>2, <1>3, <1>4 DEF InputAccounted
<1>6. hand' \o input' = hand \o input
  <2>1. hand \o input = input
    BY <1>1, <1>2, ConcatEmptySeq
  <2> QED  BY <1>1, <1>2, <2>1, HeadThenTail
<1> QED  BY <1>2, <1>3, <1>4, <1>5, <1>6 DEF InFlight

\* What is in hand goes into the batch, unless it is a mark.
LEMMA TakeItemEffect ==
    ASSUME Inference!TypeOK, InputAccounted, Inference!TakeItem
    PROVE  /\ hand' \in Seq(Item \cup Mark) /\ batch' \in Seq(Item) /\ unfinished' \in Nat
           /\ InputAccounted' /\ InFlight' = InFlight
<1>1. /\ output \in Seq(Item) /\ batch \in Seq(Item)
      /\ hand \in Seq(Item \cup Mark) /\ input \in Seq(Item \cup Mark)
  BY FlightFacts
<1> PICK x : x = hand[1]
  OBVIOUS
<1>2. /\ hand # << >> /\ hand' = << >> /\ input' = input /\ output' = output
      /\ unfinished' = unfinished - 1
      /\ batch' = IF x \in Item THEN Append(batch, x) ELSE batch
  BY ItemSame DEF Inference!TakeItem, Inference!TaskDone, Inference!BatchWith
<1>3. Len(hand) = 1 /\ x \in Item \cup Mark /\ hand = <<x>> /\ Len(input) \in Nat
  <2>1. Len(hand) = 1
    <3>1. Len(hand) \in Nat \ {0}
      BY <1>1, <1>2, EmptySeq
    <3>2. PICK l : l = Len(hand)
      OBVIOUS
    <3>3. l <= 1 /\ l \in Nat \ {0}
      BY <3>1, <3>2 DEF InputAccounted
    <3>4. l = 1
      BY <3>3
    <3> QED  BY <3>2, <3>4
  <2> QED  BY <1>1, <2>1, LenProperties
<1>4. hand' \in Seq(Item \cup Mark) /\ unfinished' \in Nat /\ InputAccounted' /\ Len(hand') = 0
  BY <1>2, <1>3 DEF InputAccounted
<1>5. batch' \in Seq(Item)
  BY <1>1, <1>2, AppendProperties
<1>6. hand' \o input' = input
  BY <1>1, <1>2, ConcatEmptySeq
<1> PICK u : u = Inference!Items(input)
  OBVIOUS
<1>7. u \in Seq(Item)
  BY <1>1, ItemsAre
<1>8. Inference!Items(hand \o input) = IF x \in Item THEN <<x>> \o u ELSE u
  BY <1>1, <1>3, ItemsCons
<1>9. InFlight' = output \o batch' \o u
  BY <1>2, <1>6 DEF InFlight
<1>10. CASE x \in Item
  <2>1. <<x>> \in Seq(Item) /\ output \o batch \in Seq(Item)
    BY <1>1, <1>10, ConcatProperties
  <2>2. output \o batch' = (output \o batch) \o <<x>>
    <3>1. batch' = batch \o <<x>>
      BY <1>1, <1>2, <1>10, AppendIsConcat
    <3> QED  BY <1>1, <2>1, <3>1, ConcatAssociative
  <2>3. ((output \o batch) \o <<x>>) \o u = (output \o batch) \o (<<x>> \o u)
    BY <1>7, <2>1, ConcatAssociative
  <2>4. InFlight = (output \o batch) \o (<<x>> \o u)
    BY <1>8, <1>10 DEF InFlight
  <2>5. InFlight' = InFlight
    BY <1>9, <2>2, <2>3, <2>4
  <2> QED  BY <1>4, <1>5, <2>5
<1>11. CASE x \notin Item
  BY <1>2, <1>4, <1>5, <1>8, <1>9, <1>11 DEF InFlight
<1> QED  BY <1>10, <1>11

\* A result goes from the batch into the output queue.
LEMMA PutResultEffect ==
    ASSUME Inference!TypeOK, InputAccounted, Inference!PutResult
    PROVE  output' \in Seq(Item) /\ batch' \in Seq(Item) /\ InputAccounted' /\ InFlight' = InFlight
<1>1. /\ output \in Seq(Item) /\ batch \in Seq(Item)
  BY FlightFacts
<1>2. /\ hand' = hand /\ input' = input /\ unfinished' = unfinished
      /\ output' = IF batch = << >> THEN output ELSE Append(output, Head(batch))
      /\ batch' = IF batch = << >> THEN batch ELSE Tail(batch)
  BY DEF Inference!PutResult, Inference!NextResult
<1>3. InputAccounted'
  BY <1>2 DEF InputAccounted
<1>4. CASE batch = << >>
  BY <1>1, <1>2, <1>3, <1>4 DEF InFlight
<1>5. CASE batch # << >>
  <2> PICK x : x = Head(batch)
    OBVIOUS
  <2>1. batch = <<x>> \o batch' /\ <<x>> \in Seq(Item) /\ batch' \in Seq(Item) /\ x \in Item
    BY <1>1, <1>2, <1>5, HeadThenTail, HeadTailProperties
  <2>2. output' = output \o <<x>> /\ output' \in Seq(Item)
    BY <1>1, <1>2, <1>5, <2>1, AppendIsConcat, AppendProperties
  <2>3. output' \o batch' = output \o batch
    BY <1>1, <2>1, <2>2, ConcatAssociative
  <2> QED  BY <1>2, <1>3, <2>1, <2>2, <2>3 DEF InFlight
<1> QED  BY <1>4, <1>5

\* A read takes the first of what is on its way.
LEMMA ReadResultEffect ==
    ASSUME Inference!TypeOK, InputAccounted, NEW f \in Feeder, Inference!ReadResult(f)
    PROVE  /\ output' \in Seq(Item) /\ Head(output) \in Item /\ InputAccounted'
           /\ InFlight' \in Seq(Item)
           /\ InFlight = <<Head(output)>> \o InFlight'
<1>1. /\ output \in Seq(Item) /\ batch \in Seq(Item)
      /\ Inference!Items(hand \o input) \in Seq(Item)
  BY FlightFacts
<1>2. /\ output # << >> /\ output' = Tail(output)
      /\ hand' = hand /\ input' = input /\ batch' = batch /\ unfinished' = unfinished
  BY DEF Inference!ReadResult, Inference!consumerVars
<1>3. InputAccounted'
  BY <1>2 DEF InputAccounted
<1> PICK x : x = Head(output)
  OBVIOUS
<1>4. output = <<x>> \o output' /\ <<x>> \in Seq(Item) /\ output' \in Seq(Item) /\ x \in Item
  BY <1>1, <1>2, HeadThenTail, HeadTailProperties
<1> PICK u : u = Inference!Items(hand \o input)
  OBVIOUS
<1>5. /\ output \o batch = <<x>> \o (output' \o batch) /\ output' \o batch \in Seq(Item)
      /\ u \in Seq(Item)
  BY <1>1, <1>4, ConcatAssociative, ConcatProperties
<1>6. (output \o batch) \o u = <<x>> \o ((output' \o batch) \o u) /\ (output' \o batch) \o u \in Seq(Item)
  BY <1>4, <1>5, ConcatAssociative, ConcatProperties
<1>7. InFlight = (output \o batch) \o u /\ InFlight' = (output' \o batch) \o u
  BY <1>2 DEF InFlight
<1> QED  BY <1>3, <1>4, <1>6, <1>7

-----------------------------------------------------------------------------
\* Before the first task nothing is on its way.
LEMMA InferenceInit == Inference!Init => InferenceIInv /\ Inference!PipelineInOrder /\ AloneInv
<1> SUFFICES ASSUME Inference!Init PROVE InferenceIInv /\ Inference!PipelineInOrder /\ AloneInv
  OBVIOUS
<1>1. Inference!TypeOK
  <2>1. /\ put \in [Feeder -> 0..MaxItems] /\ retries \in 0..MaxRetries /\ unfinished \in Nat
        /\ results \in [Feeder -> Seq(Inference!Item)]
    BY SizeAssumption DEF Inference!Init
  <2>2. doneFeeding \in BOOLEAN /\ alone \in BOOLEAN
    BY Zenon DEF Inference!Init
  <2>3. /\ input \in Seq(Inference!Item \cup {None, EndPartition})
        /\ hand \in Seq(Inference!Item \cup {None, EndPartition})
        /\ output \in Seq(Inference!Item) /\ batch \in Seq(Inference!Item)
        /\ fed \in Seq(Inference!Item) /\ read \in Seq(Inference!Item)
    BY DEF Inference!Init
  <2> QED  BY <2>1, <2>2, <2>3, Zenon DEF Inference!Init, Inference!TypeOK
<1>2. InputAccounted
  BY DEF Inference!Init, InputAccounted
<1>3. << >> \in Seq(Item) /\ << >> \o << >> = << >>
  BY EmptySeq, ConcatEmptySeq
<1>4. InFlight = << >>
  BY <1>3, ItemsNone DEF Inference!Init, InFlight
<1>5. Inference!PipelineInOrder
  BY <1>3, ItemsNone DEF Inference!Init, Inference!PipelineInOrder
<1>6. OnlyOwnInFlight
  BY <1>4 DEF Inference!Init, OnlyOwnInFlight, Inference!ActiveFeeders
<1> QED  BY <1>1, <1>2, <1>5, <1>6 DEF InferenceIInv, AloneInv

\* What a step does to the items on their way.
Quiet == InFlight' = InFlight /\ fed' = fed /\ read' = read
Puts(f) == /\ Inference!PutItem(f) /\ <<f, put[f] + 1>> \in Item
           /\ InFlight' = Append(InFlight, <<f, put[f] + 1>>)
Reads(f) == /\ Inference!ReadResult(f) /\ Head(output) \in Item /\ InFlight' \in Seq(Item)
            /\ InFlight = <<Head(output)>> \o InFlight'

\* A put appends to what is on its way, a read takes its head, nothing else
\* changes it.
LEMMA InferenceStep ==
    ASSUME EndPartition \notin Item, InferenceIInv, [Inference!Next]_Inference!vars
    PROVE  InferenceIInv' /\ (Quiet \/ \E f \in Feeder : Puts(f) \/ Reads(f))
<1> USE DEF InferenceIInv
<1>0. /\ input \in Seq(Item \cup Mark) /\ hand \in Seq(Item \cup Mark)
      /\ fed \in Seq(Item) /\ read \in Seq(Item) /\ output \in Seq(Item) /\ batch \in Seq(Item)
  BY FlightFacts, ItemSame DEF Inference!TypeOK
<1>s. Item = Inference!Item /\ Item \cup Mark = Inference!Item \cup {None, EndPartition}
  BY ItemSame DEF Mark
<1>1. ASSUME NEW f \in Feeder, Inference!StartFeeding(f)
      PROVE  InferenceIInv' /\ Quiet
  <2>1. UNCHANGED FlowVars /\ UNCHANGED <<unfinished, fed, read>>
    BY <1>1 DEF Inference!StartFeeding, Inference!queueVars, Inference!consumerVars, FlowVars
  <2>2. Inference!TypeOK'
    <3>1. feeder' \in [Feeder -> {"idle", "feeding", "joining", "reading", "returned"}]
      BY <1>1 DEF Inference!StartFeeding, Inference!TypeOK
    <3>2. alone' \in BOOLEAN
      BY <1>1, Zenon DEF Inference!StartFeeding
    <3> QED  BY <1>1, <3>1, <3>2, Zenon DEF Inference!StartFeeding, Inference!TypeOK,
                Inference!queueVars, Inference!taskVars, Inference!consumerVars
  <2> QED  BY <2>1, <2>2 DEF FlowVars, InputAccounted, Quiet, InFlight
<1>2. ASSUME NEW f \in Feeder, Inference!PutItem(f)
      PROVE  InferenceIInv' /\ Puts(f)
  <2> PICK x : x = <<f, put[f] + 1>>
    OBVIOUS
  <2>1. put[f] \in Nat /\ size[f] \in 0..MaxItems /\ put[f] < size[f] /\ MaxItems \in Nat
    BY <1>2, SizeAssumption DEF Inference!PutItem, Inference!TypeOK
  <2>2. x \in Item /\ put[f] + 1 \in 0..MaxItems
    <3>1. put[f] + 1 \in 1..MaxItems
      BY <2>1
    <3> QED  BY <3>1 DEF Item
  <2>3. /\ Inference!InputPut(x) /\ UNCHANGED <<output, batch, hand>>
        /\ fed' = Append(fed, x)
    BY <1>2 DEF Inference!PutItem, Inference!consumerVars
  <2>4. /\ input' \in Seq(Item \cup Mark) /\ unfinished' \in Nat /\ InputAccounted'
        /\ InFlight' = Append(InFlight, x)
    BY <2>2, <2>3, InputPutEffect
  <2>5. Inference!TypeOK'
    <3>1. put' \in [Feeder -> 0..MaxItems]
      BY <1>2, <2>2 DEF Inference!PutItem, Inference!TypeOK
    <3>2. fed' \in Seq(Inference!Item)
      BY <1>0, <1>s, <2>2, <2>3, AppendProperties
    <3>3. input' \in Seq(Inference!Item \cup {None, EndPartition})
      BY <1>s, <2>4, Zenon
    <3> QED  BY <1>2, <2>4, <3>1, <3>2, <3>3, Zenon DEF Inference!PutItem, Inference!TypeOK,
                Inference!consumerVars
  <2> QED  BY <1>2, <2>2, <2>4, <2>5 DEF Puts
<1>3. ASSUME NEW f \in Feeder, Inference!PutEndPartition(f)
      PROVE  InferenceIInv' /\ Quiet
  <2>1. /\ Inference!InputPut(EndPartition) /\ UNCHANGED <<output, batch, hand>>
        /\ fed' = fed /\ read' = read /\ EndPartition \in Item \cup Mark
    BY <1>3 DEF Inference!PutEndPartition, Inference!consumerVars, Inference!historyVars, Mark
  <2>2. /\ input' \in Seq(Item \cup Mark) /\ unfinished' \in Nat /\ InputAccounted'
        /\ InFlight' = InFlight
    BY <2>1, InputPutEffect
  <2>3. Inference!TypeOK'
    <3>1. feeder' \in [Feeder -> {"idle", "feeding", "joining", "reading", "returned"}]
      BY <1>3 DEF Inference!PutEndPartition, Inference!TypeOK
    <3>2. input' \in Seq(Inference!Item \cup {None, EndPartition})
      BY <1>s, <2>2, Zenon
    <3> QED  BY <1>3, <2>2, <3>1, <3>2, Zenon DEF Inference!PutEndPartition, Inference!TypeOK,
                Inference!taskVars, Inference!consumerVars, Inference!historyVars
  <2> QED  BY <2>1, <2>2, <2>3 DEF Quiet
<1>4. ASSUME NEW f \in Feeder, Inference!ReadResult(f)
      PROVE  InferenceIInv' /\ Reads(f)
  <2>1. /\ output' \in Seq(Item) /\ Head(output) \in Item /\ InputAccounted'
        /\ InFlight' \in Seq(Item)
        /\ InFlight = <<Head(output)>> \o InFlight'
    BY <1>4, ReadResultEffect
  <2>2. Inference!TypeOK'
    <3>1. feeder' \in [Feeder -> {"idle", "feeding", "joining", "reading", "returned"}]
      BY <1>4 DEF Inference!ReadResult, Inference!TypeOK
    <3>2. results' \in [Feeder -> Seq(Inference!Item)]
      <4>1. results[f] \in Seq(Item)
        BY <1>s DEF Inference!TypeOK
      <4>2. Append(results[f], Head(output)) \in Seq(Inference!Item)
        BY <1>s, <2>1, <4>1, AppendProperties
      <4> QED  BY <1>4, <4>2 DEF Inference!ReadResult, Inference!TypeOK
    <3>3. read' \in Seq(Inference!Item)
      BY <1>0, <1>s, <1>4, <2>1, AppendProperties DEF Inference!ReadResult
    <3>4. output' \in Seq(Inference!Item)
      BY <1>s, <2>1, Zenon
    <3> QED  BY <1>4, <3>1, <3>2, <3>3, <3>4, Zenon DEF Inference!ReadResult, Inference!TypeOK,
                Inference!consumerVars
  <2> QED  BY <1>4, <2>1, <2>2 DEF Reads
<1>5. ASSUME NEW f \in Feeder, Inference!FeederRetried(f)
      PROVE  InferenceIInv' /\ Quiet
  <2>1. UNCHANGED FlowVars /\ UNCHANGED <<unfinished, fed, read>>
    BY <1>5 DEF Inference!FeederRetried, Inference!queueVars, Inference!consumerVars, FlowVars
  <2>2. Inference!TypeOK'
    <3>1. /\ feeder' \in [Feeder -> {"idle", "feeding", "joining", "reading", "returned"}]
          /\ put' \in [Feeder -> 0..MaxItems]
          /\ results' \in [Feeder -> Seq(Inference!Item)]
          /\ retries' \in 0..MaxRetries
      BY <1>5, SizeAssumption DEF Inference!FeederRetried, Inference!TypeOK
    <3>2. alone' \in BOOLEAN
      BY <1>5, Zenon DEF Inference!FeederRetried
    <3> QED  BY <1>5, <3>1, <3>2, Zenon DEF Inference!FeederRetried, Inference!TypeOK,
                Inference!queueVars, Inference!consumerVars
  <2> QED  BY <2>1, <2>2 DEF FlowVars, InputAccounted, Quiet, InFlight
<1>6. CASE Inference!LoopTest
  <2>1. UNCHANGED FlowVars /\ UNCHANGED <<unfinished, fed, read>>
    BY <1>6 DEF Inference!LoopTest, Inference!queueVars, Inference!historyVars, FlowVars
  <2>2. Inference!TypeOK'
    <3>1. consumer' \in {"loop", "batch", "step", "exited"}
      BY <1>6 DEF Inference!LoopTest
    <3> QED  BY <1>6, <3>1, Zenon DEF Inference!LoopTest, Inference!TypeOK,
                Inference!queueVars, Inference!taskVars, Inference!historyVars
  <2> QED  BY <2>1, <2>2 DEF FlowVars, InputAccounted, Quiet, InFlight
<1>7. CASE Inference!NextItem
  <2>1. /\ input' \in Seq(Item \cup Mark) /\ hand' \in Seq(Item \cup Mark)
        /\ InputAccounted' /\ InFlight' = InFlight
    BY <1>7, NextItemEffect
  <2>2. Inference!TypeOK'
    <3>1. /\ input' \in Seq(Inference!Item \cup {None, EndPartition})
          /\ hand' \in Seq(Inference!Item \cup {None, EndPartition})
      BY <1>s, <2>1, Zenon
    <3> QED  BY <1>7, <3>1, Zenon DEF Inference!NextItem, Inference!TypeOK,
                Inference!taskVars, Inference!historyVars
  <2>3. fed' = fed /\ read' = read
    BY <1>7 DEF Inference!NextItem, Inference!historyVars
  <2> QED  BY <2>1, <2>2, <2>3 DEF Quiet
<1>8. CASE Inference!TakeItem
  <2>1. /\ hand' \in Seq(Item \cup Mark) /\ batch' \in Seq(Item) /\ unfinished' \in Nat
        /\ InputAccounted' /\ InFlight' = InFlight
    BY <1>8, TakeItemEffect
  <2>2. Inference!TypeOK'
    <3>1. /\ feeder' \in [Feeder -> {"idle", "feeding", "joining", "reading", "returned"}]
          /\ consumer' \in {"loop", "batch", "step", "exited"}
      BY <1>8 DEF Inference!TakeItem, Inference!TaskDone, Inference!TypeOK
    <3>2. doneFeeding' \in BOOLEAN
      BY <1>8, Zenon DEF Inference!TakeItem
    <3>3. /\ hand' \in Seq(Inference!Item \cup {None, EndPartition})
          /\ batch' \in Seq(Inference!Item)
      BY <1>s, <2>1, Zenon
    <3> QED  BY <1>8, <2>1, <3>1, <3>2, <3>3, Zenon DEF Inference!TakeItem, Inference!TypeOK,
                Inference!taskVars, Inference!historyVars
  <2>3. fed' = fed /\ read' = read
    BY <1>8 DEF Inference!TakeItem, Inference!historyVars
  <2> QED  BY <2>1, <2>2, <2>3 DEF Quiet
<1>9. CASE Inference!PutResult
  <2>1. output' \in Seq(Item) /\ batch' \in Seq(Item) /\ InputAccounted' /\ InFlight' = InFlight
    BY <1>9, PutResultEffect
  <2>2. Inference!TypeOK'
    <3>1. consumer' \in {"loop", "batch", "step", "exited"}
      BY <1>9 DEF Inference!PutResult
    <3>2. output' \in Seq(Inference!Item) /\ batch' \in Seq(Inference!Item)
      BY <1>s, <2>1, Zenon
    <3> QED  BY <1>9, <3>1, <3>2, Zenon DEF Inference!PutResult, Inference!TypeOK,
                Inference!taskVars, Inference!historyVars
  <2>3. fed' = fed /\ read' = read
    BY <1>9 DEF Inference!PutResult, Inference!historyVars
  <2> QED  BY <2>1, <2>2, <2>3 DEF Quiet
<1>10. CASE Inference!ShutdownPutsNone
  <2>1. /\ Inference!InputPut(None) /\ UNCHANGED <<output, batch, hand>>
        /\ fed' = fed /\ read' = read /\ None \in Item \cup Mark /\ None \notin Item
    BY <1>10, NoneAssumption DEF Inference!ShutdownPutsNone, Inference!consumerVars,
       Inference!historyVars, Mark
  <2>2. /\ input' \in Seq(Item \cup Mark) /\ unfinished' \in Nat /\ InputAccounted'
        /\ InFlight' = InFlight
    BY <2>1, InputPutEffect
  <2>3. Inference!TypeOK'
    <3>1. driver' \in {"feeding", "stopped"}
      BY <1>10 DEF Inference!ShutdownPutsNone
    <3>2. input' \in Seq(Inference!Item \cup {None, EndPartition})
      BY <1>s, <2>2, Zenon
    <3> QED  BY <1>10, <2>2, <3>1, <3>2, Zenon DEF Inference!ShutdownPutsNone, Inference!TypeOK,
                Inference!taskVars, Inference!consumerVars, Inference!historyVars
  <2> QED  BY <2>1, <2>2, <2>3 DEF Quiet
<1>11. CASE UNCHANGED Inference!vars
  <2>1. UNCHANGED FlowVars /\ UNCHANGED <<unfinished, fed, read>>
    BY <1>11 DEF Inference!vars, Inference!queueVars, Inference!consumerVars,
       Inference!historyVars, FlowVars
  <2>2. Inference!TypeOK'
    BY <1>11, Zenon DEF Inference!TypeOK, Inference!vars, Inference!queueVars, Inference!taskVars,
       Inference!consumerVars, Inference!historyVars
  <2> QED  BY <2>1, <2>2 DEF FlowVars, InputAccounted, Quiet, InFlight
<1> QED
  BY <1>1, <1>2, <1>3, <1>4, <1>5, <1>6, <1>7, <1>8, <1>9, <1>10, <1>11
  DEF Inference!Next, Inference!Infer, Inference!Consume

\* How an item moves between the parts of a sequence.
LEMMA MoveLaws ==
    ASSUME NEW r \in Seq(Item), NEW w \in Seq(Item), NEW x \in Item
    PROVE  /\ r \o w \in Seq(Item) /\ <<x>> \in Seq(Item)
           /\ Append(r \o w, x) = r \o Append(w, x)
           /\ Append(r, x) \o w = r \o (<<x>> \o w)
<1>1. <<x>> \in Seq(Item) /\ r \o w \in Seq(Item)
  BY ConcatProperties
<1>2. /\ Append(w, x) = w \o <<x>> /\ Append(r, x) = r \o <<x>>
      /\ Append(r \o w, x) = (r \o w) \o <<x>>
  BY <1>1, AppendIsConcat
<1>3. (r \o w) \o <<x>> = r \o (w \o <<x>>)
  BY <1>1, ConcatAssociative
<1>4. (r \o <<x>>) \o w = r \o (<<x>> \o w)
  BY <1>1, ConcatAssociative
<1> QED  BY <1>1, <1>2, <1>3, <1>4, Zenon

\* The pipeline is what has been read, followed by what is on its way.
LEMMA PipelineIs ==
    Inference!TypeOK => (Inference!PipelineInOrder <=> fed = read \o InFlight)
<1> SUFFICES ASSUME Inference!TypeOK
             PROVE  Inference!PipelineInOrder <=> fed = read \o InFlight
  OBVIOUS
<1> PICK u : u = Inference!Items(hand \o input)
  OBVIOUS
<1>1. read \in Seq(Item) /\ output \in Seq(Item) /\ batch \in Seq(Item) /\ u \in Seq(Item)
  BY FlightFacts, ItemSame DEF Inference!TypeOK
<1>2. output \o batch \in Seq(Item) /\ (read \o output) \o batch = read \o (output \o batch)
  BY <1>1, ConcatProperties, ConcatAssociative
<1> PICK v : v = output \o batch
  OBVIOUS
<1>3. (read \o v) \o u = read \o (v \o u)
  <2>1. read \in Seq(Item) /\ v \in Seq(Item) /\ u \in Seq(Item)
    BY <1>1, <1>2
  <2> QED  BY <2>1, ConcatAssociative
<1> QED  BY <1>2, <1>3 DEF Inference!PipelineInOrder, InFlight

\* Every step keeps the items in order.
LEMMA PipelineStep ==
    ASSUME EndPartition \notin Item, InferenceIInv, Inference!PipelineInOrder,
           [Inference!Next]_Inference!vars
    PROVE  Inference!PipelineInOrder'
<1>1. InferenceIInv' /\ (Quiet \/ \E f \in Feeder : Puts(f) \/ Reads(f))
  BY InferenceStep
<1>2. fed = read \o InFlight
  BY PipelineIs DEF InferenceIInv
<1>3. read \in Seq(Item) /\ InFlight \in Seq(Item)
  BY FlightFacts, ItemSame DEF InferenceIInv, Inference!TypeOK
<1>4. Inference!TypeOK' => (Inference!PipelineInOrder' <=> fed' = read' \o InFlight')
  <2> PICK u : u = Inference!Items(hand' \o input')
    OBVIOUS
  <2> SUFFICES ASSUME Inference!TypeOK'
               PROVE  Inference!PipelineInOrder' <=> fed' = read' \o InFlight'
    OBVIOUS
  <2>1. /\ read' \in Seq(Item) /\ output' \in Seq(Item) /\ batch' \in Seq(Item)
        /\ hand' \in Seq(Item \cup Mark) /\ input' \in Seq(Item \cup Mark)
    BY ItemSame DEF Inference!TypeOK, Mark
  <2>2. hand' \o input' \in Seq(Item \cup Mark)
    BY <2>1, ConcatProperties
  <2>3. u \in Seq(Item)
    BY <2>2, ItemsAre
  <2>4. output' \o batch' \in Seq(Item) /\ (read' \o output') \o batch' = read' \o (output' \o batch')
    BY <2>1, ConcatProperties, ConcatAssociative
  <2> PICK v : v = output' \o batch'
    OBVIOUS
  <2> PICK r : r = read'
    OBVIOUS
  <2>5. (r \o v) \o u = r \o (v \o u)
    <3>1. r \in Seq(Item) /\ v \in Seq(Item) /\ u \in Seq(Item)
      BY <2>1, <2>3, <2>4
    <3> QED  BY <3>1, ConcatAssociative, SMTT(30)
  <2> QED  BY <2>4, <2>5 DEF Inference!PipelineInOrder, InFlight
<1>5. CASE Quiet
  BY <1>1, <1>2, <1>4, <1>5 DEF Quiet, InferenceIInv
<1>6. ASSUME NEW f \in Feeder, Puts(f) PROVE fed' = read' \o InFlight'
  <2> PICK x : x = <<f, put[f] + 1>>
    OBVIOUS
  <2>1. x \in Item /\ InFlight' = Append(InFlight, x) /\ fed' = Append(fed, x) /\ read' = read
    BY <1>6 DEF Puts, Inference!PutItem
  <2>2. Append(read \o InFlight, x) = read \o Append(InFlight, x)
    BY <1>3, <2>1, MoveLaws
  <2> QED  BY <1>2, <2>1, <2>2, Zenon
<1>7. ASSUME NEW f \in Feeder, Reads(f) PROVE fed' = read' \o InFlight'
  <2> PICK x : x = Head(output)
    OBVIOUS
  <2>1. /\ x \in Item /\ InFlight = <<x>> \o InFlight' /\ fed' = fed /\ read' = Append(read, x)
        /\ InFlight' \in Seq(Item)
    BY <1>7 DEF Reads, Inference!ReadResult
  <2>2. PICK w \in Seq(Item) : w = InFlight'
    BY <2>1
  <2>3. Append(read, x) \o w = read \o (<<x>> \o w)
    BY <1>3, <2>1, <2>2, MoveLaws
  <2> QED  BY <1>2, <2>1, <2>2, <2>3, Zenon
<1> QED  BY <1>1, <1>4, <1>5, <1>6, <1>7 DEF InferenceIInv

-----------------------------------------------------------------------------
\* A task whose items are all read has read exactly them.
LEMMA AllOwn ==
    ASSUME NEW f \in Feeder, NEW n \in 0..MaxItems, NEW r \in Seq(Item), NEW w \in Seq(Item),
           r \o w = FirstItems(f, n), Len(r) = n
    PROVE  r = FirstItems(f, n) /\ w = << >>
<1>1. n \in Nat /\ MaxItems \in Nat /\ n <= MaxItems /\ Len(w) \in Nat
  BY SizeAssumption, LenProperties
<1>2. \A k \in 1..n : <<f, k>> \in Item
  BY <1>1 DEF Item
<1>3. FirstItems(f, n) \in Seq(Item) /\ Len(FirstItems(f, n)) = n
  BY <1>1, <1>2 DEF FirstItems
<1>4. Len(r \o w) = Len(r) + Len(w)
  BY ConcatProperties
<1>5. Len(w) = 0
  BY <1>1, <1>3, <1>4
<1>6. w = << >>
  BY <1>5, EmptySeq
<1> QED  BY <1>6, ConcatEmptySeq

\* The items of a partition, one by one.
LEMMA FirstItemsNone == ASSUME NEW f PROVE FirstItems(f, 0) = << >>
BY DEF FirstItems

LEMMA FirstItemsNext ==
    ASSUME NEW f \in Feeder, NEW n \in 0..MaxItems, n < MaxItems
    PROVE  FirstItems(f, n + 1) = Append(FirstItems(f, n), <<f, n + 1>>) /\ FirstItems(f, n) \in Seq(Item)
<1>1. n \in Nat /\ MaxItems \in Nat
  BY SizeAssumption
<1>2. \A k \in 1..(n + 1) : <<f, k>> \in Item
  BY <1>1 DEF Item
<1> PICK s : s = FirstItems(f, n)
  OBVIOUS
<1> PICK t : t = FirstItems(f, n + 1)
  OBVIOUS
<1>3. s \in Seq(Item) /\ Len(s) = n /\ \A k \in 1..n : s[k] = <<f, k>>
  BY <1>1, <1>2 DEF FirstItems
<1>4. t \in Seq(Item) /\ Len(t) = n + 1 /\ \A k \in 1..(n + 1) : t[k] = <<f, k>>
  BY <1>1, <1>2 DEF FirstItems
<1> PICK x : x = <<f, n + 1>>
  OBVIOUS
<1>5. x \in Item
  BY <1>1, <1>2
<1>6. /\ Append(s, x) \in Seq(Item) /\ Len(Append(s, x)) = n + 1
      /\ \A k \in 1..n : Append(s, x)[k] = s[k]
      /\ Append(s, x)[n + 1] = x
  BY <1>3, <1>5, AppendProperties
<1>7. \A k \in 1..(n + 1) : t[k] = Append(s, x)[k]
  <2> SUFFICES ASSUME NEW k \in 1..(n + 1) PROVE t[k] = Append(s, x)[k]
    OBVIOUS
  <2>1. k \in 1..n \/ k = n + 1
    BY <1>1
  <2> QED  BY <1>3, <1>4, <1>6, <2>1
<1>8. t = Append(s, x)
  BY <1>4, <1>6, <1>7, SeqEqual
<1> QED  BY <1>3, <1>8

\* Alone, a task finds nothing of another on its way, and leaves nothing.
LEMMA AloneStep ==
    ASSUME EndPartition \notin Item, InferenceIInv, AloneInv, [Inference!Next]_Inference!vars
    PROVE  AloneInv'
<1> SUFFICES ASSUME alone' PROVE OnlyOwnInFlight'
  BY DEF AloneInv
<1>1. InferenceIInv' /\ (Quiet \/ \E f \in Feeder : Puts(f) \/ Reads(f))
  BY InferenceStep
<1> DEFINE Act == {"feeding", "joining", "reading"}
<1>t. /\ feeder \in [Feeder -> {"idle", "feeding", "joining", "reading", "returned"}]
      /\ put \in [Feeder -> 0..MaxItems] /\ size \in [Feeder -> 0..MaxItems]
      /\ results \in [Feeder -> Seq(Item)]
      /\ MaxItems \in Nat
  BY ItemSame, SizeAssumption DEF InferenceIInv, Inference!TypeOK
<1>w. InFlight \in Seq(Item)
  BY FlightFacts DEF InferenceIInv
\* A step that leaves the tasks as they are, or only wakes one from join().
<1>q. ASSUME UNCHANGED <<put, size, results, alone>>, InFlight' = InFlight,
             feeder' \in [Feeder -> {"idle", "feeding", "joining", "reading", "returned"}],
             \A f \in Feeder : \/ feeder'[f] = feeder[f]
                                \/ (feeder[f] = "joining" /\ feeder'[f] = "reading")
      PROVE  OnlyOwnInFlight'
  <2>1. OnlyOwnInFlight
    BY <1>q DEF AloneInv
  <2>2. Inference!ActiveFeeders' = Inference!ActiveFeeders
    BY <1>q DEF Inference!ActiveFeeders
  <2> QED  BY <1>q, <2>1, <2>2 DEF OnlyOwnInFlight
<1>2. ASSUME NEW f \in Feeder, Inference!StartFeeding(f) PROVE OnlyOwnInFlight'
  <2>1. /\ alone /\ Inference!ActiveFeeders = {} /\ feeder[f] = "idle"
        /\ feeder' = [feeder EXCEPT ![f] = "feeding"]
        /\ UNCHANGED <<put, size, results>> /\ UNCHANGED FlowVars
    BY <1>2 DEF Inference!StartFeeding, Inference!queueVars, Inference!taskVars,
       Inference!consumerVars, FlowVars
  <2>2. OnlyOwnInFlight /\ InFlight' = InFlight
    BY <2>1 DEF AloneInv, FlowVars, InFlight
  <2>3. InFlight = << >> /\ put[f] = 0 /\ results[f] = << >>
    BY <2>1, <2>2 DEF OnlyOwnInFlight
  <2>4. \A g \in Feeder : g # f => feeder'[g] = feeder[g] /\ feeder[g] \notin Act
    BY <1>t, <2>1 DEF Inference!ActiveFeeders
  <2>5. feeder'[f] = "feeding"
    BY <1>t, <2>1
  <2>6. Inference!ActiveFeeders' = {f}
    BY <2>4, <2>5 DEF Inference!ActiveFeeders
  <2>7. results[f] \o InFlight = FirstItems(f, put[f])
    <3>1. << >> \o << >> = << >>
      BY EmptySeq, ConcatEmptySeq
    <3> QED  BY <2>3, <3>1, FirstItemsNone
  <2> QED  BY <2>1, <2>2, <2>3, <2>4, <2>5, <2>6, <2>7 DEF OnlyOwnInFlight
<1>3. ASSUME NEW f \in Feeder, Puts(f) PROVE OnlyOwnInFlight'
  <2> PICK x : x = <<f, put[f] + 1>>
    OBVIOUS
  <2>1. /\ alone /\ feeder[f] = "feeding" /\ UNCHANGED <<feeder, size, results>>
        /\ put' = [put EXCEPT ![f] = put[f] + 1] /\ put[f] < size[f]
        /\ InFlight' = Append(InFlight, x) /\ x \in Item
    BY <1>3 DEF Puts, Inference!PutItem
  <2>2. OnlyOwnInFlight
    BY <2>1 DEF AloneInv
  <2>3. Inference!ActiveFeeders' = Inference!ActiveFeeders /\ f \in Inference!ActiveFeeders
    BY <2>1 DEF Inference!ActiveFeeders
  <2>4. \A g \in Feeder : g # f => feeder[g] \notin Act /\ put'[g] = put[g]
    BY <1>t, <2>1, <2>2 DEF OnlyOwnInFlight, Inference!ActiveFeeders
  <2>5. put'[f] = put[f] + 1 /\ put[f] \in 0..MaxItems /\ put[f] < MaxItems
    BY <1>t, <2>1
  <2>6. results[f] \o InFlight' = FirstItems(f, put'[f])
    <3>1. results[f] \o InFlight = FirstItems(f, put[f]) /\ results[f] \in Seq(Item)
      BY <1>t, <2>1, <2>2 DEF OnlyOwnInFlight
    <3>2. Append(results[f] \o InFlight, x) = results[f] \o Append(InFlight, x)
      BY <1>w, <2>1, <3>1, MoveLaws
    <3>3. FirstItems(f, put[f] + 1) = Append(FirstItems(f, put[f]), x)
      BY <2>5, FirstItemsNext
    <3> QED  BY <2>1, <2>5, <3>1, <3>2, <3>3
  <2> QED  BY <2>1, <2>2, <2>3, <2>4, <2>6 DEF OnlyOwnInFlight
<1>4. ASSUME NEW f \in Feeder, Inference!PutEndPartition(f), InFlight' = InFlight
      PROVE  OnlyOwnInFlight'
  <2>1. /\ alone /\ feeder[f] = "feeding" /\ put[f] = size[f] /\ UNCHANGED <<put, size, results>>
        /\ feeder' = [feeder EXCEPT ![f] = IF size[f] = 0 THEN "returned" ELSE "joining"]
    BY <1>4 DEF Inference!PutEndPartition, Inference!taskVars, Inference!historyVars
  <2>2. OnlyOwnInFlight
    BY <2>1 DEF AloneInv
  <2>3. \A g \in Feeder : g # f => feeder'[g] = feeder[g] /\ feeder[g] \notin Act
    BY <1>t, <2>1, <2>2 DEF OnlyOwnInFlight, Inference!ActiveFeeders
  <2>4. results[f] \o InFlight = FirstItems(f, put[f]) /\ results[f] = << >>
    BY <2>1, <2>2 DEF OnlyOwnInFlight
  <2>5. CASE size[f] = 0
    <3>1. feeder'[f] = "returned"
      BY <1>t, <2>1, <2>5
    <3>2. Inference!ActiveFeeders' = {}
      BY <2>3, <3>1 DEF Inference!ActiveFeeders
    <3>3. FirstItems(f, 0) = << >>
      BY FirstItemsNone
    <3>4. InFlight = << >>
      BY <1>w, <2>1, <2>4, <2>5, <3>3, ConcatEmptySeq
    <3> QED  BY <1>4, <2>1, <2>2, <2>3, <2>4, <2>5, <3>1, <3>2, <3>3, <3>4 DEF OnlyOwnInFlight
  <2>6. CASE size[f] # 0
    <3>1. feeder'[f] = "joining"
      BY <1>t, <2>1, <2>6
    <3>2. Inference!ActiveFeeders' = {f}
      BY <2>3, <3>1 DEF Inference!ActiveFeeders
    <3> QED  BY <1>4, <2>1, <2>2, <2>3, <2>4, <3>1, <3>2 DEF OnlyOwnInFlight
  <2> QED  BY <2>5, <2>6
<1>5. ASSUME NEW f \in Feeder, Reads(f) PROVE OnlyOwnInFlight'
  <2> PICK x : x = Head(output)
    OBVIOUS
  <2>1. /\ alone /\ feeder[f] = "reading" /\ UNCHANGED <<put, size>>
        /\ results' = [results EXCEPT ![f] = Append(results[f], x)]
        /\ feeder' = [feeder EXCEPT ![f] = IF Len(results'[f]) = put[f] THEN "returned" ELSE feeder[f]]
        /\ InFlight = <<x>> \o InFlight' /\ x \in Item /\ InFlight' \in Seq(Item)
    BY <1>5 DEF Reads, Inference!ReadResult, Inference!AllRead
  <2>2. OnlyOwnInFlight
    BY <2>1 DEF AloneInv
  <2>3. \A g \in Feeder : g # f => feeder'[g] = feeder[g] /\ feeder[g] \notin Act /\ results'[g] = results[g]
    BY <1>t, <2>1, <2>2 DEF OnlyOwnInFlight, Inference!ActiveFeeders
  <2>4. results[f] \o InFlight = FirstItems(f, put[f]) /\ results[f] \in Seq(Item) /\ put[f] = size[f]
    BY <1>t, <2>1, <2>2 DEF OnlyOwnInFlight
  <2>5. results'[f] = Append(results[f], x) /\ results'[f] \in Seq(Item)
    BY <1>t, <2>1, <2>4, AppendProperties
  <2>6. results'[f] \o InFlight' = FirstItems(f, put[f])
    <3> PICK r : r = results[f]
      OBVIOUS
    <3> PICK w : w = InFlight'
      OBVIOUS
    <3>1. r \in Seq(Item) /\ w \in Seq(Item) /\ x \in Item
      BY <2>1, <2>4
    <3>2. Append(r, x) \o w = r \o (<<x>> \o w)
      BY <3>1, MoveLaws, ZenonT(30)
    <3> QED  BY <2>1, <2>4, <2>5, <3>2
  <2>7. CASE Len(results'[f]) = put[f]
    <3>1. feeder'[f] = "returned"
      BY <1>t, <2>1, <2>7
    <3>2. Inference!ActiveFeeders' = {}
      BY <2>3, <3>1 DEF Inference!ActiveFeeders
    <3>3. results'[f] = FirstItems(f, size[f]) /\ InFlight' = << >>
      BY <1>t, <2>1, <2>4, <2>5, <2>6, <2>7, AllOwn
    <3> QED  BY <2>1, <2>2, <2>3, <3>1, <3>2, <3>3 DEF OnlyOwnInFlight
  <2>8. CASE Len(results'[f]) # put[f]
    <3>1. feeder'[f] = "reading"
      BY <1>t, <2>1, <2>8
    <3>2. Inference!ActiveFeeders' = {f}
      BY <2>3, <3>1 DEF Inference!ActiveFeeders
    <3> QED  BY <2>1, <2>2, <2>3, <2>4, <2>6, <3>1, <3>2 DEF OnlyOwnInFlight
  <2> QED  BY <2>7, <2>8
<1>6. ASSUME NEW f \in Feeder, Inference!FeederRetried(f) PROVE OnlyOwnInFlight'
  BY <1>6 DEF Inference!FeederRetried
<1>7. ASSUME Inference!LoopTest \/ Inference!NextItem \/ Inference!PutResult
             \/ Inference!ShutdownPutsNone \/ UNCHANGED Inference!vars, Quiet
      PROVE  OnlyOwnInFlight'
  <2>1. UNCHANGED <<put, size, results, alone, feeder>>
    BY <1>7 DEF Inference!LoopTest, Inference!NextItem, Inference!PutResult,
       Inference!ShutdownPutsNone, Inference!vars, Inference!taskVars, Inference!historyVars
  <2> QED  BY <1>t, <1>7, <1>q, <2>1 DEF Quiet
<1>8. ASSUME Inference!TakeItem, Quiet PROVE OnlyOwnInFlight'
  <2>1. /\ UNCHANGED <<put, size, results, alone>>
        /\ feeder' = [g \in Feeder |-> IF unfinished = 1 /\ feeder[g] = "joining"
                                         THEN "reading" ELSE feeder[g]]
    BY <1>8 DEF Inference!TakeItem, Inference!TaskDone, Inference!taskVars, Inference!historyVars
  <2>2. /\ feeder' \in [Feeder -> {"idle", "feeding", "joining", "reading", "returned"}]
        /\ \A g \in Feeder : \/ feeder'[g] = feeder[g]
                             \/ (feeder[g] = "joining" /\ feeder'[g] = "reading")
    BY <1>t, <2>1
  <2> QED  BY <1>8, <1>q, <2>1, <2>2 DEF Quiet
<1>9. ASSUME NEW f \in Feeder, Inference!PutItem(f) \/ Inference!ReadResult(f), Quiet PROVE FALSE
  <2>1. fed \in Seq(Item) /\ read \in Seq(Item) /\ Len(fed) \in Nat /\ Len(read) \in Nat
    BY ItemSame, LenProperties DEF InferenceIInv, Inference!TypeOK
  <2>2. CASE Inference!PutItem(f)
    <3>1. PICK x : fed' = Append(fed, x)
      BY <2>2 DEF Inference!PutItem
    <3>2. Len(Append(fed, x)) = Len(fed) + 1
      BY <2>1
    <3> QED  BY <1>9, <2>1, <3>1, <3>2 DEF Quiet
  <2>3. CASE Inference!ReadResult(f)
    <3>1. PICK x : read' = Append(read, x)
      BY <2>3 DEF Inference!ReadResult
    <3>2. Len(Append(read, x)) = Len(read) + 1
      BY <2>1
    <3> QED  BY <1>9, <2>1, <3>1, <3>2 DEF Quiet
  <2> QED  BY <1>9, <2>2, <2>3
<1>10. ASSUME Quiet PROVE OnlyOwnInFlight'
  <2>1. ASSUME NEW f \in Feeder, Inference!PutEndPartition(f) PROVE OnlyOwnInFlight'
    BY <1>4, <1>10, <2>1 DEF Quiet
  <2> QED  BY <1>2, <1>6, <1>7, <1>8, <1>9, <1>10, <2>1
           DEF Inference!Next, Inference!Infer, Inference!Consume
<1> QED  BY <1>1, <1>3, <1>5, <1>10

-----------------------------------------------------------------------------
\* The inductive invariant holds throughout.
LEMMA InferenceInvariant ==
    ASSUME EndPartition \notin Item
    PROVE  Inference!Spec => [](InferenceIInv /\ Inference!PipelineInOrder /\ AloneInv)
<1>1. InferenceIInv /\ Inference!PipelineInOrder /\ AloneInv /\ [Inference!Next]_Inference!vars
        => (InferenceIInv /\ Inference!PipelineInOrder /\ AloneInv)'
  BY InferenceStep, PipelineStep, AloneStep
<1> QED  BY InferenceInit, <1>1, PTL DEF Inference!Spec

\* The inference feed's queues, marks, batches and results are always of their
\* types, for any number of tasks and items.
THEOREM InferenceTypeCorrect ==
    ASSUME EndPartition \notin Item
    PROVE  Inference!Spec => []Inference!TypeOK
BY InferenceInvariant, PTL DEF InferenceIInv

\* Items go through the queues and the process in the order in which they were
\* put, and none is lost or duplicated, however many tasks feed at a time, fail
\* and are retried (TFSparkNode.inference, DataFeed.next_batch, batch_results).
THEOREM InferenceKeepsOrder ==
    ASSUME EndPartition \notin Item
    PROVE  Inference!Spec => []Inference!PipelineInOrder
BY InferenceInvariant, PTL

\* Tasks that run one at a time and do not fail return the results of their own
\* items, in order, and leave no result for the next one.
THEOREM InferenceReturnsOwnResults ==
    ASSUME EndPartition \notin Item
    PROVE  Inference!Spec => []Inference!OwnResultsIfAlone
<1>1. InferenceIInv /\ AloneInv => Inference!OwnResultsIfAlone
  <2> SUFFICES ASSUME InferenceIInv, OnlyOwnInFlight, alone PROVE Inference!OwnResultsIfAlone
    BY DEF AloneInv, Inference!OwnResultsIfAlone
  <2>1. Inference!ResultsMatchPartition
    BY DEF OnlyOwnInFlight, FirstItems, Inference!ResultsMatchPartition
  <2>2. ASSUME Inference!ActiveFeeders = {} PROVE output = << >> /\ batch = << >>
    <3> PICK u : u = Inference!Items(hand \o input)
      OBVIOUS
    <3>1. output \in Seq(Item) /\ batch \in Seq(Item) /\ u \in Seq(Item)
      BY FlightFacts DEF InferenceIInv
    <3>2. output \o batch \in Seq(Item) /\ (output \o batch) \o u = << >>
      BY <2>2, <3>1, ConcatProperties DEF OnlyOwnInFlight, InFlight
    <3>3. output \o batch = << >>
      BY <3>1, <3>2, ConcatEqualIffEmpty
    <3> QED  BY <3>1, <3>3, ConcatEqualIffEmpty
  <2> QED  BY <2>1, <2>2 DEF Inference!OwnResultsIfAlone
<1> QED  BY InferenceInvariant, <1>1, PTL

=============================================================================
