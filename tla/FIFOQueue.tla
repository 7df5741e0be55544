------------------------------ MODULE FIFOQueue ------------------------------
(***************************************************************************)
(* The FIFO queue of the runtime, shared by the steps of a session: the    *)
(* attempts to enqueue and to dequeue that wait in QueueBase, the flush    *)
(* that runs them, closing, and the CancellationManager of every step that *)
(* has attempts in the queue.                                              *)
(*                                                                         *)
(* A thread is either the one that runs a queue op or the one that cancels *)
(* a step.  It holds mu_ while it flushes; done callbacks and              *)
(* DeregisterCallback are called after mu_ is released.                    *)
(***************************************************************************)
EXTENDS Integers, Sequences, SequencesExt, FiniteSets

CONSTANTS
  Ops,        \* the queue ops that are run, each once
  Steps,      \* the steps they belong to
  Programs,   \* what the ops may be: functions from Ops to calls
  Capacity    \* capacity_, a positive number of elements

Kinds == {"EnqueueMany", "DequeueMany", "DequeueUpTo", "Close", "CloseAndCancel"}

None == "none"
Threads == Ops \cup Steps

\* A call of an op: its kind, the number of elements (0 for a close) and its step.
Calls == [kind : Kinds, n : Nat, step : Steps]

ASSUME ProgramsAssumption == Programs \subseteq [Ops -> Calls]
ASSUME CapacityAssumption == Capacity \in Nat \ {0}
ASSUME ThreadsAssumption == Ops \cap Steps = {} /\ None \notin Threads

VARIABLES
  program,            \* program[o]: the call made by op o
  queue,              \* queues_: the elements, an element is <<op, index>>
  closed_,
  enqueue_attempts_,
  dequeue_attempts_,
  mu,                 \* the thread that holds mu_ in FlushUnlocked, or None
  thread,             \* thread[t]: where thread t is
  manager,            \* manager[s]: the CancellationManager of step s
  status,             \* status[o]: status of the context of o
  answers,            \* answers[o]: how often the done callback of o was called
  result,             \* result[o]: the elements passed to that callback
  entered             \* history: the elements in the order they were enqueued

attemptVars == <<queue, closed_, enqueue_attempts_, dequeue_attempts_>>
answerVars  == <<answers, result>>
vars == <<program, attemptVars, mu, thread, manager, status, answerVars, entered>>

StepOf(o) == program[o].step
IsDequeue(o) == program[o].kind \in {"DequeueMany", "DequeueUpTo"}
IsClose(o) == program[o].kind \in {"Close", "CloseAndCancel"}

\* A new Attempt: elements_requested, the tuple gathered so far, is_cancelled.
Attempt(o, n) ==
  [op |-> o, left |-> n, tuple |-> << >>, cancelled |-> FALSE]

IdleThread == [pc |-> "idle", todo |-> << >>, pass |-> "enqueue", changed |-> FALSE]

Init ==
  /\ program \in Programs
  /\ queue = << >> /\ closed_ = FALSE
  /\ enqueue_attempts_ = << >> /\ dequeue_attempts_ = << >>
  /\ mu = None
  /\ thread = [t \in Threads |-> IdleThread]
  /\ manager = [s \in Steps |-> [state |-> "active", callbacks |-> {}]]
  /\ status = [o \in Ops |-> "OK"]
  /\ answers = [o \in Ops |-> 0]
  /\ result = [o \in Ops |-> << >>]
  /\ entered = << >>

\* OpKernelContext::SetStatus keeps the first error.
Updated(o, error) == [status EXCEPT ![o] = IF @ = "OK" THEN error ELSE @]

-----------------------------------------------------------------------------
(* The ops.  RegisterCallback and the insertion of the attempt are one     *)
(* critical section of mu_.                                                *)

NotStarted(o) == thread[o].pc = "idle" /\ answers[o] = 0

\* cm->RegisterCallback returned false: the op is answered at once.
AlreadyCancelled(o) ==
  /\ manager[StepOf(o)].state # "active"
  /\ status' = Updated(o, "Cancelled")
  /\ answers' = [answers EXCEPT ![o] = @ + 1]
  /\ thread' = [thread EXCEPT ![o].pc = "exit"]
  /\ UNCHANGED <<program, attemptVars, mu, manager, result, entered>>

\* The callback is registered; the caller inserts the attempt, then flushes.
Registered(o) ==
  /\ manager[StepOf(o)].state = "active"
  /\ manager' = [manager EXCEPT ![StepOf(o)].callbacks = @ \cup {o}]
  /\ thread' = [thread EXCEPT ![o].pc = "flush"]
  /\ UNCHANGED <<program, queue, closed_, mu, status, answerVars, entered>>

\* TryEnqueue is the case of one element; a batch of none is answered at once.
TryEnqueueMany(o) ==
  /\ program[o].kind = "EnqueueMany" /\ NotStarted(o) /\ mu = None
  /\ program[o].n > 0
  /\ \/ AlreadyCancelled(o)
     \/ /\ Registered(o)
        /\ enqueue_attempts_' = Append(enqueue_attempts_, Attempt(o, program[o].n))
        /\ UNCHANGED dequeue_attempts_

\* TryDequeue is the case of one element; DequeueUpTo allows small batches.
TryDequeueMany(o) ==
  /\ IsDequeue(o) /\ NotStarted(o) /\ mu = None
  /\ program[o].n > 0
  /\ \/ AlreadyCancelled(o)
     \/ /\ Registered(o)
        /\ dequeue_attempts_' = Append(dequeue_attempts_, Attempt(o, program[o].n))
        /\ UNCHANGED enqueue_attempts_

EmptyBatch(o) ==
  /\ ~IsClose(o) /\ program[o].n = 0 /\ NotStarted(o)
  /\ answers' = [answers EXCEPT ![o] = @ + 1]
  /\ thread' = [thread EXCEPT ![o].pc = "exit"]
  /\ UNCHANGED <<program, attemptVars, mu, manager, status, result, entered>>

\* Close without cancelling waits behind the enqueues that are pending.
Close(o) ==
  /\ program[o].kind = "Close" /\ NotStarted(o) /\ mu = None
  /\ enqueue_attempts_' = Append(enqueue_attempts_, Attempt(o, 0))
  /\ thread' = [thread EXCEPT ![o].pc = "flush"]
  /\ UNCHANGED <<program, queue, closed_, dequeue_attempts_, mu, manager, status,
                 answerVars, entered>>

\* Faulty: attempts that were cancelled before are answered again.
LiveOpsAndCancelled(attempts) == [i \in DOMAIN attempts |-> attempts[i].op]

\* The ops of the attempts that are not cancelled, in order.
LiveOps(attempts) ==
  LET live == {i \in DOMAIN attempts : ~attempts[i].cancelled}
      n == Cardinality(live)
      at == CHOOSE f \in [1..n -> live] : \A i, j \in 1..n : i < j => f[i] < f[j]
  IN  [i \in 1..n |-> attempts[at[i]].op]

MarkCancelled(attempts, ops) ==
  [i \in DOMAIN attempts |->
     [attempts[i] EXCEPT !.cancelled = @ \/ attempts[i].op \in ops]]

\* Faulty: Cancel and CloseAndCancel do not flush after their callbacks.
AfterCallbacksNoFlush(rest, next) == IF rest = << >> THEN "cleanup" ELSE "callbacks"

\* Where a thread goes on when it has called the callbacks of cancelled attempts.
AfterCallbacks(rest, next) == IF rest = << >> THEN next ELSE "callbacks"

CloseAndCancel(o) ==
  /\ program[o].kind = "CloseAndCancel" /\ NotStarted(o) /\ mu = None
  /\ LET live == LiveOps(enqueue_attempts_)
     IN  /\ enqueue_attempts_' = MarkCancelled(enqueue_attempts_, ToSet(live))
         /\ status' = [p \in Ops |-> IF p \in ToSet(live)
                                       THEN Updated(p, "Cancelled")[p] ELSE status[p]]
         /\ thread' = [thread EXCEPT ![o].todo = live,
                         ![o].pc = AfterCallbacks(live, "flush")]
  /\ closed_' = TRUE
  /\ UNCHANGED <<program, queue, dequeue_attempts_, mu, manager, answerVars, entered>>

-----------------------------------------------------------------------------
(* Cancelling a step: StartCancel takes the callbacks and runs them one by *)
(* one, in any order (they are in a hash map), without the manager's lock. *)

StartCancel(s) ==
  /\ manager[s].state = "active"
  /\ manager' = [manager EXCEPT ![s].state = "cancelling"]
  /\ UNCHANGED <<program, attemptVars, mu, thread, status, answerVars, entered>>

\* Faulty: the dequeue ops register a callback that looks among the enqueues.
CancellableEnqueues == enqueue_attempts_

\* The attempts that a cancellation callback may find: an op looks where it waits.
Cancellable == enqueue_attempts_ \o dequeue_attempts_

\* QueueBase::Cancel under mu_: an attempt that is gone is left alone.
Cancel(s, o) ==
  /\ manager[s].state = "cancelling" /\ thread[s].pc = "idle"
  /\ o \in manager[s].callbacks /\ mu = None
  /\ manager' = [manager EXCEPT ![s].callbacks = @ \ {o}]
  /\ LET live == ToSet(LiveOps(Cancellable)) \cap {o}
     IN  /\ enqueue_attempts_' = MarkCancelled(enqueue_attempts_, live)
         /\ dequeue_attempts_' = MarkCancelled(dequeue_attempts_, live)
         /\ status' = IF live = {} THEN status ELSE Updated(o, "Cancelled")
         /\ thread' = IF live = {} THEN thread
                      ELSE [thread EXCEPT ![s].pc = "callbacks", ![s].todo = <<o>>]
  /\ UNCHANGED <<program, queue, closed_, mu, answerVars, entered>>

\* cancelled_notification_ is notified.
EndCancel(s) ==
  /\ manager[s].state = "cancelling" /\ thread[s].pc = "idle"
  /\ manager[s].callbacks = {}
  /\ manager' = [manager EXCEPT ![s].state = "cancelled"]
  /\ UNCHANGED <<program, attemptVars, mu, thread, status, answerVars, entered>>

\* The callbacks of cancelled attempts are called outside mu_, then the flush.
RunCallback(t) ==
  /\ thread[t].pc = "callbacks"
  /\ answers' = [answers EXCEPT ![Head(thread[t].todo)] = @ + 1]
  /\ thread' = [thread EXCEPT ![t].todo = Tail(@),
                  ![t].pc = AfterCallbacks(Tail(thread[t].todo), "flush")]
  /\ UNCHANGED <<program, attemptVars, mu, manager, status, result, entered>>

-----------------------------------------------------------------------------
(* FlushUnlocked: passes over both attempt queues until nothing changes.   *)

BeginFlush(t) ==
  /\ thread[t].pc = "flush" /\ mu = None
  /\ mu' = t
  /\ thread' = [thread EXCEPT ![t] = [pc |-> "locked", todo |-> << >>,
                                      pass |-> "enqueue", changed |-> FALSE]]
  /\ UNCHANGED <<program, attemptVars, manager, status, answerVars, entered>>

InPass(t, p) == mu = t /\ thread[t].pc = "locked" /\ thread[t].pass = p

\* What a run_callback returned: kComplete puts the op into clean_up, kProgress
\* and kNoProgress end the pass.
Complete(t, o) ==
  thread' = [thread EXCEPT ![t].changed = TRUE, ![t].todo = Append(@, o)]

PassDone(t, progress) ==
  thread' = [thread EXCEPT ![t].changed = @ \/ progress,
               ![t].pass = IF @ = "enqueue" THEN "dequeue" ELSE "end"]

\* The attempts of a pass are used up.
NoAttempt(t) ==
  /\ \/ InPass(t, "enqueue") /\ enqueue_attempts_ = << >>
     \/ InPass(t, "dequeue") /\ dequeue_attempts_ = << >>
  /\ PassDone(t, FALSE)
  /\ UNCHANGED <<program, attemptVars, mu, manager, status, answerVars, entered>>

SkipCancelledEnqueue(t) ==
  /\ InPass(t, "enqueue") /\ enqueue_attempts_ # << >>
  /\ Head(enqueue_attempts_).cancelled
  /\ enqueue_attempts_' = Tail(enqueue_attempts_)
  /\ UNCHANGED <<program, queue, closed_, dequeue_attempts_, mu, thread, manager,
                 status, answerVars, entered>>

SkipCancelledDequeue(t) ==
  /\ InPass(t, "dequeue") /\ dequeue_attempts_ # << >>
  /\ Head(dequeue_attempts_).cancelled
  /\ dequeue_attempts_' = Tail(dequeue_attempts_)
  /\ UNCHANGED <<program, queue, closed_, enqueue_attempts_, mu, thread, manager,
                 status, answerVars, entered>>

\* The run_callback of Close.
RunClose(t) ==
  /\ InPass(t, "enqueue") /\ enqueue_attempts_ # << >>
  /\ LET a == Head(enqueue_attempts_)
     IN  /\ ~a.cancelled /\ IsClose(a.op)
         /\ status' = IF closed_ THEN Updated(a.op, "Cancelled") ELSE status
         /\ Complete(t, a.op)
  /\ closed_' = TRUE
  /\ enqueue_attempts_' = Tail(enqueue_attempts_)
  /\ UNCHANGED <<program, queue, dequeue_attempts_, mu, manager, answerVars, entered>>

\* The elements index, index + 1, ... that the attempt may enqueue now.
EnqueuedNow(a, room) ==
  LET first == program[a.op].n - a.left
  IN  [i \in 1..(IF room < a.left THEN room ELSE a.left) |-> <<a.op, first + i>>]

Room == Capacity - Len(queue)

RunEnqueue(t) ==
  /\ InPass(t, "enqueue") /\ enqueue_attempts_ # << >>
  /\ LET a == Head(enqueue_attempts_)
         now == IF closed_ THEN << >> ELSE EnqueuedNow(a, Room)
         complete == closed_ \/ Len(now) = a.left
     IN  /\ ~a.cancelled /\ ~IsClose(a.op)
         /\ status' = IF closed_ THEN Updated(a.op, "Cancelled") ELSE status
         /\ queue' = queue \o now
         /\ entered' = entered \o now
         /\ IF complete THEN Complete(t, a.op) ELSE PassDone(t, now # << >>)
         /\ enqueue_attempts_' =
              IF complete THEN Tail(enqueue_attempts_)
              ELSE [enqueue_attempts_ EXCEPT ![1].left = @ - Len(now)]
  /\ UNCHANGED <<program, closed_, dequeue_attempts_, mu, manager, answerVars>>

\* A dequeue takes what is there until it has all it asked for.
RunDequeueOpen(t, a) ==
  LET k == IF Len(queue) < a.left THEN Len(queue) ELSE a.left
      tuple == a.tuple \o SubSeq(queue, 1, k)
  IN  /\ queue' = SubSeq(queue, k + 1, Len(queue))
      /\ status' = status
      /\ IF k = a.left
           THEN /\ Complete(t, a.op)
                /\ result' = [result EXCEPT ![a.op] = tuple]
                /\ dequeue_attempts_' = Tail(dequeue_attempts_)
           ELSE /\ PassDone(t, k > 0)
                /\ dequeue_attempts_' =
                     [dequeue_attempts_ EXCEPT ![1].left = @ - k, ![1].tuple = tuple]
                /\ UNCHANGED result

\* Faulty: they are put back at the wrong end.
RestoredAtEnd(a) == queue \o a.tuple

\* The elements of a partial batch go back to the front of the queue.
Restored(a) == a.tuple \o queue

\* The queue is closed and has too few elements: a small batch is what is left;
\* otherwise the attempt yields to pending enqueues or fails.
RunDequeueClosed(t, a) ==
  LET small == program[a.op].kind = "DequeueUpTo"
      yields == small /\ Restored(a) = << >> /\ enqueue_attempts_ # << >>
      some == small /\ Restored(a) # << >>
  IN  /\ queue' = IF some THEN << >> ELSE Restored(a)
      /\ result' = IF some THEN [result EXCEPT ![a.op] = Restored(a)] ELSE result
      /\ status' = IF some \/ yields THEN status ELSE Updated(a.op, "OutOfRange")
      /\ IF yields THEN PassDone(t, TRUE) ELSE Complete(t, a.op)
      /\ dequeue_attempts_' = IF yields THEN dequeue_attempts_ ELSE Tail(dequeue_attempts_)

RunDequeue(t) ==
  /\ InPass(t, "dequeue") /\ dequeue_attempts_ # << >>
  /\ LET a == Head(dequeue_attempts_)
     IN  /\ ~a.cancelled
         /\ IF closed_ /\ Len(queue) < a.left
              THEN RunDequeueClosed(t, a) ELSE RunDequeueOpen(t, a)
  /\ UNCHANGED <<program, closed_, enqueue_attempts_, mu, manager, answers, entered>>

\* The end of the two passes: again if something changed, else mu_ is released.
EndRound(t) ==
  /\ InPass(t, "end")
  /\ IF thread[t].changed
       THEN /\ thread' = [thread EXCEPT ![t].pass = "enqueue", ![t].changed = FALSE]
            /\ mu' = mu
       ELSE /\ thread' = [thread EXCEPT ![t].pc = "cleanup"]
            /\ mu' = None
  /\ UNCHANGED <<program, attemptVars, manager, status, answerVars, entered>>

\* DeregisterCallback, which waits while the step of the op is being cancelled,
\* then the op's done callback.  A Close has no token to deregister.
CleanUp(t) ==
  /\ thread[t].pc = "cleanup" /\ thread[t].todo # << >>
  /\ LET o == Head(thread[t].todo)
     IN  /\ IsClose(o) \/ manager[StepOf(o)].state # "cancelling"
         /\ manager' = IF IsClose(o) THEN manager
                       ELSE [manager EXCEPT ![StepOf(o)].callbacks = @ \ {o}]
         /\ answers' = [answers EXCEPT ![o] = @ + 1]
  /\ thread' = [thread EXCEPT ![t].todo = Tail(@)]
  /\ UNCHANGED <<program, attemptVars, mu, status, result, entered>>

\* The thread is done; a CloseAndCancel calls its own callback now, a cancelling
\* thread goes on with the next callback of its step.
CleanUpDone(t) ==
  /\ thread[t].pc = "cleanup" /\ thread[t].todo = << >>
  /\ thread' = [thread EXCEPT ![t].pc = IF t \in Steps THEN "idle" ELSE "exit"]
  /\ answers' = IF t \in Ops /\ program[t].kind = "CloseAndCancel"
                  THEN [answers EXCEPT ![t] = @ + 1] ELSE answers
  /\ UNCHANGED <<program, attemptVars, mu, manager, status, result, entered>>

-----------------------------------------------------------------------------
Call(o) ==
  \/ TryEnqueueMany(o) \/ TryDequeueMany(o) \/ EmptyBatch(o)
  \/ Close(o) \/ CloseAndCancel(o)

\* What a thread does by itself once it runs.
Run(t) ==
  \/ RunCallback(t) \/ BeginFlush(t) \/ NoAttempt(t)
  \/ SkipCancelledEnqueue(t) \/ SkipCancelledDequeue(t)
  \/ RunClose(t) \/ RunEnqueue(t) \/ RunDequeue(t) \/ EndRound(t)
  \/ CleanUp(t) \/ CleanUpDone(t)

Cancelling(s) == EndCancel(s) \/ \E o \in Ops : Cancel(s, o)

Next ==
  \/ \E o \in Ops : Call(o)
  \/ \E s \in Steps : StartCancel(s) \/ Cancelling(s)
  \/ \E t \in Threads : Run(t)

Working == (\E t \in Threads : Run(t)) \/ (\E s \in Steps : Cancelling(s))

\* As long as a thread can go on, one does; no op is bound to be called and no step
\* to be cancelled.  All that threads do comes to an end, so each has its turn.
Spec == Init /\ [][Next]_vars /\ WF_vars(Working)

-----------------------------------------------------------------------------
(* Properties                                                              *)

Element == {e \in Ops \X Nat : ~IsDequeue(e[1]) /\ e[2] \in 1..program[e[1]].n}

AttemptType ==
  [op : Ops, left : Nat, tuple : Seq(Element), cancelled : BOOLEAN]

TypeOK ==
  /\ program \in Programs
  /\ queue \in Seq(Element) /\ entered \in Seq(Element)
  /\ closed_ \in BOOLEAN
  /\ enqueue_attempts_ \in Seq(AttemptType)
  /\ dequeue_attempts_ \in Seq(AttemptType)
  /\ mu \in Threads \cup {None}
  /\ thread \in [Threads -> [pc : {"idle", "callbacks", "flush", "locked", "cleanup", "exit"},
                             todo : Seq(Ops), pass : {"enqueue", "dequeue", "end"},
                             changed : BOOLEAN]]
  /\ manager \in [Steps -> [state : {"active", "cancelling", "cancelled"},
                            callbacks : SUBSET Ops]]
  /\ status \in [Ops -> {"OK", "Cancelled", "OutOfRange"}]
  /\ answers \in [Ops -> Nat]
  /\ result \in [Ops -> Seq(Element)]

\* FlushUnlocked, Cancel and CloseAndCancel race for the done callback of an
\* attempt, and it is called once: never again by the one that comes second.
AnsweredOnce == \A o \in Ops : answers[o] <= 1

\* The places where elements are, oldest first: batches handed over to dequeue
\* ops, then the one that is being gathered, then the queue.
Held == FlattenSeq([i \in DOMAIN dequeue_attempts_ |-> dequeue_attempts_[i].tuple])

Handed == {o \in Ops : result[o] # << >>}

Positions(s) == {i \in DOMAIN entered : entered[i] \in ToSet(s)}

\* A batch that a dequeue op returns is a run of elements that were enqueued one
\* after the other, whatever was restored, cancelled or taken by others meanwhile;
\* no element is returned twice, and what is held or in the queue is younger than
\* all that was returned.
BatchesInOrder ==
  /\ \A o \in Handed : \E i \in 1..(Len(entered) - Len(result[o]) + 1) :
       result[o] = SubSeq(entered, i, i + Len(result[o]) - 1)
  /\ \A o, p \in Handed : o # p => ToSet(result[o]) \cap ToSet(result[p]) = {}
  /\ IsSuffix(Held \o queue, entered)
  /\ \A o \in Handed : \A i \in Positions(result[o]), j \in Positions(Held \o queue) : i < j

CancelledBatch(o) == IsDequeue(o) /\ status[o] = "Cancelled"

\* An element that was let in is in the queue, in a batch being gathered or in one
\* handed over, as long as no dequeue was cancelled; only those of a cancelled
\* batch are lost.
NothingLostUnlessCancelled ==
  (\A o \in Ops : ~CancelledBatch(o)) =>
     Len(entered) = Len(queue) + Len(Held)
       + Cardinality(UNION {ToSet(result[o]) : o \in Ops})

\* The queue holds at most capacity_ elements while it is open; what is restored
\* when it is closed may exceed that.
WithinCapacityWhileOpen == closed_ \/ Len(queue) <= Capacity

\* A dequeue that succeeds has all it asked for; only DequeueUpTo on a closed queue
\* may return fewer, and never none.
FullBatch ==
  \A o \in Ops : (IsDequeue(o) /\ program[o].n > 0 /\ answers[o] = 1 /\ status[o] = "OK") =>
     \/ Len(result[o]) = program[o].n
     \/ program[o].kind = "DequeueUpTo" /\ closed_ /\ Len(result[o]) \in 1..program[o].n

\* What comes out of the queue is what went in: in order, in full batches, nothing lost
\* and nothing kept beyond the capacity, however enqueues, dequeues, closes and
\* cancellations are interleaved.
ElementsInOrder ==
  /\ TypeOK
  /\ BatchesInOrder
  /\ NothingLostUnlessCancelled
  /\ WithinCapacityWhileOpen
  /\ FullBatch

Flushing == \E t \in Threads : thread[t].pc \in {"callbacks", "flush", "locked"}

Waiting(attempts) == attempts # << >>

\* When no thread is about to flush, nobody waits for what is already there: every
\* enqueue that waits finds the queue full and open, every dequeue finds it open
\* and empty.  No wake-up is lost between registering an attempt, cancelling it
\* and closing the queue.
NobodyOverlooked ==
  ~Flushing =>
    /\ Waiting(enqueue_attempts_) => ~closed_ /\ Len(queue) >= Capacity
    /\ Waiting(dequeue_attempts_) => ~closed_ /\ queue = << >>

\* When the dequeue pass of a closed queue begins no enqueue attempt is left: a
\* DequeueUpTo that "yields and waits" for them would make FlushUnlocked loop while
\* it holds mu_.
ClosedQueueNeverYields ==
  \A t \in Threads : (InPass(t, "dequeue") /\ closed_) => enqueue_attempts_ = << >>

\* FlushUnlocked leaves nobody behind that could go on, and does not go round in
\* circles while it holds mu_.
FlushIsThorough == NobodyOverlooked /\ ClosedQueueNeverYields

\* The steps whose cancelling thread waits for the end of the cancellation of s.
WaitsFor(s, u) ==
  /\ thread[s].pc = "cleanup" /\ thread[s].todo # << >>
  /\ ~IsClose(Head(thread[s].todo)) /\ StepOf(Head(thread[s].todo)) = u
  /\ manager[u].state = "cancelling"

\* Cancelling threads that wait for each other, or one for itself.
CancelCycle ==
  \E S \in SUBSET Steps : S # {} /\ \A s \in S : \E u \in S : WaitsFor(s, u)

Pending(o) ==
  \E a \in ToSet(enqueue_attempts_) \cup ToSet(dequeue_attempts_) : a.op = o

\* Once the queue is closed or their step is cancelled, the ops that wait are
\* answered, unless cancelling threads wait for each other.  A Close that waits
\* behind enqueues has no cancellation callback: only the queue releases it.
WaitersReleased ==
  \A o \in Ops :
    (Pending(o) /\ (closed_ \/ (~IsClose(o) /\ manager[StepOf(o)].state # "active")))
      ~> (answers[o] = 1 \/ CancelCycle)

\* A cancellation callback "does not invoke any method on this cancellation
\* manager" (cancellation.h): the thread that runs the callbacks of a step does not
\* come to DeregisterCallback of that step, where it would wait for itself.
CallbackLeavesManagerAlone == \A s \in Steps : ~WaitsFor(s, s)
=============================================================================
