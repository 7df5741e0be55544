-------------------------- MODULE FIFOQueueProofs --------------------------
(***************************************************************************)
(* Proofs about the FIFO queue, for any ops, steps, programs and capacity. *)
(*                                                                         *)
(* An op is answered once because the right to answer it has one place at  *)
(* a time: an attempt that is not cancelled, or the list of one thread     *)
(* that took it from there.  Nobody is overlooked because an attempt that  *)
(* could go on changes the round of the flush that meets it, and because   *)
(* whoever changes queue or attempts is about to flush.                    *)
(* The elements stay in order because each of them has one place: the      *)
(* batches handed over, what the first dequeue has gathered and the queue  *)
(* follow one another in the order of entering (OInv, below).              *)
(***************************************************************************)
EXTENDS FIFOQueue, FiniteSetTheorems, SequenceTheorems, WellFoundedInduction, TLAPS

\* What the attempts are made of, and who holds mu_.
Shape ==
    /\ \A i \in 1..Len(enqueue_attempts_) :
         LET a == enqueue_attempts_[i]
         IN  program[a.op].kind \in {"EnqueueMany", "Close"} /\ a.left <= program[a.op].n
    /\ \A i \in 1..Len(dequeue_attempts_) : IsDequeue(dequeue_attempts_[i].op)
    /\ \A t \in Threads : thread[t].pc = "locked" <=> mu = t
    /\ \A t \in Threads : thread[t].pc = "callbacks" => thread[t].todo # << >>

\* Thread t has the op o in its list.
Has(t, o) == \E i \in 1..Len(thread[t].todo) : thread[t].todo[i] = o

\* The right to answer an op.
Rights ==
    /\ \A i, j \in 1..Len(enqueue_attempts_) :
         enqueue_attempts_[i].op = enqueue_attempts_[j].op => i = j
    /\ \A i, j \in 1..Len(dequeue_attempts_) :
         dequeue_attempts_[i].op = dequeue_attempts_[j].op => i = j
    /\ \A i \in 1..Len(enqueue_attempts_) : ~enqueue_attempts_[i].cancelled =>
         /\ answers[enqueue_attempts_[i].op] = 0
         /\ \A t \in Threads : ~Has(t, enqueue_attempts_[i].op)
    /\ \A i \in 1..Len(dequeue_attempts_) : ~dequeue_attempts_[i].cancelled =>
         /\ answers[dequeue_attempts_[i].op] = 0
         /\ \A t \in Threads : ~Has(t, dequeue_attempts_[i].op)
    /\ \A t \in Threads : \A i \in 1..Len(thread[t].todo) :
         /\ answers[thread[t].todo[i]] = 0
         /\ program[thread[t].todo[i]].kind # "CloseAndCancel"
    /\ \A t, u \in Threads : \A i \in 1..Len(thread[t].todo), j \in 1..Len(thread[u].todo) :
         thread[t].todo[i] = thread[u].todo[j] => t = u /\ i = j
    /\ \A o \in Ops : thread[o].pc = "idle" =>
         /\ \A i \in 1..Len(enqueue_attempts_) : enqueue_attempts_[i].op # o
         /\ \A i \in 1..Len(dequeue_attempts_) : dequeue_attempts_[i].op # o
         /\ \A t \in Threads : ~Has(t, o)
    /\ \A o \in Ops : program[o].kind = "CloseAndCancel" /\ thread[o].pc # "exit" => answers[o] = 0
    /\ AnsweredOnce

EnqueuesBlocked == enqueue_attempts_ # << >> => ~closed_ /\ Len(queue) >= Capacity

DequeuesBlocked == dequeue_attempts_ # << >> => ~closed_ /\ queue = << >>

\* What a flush knows that has changed nothing in its round.
Rounds ==
    /\ \A t \in Threads : thread[t].pc = "locked" =>
         /\ thread[t].pass = "dequeue" =>
              /\ closed_ => enqueue_attempts_ = << >>
              /\ ~thread[t].changed => EnqueuesBlocked
         /\ thread[t].pass = "end" /\ ~thread[t].changed => EnqueuesBlocked /\ DequeuesBlocked
    /\ ~Flushing => EnqueuesBlocked /\ DequeuesBlocked

\* The inductive invariant.
IInv == TypeOK /\ Shape /\ Rights /\ Rounds

-----------------------------------------------------------------------------
(* The members of a finite set of numbers, in order.                       *)

LEMMA NatLeast ==
    ASSUME NEW T, T \subseteq Nat, T # {}
    PROVE  \E x \in T : \A y \in T : x <= y
<1>1. IsWellFoundedOn(OpToRel(<, Nat), Nat)
  BY NatLessThanWellFounded
<1>2. PICK x \in T : \A y \in T : ~ (<<y, x>> \in OpToRel(<, Nat))
  <2>1. \E x \in T : \A y \in T : ~ (<<y, x>> \in OpToRel(<, Nat))
    BY <1>1, WFMin, Zenon
  <2> QED  BY <2>1
<1>3. \A y \in T : ~(y < x)
  BY <1>2 DEF OpToRel
<1> QED  BY <1>3

Increasing(f, n) == \A i, j \in 1..n : i < j => f[i] < f[j]

Listable(T) == \E f \in [1..Cardinality(T) -> T] : Increasing(f, Cardinality(T))

\* By induction on the largest number.
LEMMA Listing == ASSUME NEW n \in Nat, NEW S \in SUBSET (1..n) PROVE Listable(S)
<1> DEFINE Bad == {m \in Nat : \E T \in SUBSET (1..m) : ~Listable(T)}
<1> SUFFICES ASSUME Bad # {} PROVE FALSE
  OBVIOUS
<1>1. PICK m \in Bad : \A k \in Bad : m <= k
  <2>1. Bad \subseteq Nat
    OBVIOUS
  <2> HIDE DEF Bad
  <2> QED  BY <2>1, NatLeast
<1>2. m \in Nat
  OBVIOUS
<1>3. PICK T \in SUBSET (1..m) : ~Listable(T)
  BY <1>1
<1>4. CASE T = {}
  <2>1. Cardinality(T) = 0
    BY <1>4, FS_EmptySet
  <2> DEFINE f == [i \in 1..0 |-> 0]
  <2>2. f \in [1..0 -> T] /\ Increasing(f, 0)
    BY DEF Increasing
  <2> QED  BY <1>3, <2>1, <2>2 DEF Listable
<1>5. CASE T # {} /\ m \notin T
  <2>1. m # 0 /\ m - 1 \in Nat /\ T \in SUBSET (1..(m - 1))
    <3>1. \A x \in T : x \in 1..m /\ x # m
      BY <1>3, <1>5
    <3>2. \A x \in T : x \in 1..(m - 1) /\ m # 0
      BY <1>2, <3>1
    <3>3. m # 0
      BY <1>5, <3>2
    <3>4. m - 1 \in Nat
      BY <1>2, <3>3
    <3> QED  BY <3>2, <3>3, <3>4
  <2>2. m - 1 \in Bad
    BY <1>3, <2>1
  <2>3. m <= m - 1
    BY <1>1, <2>2
  <2> QED  BY <1>2, <2>3
<1>6. CASE m \in T
  <2> DEFINE U == T \ {m}
             c == Cardinality(U)
  <2>1. m # 0 /\ m - 1 \in Nat /\ U \in SUBSET (1..(m - 1))
    BY <1>2, <1>3, <1>6
  <2>2. Listable(U)
    <3> SUFFICES ASSUME ~Listable(U) PROVE FALSE
      OBVIOUS
    <3>1. m - 1 \in Bad
      BY <2>1
    <3>2. m <= m - 1
      BY <1>1, <3>1
    <3> QED  BY <1>2, <3>2
  <2>3. IsFiniteSet(T)
    <3>1. IsFiniteSet(1..m)
      BY <1>2, FS_Interval
    <3> QED  BY <1>3, <3>1, FS_Subset
  <2>4. IsFiniteSet(U) /\ Cardinality(T) = c + 1 /\ c \in Nat
    <3>1. IsFiniteSet(U) /\ c = Cardinality(T) - 1
      BY <1>6, <2>3, FS_RemoveElement
    <3>2. Cardinality(T) \in Nat /\ c \in Nat
      BY <2>3, <3>1, FS_CardinalityType
    <3> QED  BY <3>1, <3>2
  <2> HIDE DEF c
  <2>5. PICK g \in [1..c -> U] : Increasing(g, c)
    BY <2>2 DEF Listable, c
  <2> DEFINE f == [i \in 1..(c + 1) |-> IF i <= c THEN g[i] ELSE m]
  <2>6. /\ \A i \in 1..(c + 1) : i \in 1..c \/ i = c + 1
        /\ \A i \in 1..c : i \in 1..(c + 1) /\ f[i] = g[i] /\ g[i] \in T /\ g[i] \in 1..(m - 1)
        /\ f[c + 1] = m
    <3>1. \A i \in 1..c : g[i] \in T /\ g[i] \in 1..(m - 1)
      BY <2>1
    <3> QED  BY <2>4, <3>1
  <2>7. f \in [1..(c + 1) -> T]
    BY <1>6, <2>6
  <2>8. ASSUME NEW i \in 1..(c + 1), NEW j \in 1..(c + 1), i < j PROVE f[i] < f[j]
    <3> HIDE DEF f
    <3>1. i \in 1..c
      BY <2>4, <2>8
    <3>2. CASE j \in 1..c
      BY <2>5, <2>6, <2>8, <3>1, <3>2 DEF Increasing
    <3>3. CASE j = c + 1
      <4>1. f[i] \in 1..(m - 1) /\ f[j] = m
        BY <2>6, <3>1, <3>3
      <4> QED  BY <1>2, <4>1
    <3> QED  BY <2>6, <3>2, <3>3
  <2>9. Increasing(f, c + 1)
    BY <2>8 DEF Increasing
  <2> HIDE DEF f
  <2> QED  BY <1>3, <2>4, <2>7, <2>9 DEF Listable
<1> QED  BY <1>4, <1>5, <1>6

\* LiveOps lists the ops of the attempts that are not cancelled, each once.
LEMMA LiveOpsFacts ==
    ASSUME NEW A \in Seq(AttemptType), \A i, j \in 1..Len(A) : A[i].op = A[j].op => i = j
    PROVE  /\ LiveOps(A) \in Seq(Ops)
           /\ \A k \in 1..Len(LiveOps(A)) : \E i \in 1..Len(A) :
                 ~A[i].cancelled /\ LiveOps(A)[k] = A[i].op
           /\ \A i \in 1..Len(A) : ~A[i].cancelled =>
                 \E k \in 1..Len(LiveOps(A)) : LiveOps(A)[k] = A[i].op
           /\ \A k, l \in 1..Len(LiveOps(A)) : LiveOps(A)[k] = LiveOps(A)[l] => k = l
<1> DEFINE live == {i \in DOMAIN A : ~A[i].cancelled}
           n == Cardinality(live)
           at == CHOOSE f \in [1..n -> live] : \A i, j \in 1..n : i < j => f[i] < f[j]
<1>0. Len(A) \in Nat /\ DOMAIN A = 1..Len(A) /\ \A i \in 1..Len(A) : A[i].op \in Ops
  <2>1. Len(A) \in Nat /\ DOMAIN A = 1..Len(A) /\ \A i \in 1..Len(A) : A[i] \in AttemptType
    OBVIOUS
  <2> QED  BY <2>1 DEF AttemptType
<1>1. live \in SUBSET (1..Len(A)) /\ \A i \in live : ~A[i].cancelled
  BY <1>0
<1>2. \A i \in 1..Len(A) : ~A[i].cancelled => i \in live
  BY <1>0
<1>3. LiveOps(A) = [i \in 1..n |-> A[at[i]].op]
  BY DEF LiveOps
<1> HIDE DEF live
<1>4. IsFiniteSet(live) /\ n \in Nat
  <2>1. IsFiniteSet(1..Len(A))
    BY <1>0, FS_Interval
  <2>2. IsFiniteSet(live)
    BY <1>1, <2>1, FS_Subset
  <2> QED  BY <2>2, FS_CardinalityType
<1>5. \E f \in [1..n -> live] : \A i, j \in 1..n : i < j => f[i] < f[j]
  BY <1>0, <1>1, Listing DEF Listable, Increasing
<1> HIDE DEF n
<1>6. at \in [1..n -> live] /\ \A i, j \in 1..n : i < j => at[i] < at[j]
  BY <1>5
<1> HIDE DEF at
<1>7. \A i, j \in 1..n : at[i] = at[j] => i = j
  <2> SUFFICES ASSUME NEW i \in 1..n, NEW j \in 1..n, i # j PROVE at[i] # at[j]
    OBVIOUS
  <2>0. at[i] \in 1..Len(A) /\ at[j] \in 1..Len(A)
    BY <1>1, <1>6
  <2>1. at[i] \in Nat /\ at[j] \in Nat /\ (i < j \/ j < i)
    BY <1>0, <1>4, <2>0
  <2> QED  BY <1>6, <2>1
<1>8. \A i \in live : \E k \in 1..n : at[k] = i
  <2>1. at \in Injection(1..n, live)
    BY <1>6, <1>7 DEF Injection, IsInjective
  <2>2. Cardinality(1..n) = n /\ IsFiniteSet(1..n)
    BY <1>4, FS_Interval
  <2>3. at \in Surjection(1..n, live)
    BY <1>4, <2>1, <2>2, FS_Injection DEF n
  <2> QED  BY <2>3 DEF Surjection
<1>9. \A k \in 1..n : at[k] \in 1..Len(A) /\ ~A[at[k]].cancelled /\ A[at[k]].op \in Ops
  BY <1>0, <1>1, <1>6
<1>10. /\ LiveOps(A) \in Seq(Ops) /\ Len(LiveOps(A)) = n
       /\ \A k \in 1..n : LiveOps(A)[k] = A[at[k]].op
  BY <1>3, <1>4, <1>9
<1>11. \A k \in 1..Len(LiveOps(A)) : \E i \in 1..Len(A) :
          ~A[i].cancelled /\ LiveOps(A)[k] = A[i].op
  BY <1>9, <1>10
<1>12. \A i \in 1..Len(A) : ~A[i].cancelled =>
          \E k \in 1..Len(LiveOps(A)) : LiveOps(A)[k] = A[i].op
  BY <1>2, <1>8, <1>10
<1>13. \A k, l \in 1..Len(LiveOps(A)) : LiveOps(A)[k] = LiveOps(A)[l] => k = l
  BY <1>7, <1>9, <1>10
<1> QED  BY <1>10, <1>11, <1>12, <1>13

-----------------------------------------------------------------------------
(* What the types say, field by field.                                     *)

ThreadType ==
    [pc : {"idle", "callbacks", "flush", "locked", "cleanup", "exit"},
     todo : Seq(Ops), pass : {"enqueue", "dequeue", "end"}, changed : BOOLEAN]

LEMMA CallFacts ==
    ASSUME TypeOK, NEW o \in Ops
    PROVE  program[o].kind \in Kinds /\ program[o].n \in Nat /\ program[o].step \in Steps
<1>1. program[o] \in Calls
  BY ProgramsAssumption DEF TypeOK
<1> QED  BY <1>1 DEF Calls

LEMMA AttemptFacts ==
    ASSUME NEW A \in Seq(AttemptType)
    PROVE  /\ Len(A) \in Nat /\ DOMAIN A = 1..Len(A)
           /\ \A i \in 1..Len(A) :
                /\ A[i] \in AttemptType
                /\ A[i].op \in Ops /\ A[i].left \in Nat /\ A[i].tuple \in Seq(Element)
                /\ A[i].cancelled \in BOOLEAN
<1>1. Len(A) \in Nat /\ DOMAIN A = 1..Len(A) /\ \A i \in 1..Len(A) : A[i] \in AttemptType
  OBVIOUS
<1> QED  BY <1>1 DEF AttemptType

LEMMA ThreadFacts ==
    ASSUME TypeOK
    PROVE  /\ thread \in [Threads -> ThreadType]
           /\ \A t \in Threads :
                /\ thread[t].pc \in {"idle", "callbacks", "flush", "locked", "cleanup", "exit"}
                /\ thread[t].todo \in Seq(Ops) /\ Len(thread[t].todo) \in Nat
                /\ thread[t].pass \in {"enqueue", "dequeue", "end"}
                /\ thread[t].changed \in BOOLEAN
<1>1. thread \in [Threads -> ThreadType]
  BY DEF TypeOK, ThreadType
<1>2. ASSUME NEW r \in ThreadType
      PROVE  /\ r.pc \in {"idle", "callbacks", "flush", "locked", "cleanup", "exit"}
             /\ r.todo \in Seq(Ops) /\ r.pass \in {"enqueue", "dequeue", "end"}
             /\ r.changed \in BOOLEAN
  BY DEF ThreadType
<1>3. \A t \in Threads : thread[t] \in ThreadType
  BY <1>1
<1> QED  BY <1>1, <1>2, <1>3

LEMMA ManagerFacts ==
    ASSUME TypeOK, NEW s \in Steps
    PROVE  /\ manager[s].state \in {"active", "cancelling", "cancelled"}
           /\ manager[s].callbacks \in SUBSET Ops
BY DEF TypeOK

LEMMA TypeParts ==
    ASSUME TypeOK
    PROVE  /\ program \in Programs
           /\ queue \in Seq(Element) /\ entered \in Seq(Element) /\ closed_ \in BOOLEAN
           /\ enqueue_attempts_ \in Seq(AttemptType) /\ dequeue_attempts_ \in Seq(AttemptType)
           /\ mu \in Threads \cup {None}
           /\ status \in [Ops -> {"OK", "Cancelled", "OutOfRange"}]
           /\ answers \in [Ops -> Nat]
           /\ result \in [Ops -> Seq(Element)]
BY DEF TypeOK

\* As long as program does not change, neither do the types of elements and attempts.
LEMMA SameTypes ==
    ASSUME UNCHANGED program
    PROVE  /\ Element' = Element /\ AttemptType' = AttemptType
           /\ \A o : IsDequeue(o)' = IsDequeue(o) /\ IsClose(o)' = IsClose(o)
BY DEF Element, AttemptType, IsDequeue, IsClose

\* A thread changes.
LEMMA ThreadChange ==
    ASSUME TypeOK, NEW t \in Threads, NEW r \in ThreadType, thread' = [thread EXCEPT ![t] = r]
    PROVE  /\ thread' \in [Threads -> ThreadType]
           /\ thread'[t] = r /\ \A u \in Threads : u # t => thread'[u] = thread[u]
BY ThreadFacts

\* Only a thread changes, and its list does not.
LEMMA QuietRights ==
    ASSUME IInv, NEW t \in Threads, NEW r \in ThreadType, thread' = [thread EXCEPT ![t] = r],
           r.todo = thread[t].todo, r.pc = "idle" => t \notin Ops, thread[t].pc # "exit",
           UNCHANGED <<program, enqueue_attempts_, dequeue_attempts_, answers>>
    PROVE  Rights'
<1>1. thread'[t] = r /\ \A u \in Threads : u # t => thread'[u] = thread[u]
  BY ThreadChange DEF IInv
<1>2. /\ \A u \in Threads : thread'[u].todo = thread[u].todo
      /\ \A o \in Ops : thread'[o].pc = "idle" => thread[o].pc = "idle"
      /\ \A o \in Ops : thread'[o].pc # "exit" => thread[o].pc # "exit"
  BY <1>1 DEF Threads
<1>3. \A u \in Threads : \A o : Has(u, o)' <=> Has(u, o)
  BY <1>2 DEF Has
<1> QED  BY <1>2, <1>3 DEF IInv, Rights, AnsweredOnce

\* The parts of the type invariant put together.
LEMMA TypeAgain ==
    ASSUME UNCHANGED program, program \in Programs,
           queue' \in Seq(Element), entered' \in Seq(Element), closed_' \in BOOLEAN,
           enqueue_attempts_' \in Seq(AttemptType), dequeue_attempts_' \in Seq(AttemptType),
           mu' \in Threads \cup {None}, thread' \in [Threads -> ThreadType],
           manager' \in [Steps -> [state : {"active", "cancelling", "cancelled"},
                                   callbacks : SUBSET Ops]],
           status' \in [Ops -> {"OK", "Cancelled", "OutOfRange"}],
           answers' \in [Ops -> Nat], result' \in [Ops -> Seq(Element)]
    PROVE  TypeOK'
<1>1. Element' = Element /\ AttemptType' = AttemptType
  BY SameTypes
<1> QED  BY <1>1, Zenon DEF TypeOK, ThreadType

-----------------------------------------------------------------------------
(* The ops.                                                                *)

\* An op that has not begun is answered at once.
LEMMA AnsweredAtOnce ==
    ASSUME IInv, NEW o \in Ops, NotStarted(o), program[o].kind # "CloseAndCancel",
           status' \in [Ops -> {"OK", "Cancelled", "OutOfRange"}],
           answers' = [answers EXCEPT ![o] = @ + 1],
           thread' = [thread EXCEPT ![o].pc = "exit"],
           UNCHANGED <<program, attemptVars, mu, manager, result, entered>>
    PROVE  IInv'
<1> USE DEF attemptVars, answerVars
<1>0. TypeOK /\ o \in Threads /\ thread[o].pc = "idle" /\ answers[o] = 0
  BY DEF IInv, Threads, NotStarted
<1> DEFINE r == [thread[o] EXCEPT !.pc = "exit"]
<1>1. /\ r \in ThreadType /\ r.pc = "exit" /\ r.todo = thread[o].todo
      /\ r.pass = thread[o].pass /\ r.changed = thread[o].changed
      /\ thread' = [thread EXCEPT ![o] = r]
  BY <1>0, ThreadFacts DEF ThreadType
<1> HIDE DEF r
<1>2. /\ thread' \in [Threads -> ThreadType] /\ thread'[o] = r
      /\ \A u \in Threads : u # o => thread'[u] = thread[u]
  BY <1>0, <1>1, ThreadChange
<1>3. answers'[o] = 1 /\ answers' \in [Ops -> Nat] /\ \A p \in Ops : p # o => answers'[p] = answers[p]
  BY <1>0, TypeParts
<1>4. TypeOK'
  BY <1>0, <1>2, <1>3, TypeParts, TypeAgain DEF TypeOK
<1>5. Shape'
  BY <1>0, <1>1, <1>2 DEF IInv, Shape, IsDequeue
<1>6. Rights'
  <2>1. \A u \in Threads : thread'[u].todo = thread[u].todo
    BY <1>1, <1>2
  <2>2. \A u \in Threads : \A p : Has(u, p)' <=> Has(u, p)
    BY <2>1 DEF Has
  <2>3. /\ \A i \in 1..Len(enqueue_attempts_) : enqueue_attempts_[i].op \in Ops /\ enqueue_attempts_[i].op # o
        /\ \A i \in 1..Len(dequeue_attempts_) : dequeue_attempts_[i].op \in Ops /\ dequeue_attempts_[i].op # o
        /\ \A u \in Threads : \A i \in 1..Len(thread[u].todo) :
             thread[u].todo[i] \in Ops /\ thread[u].todo[i] # o
    BY <1>0, TypeParts, AttemptFacts, ThreadFacts DEF IInv, Rights, Has
  <2>4. /\ \A i, j \in 1..Len(enqueue_attempts_') :
             enqueue_attempts_'[i].op = enqueue_attempts_'[j].op => i = j
        /\ \A i, j \in 1..Len(dequeue_attempts_') :
             dequeue_attempts_'[i].op = dequeue_attempts_'[j].op => i = j
    BY DEF IInv, Rights
  <2>5. /\ \A i \in 1..Len(enqueue_attempts_) : ~enqueue_attempts_[i].cancelled =>
             /\ answers'[enqueue_attempts_[i].op] = 0
             /\ \A t \in Threads : ~Has(t, enqueue_attempts_[i].op)
        /\ \A i \in 1..Len(dequeue_attempts_) : ~dequeue_attempts_[i].cancelled =>
             /\ answers'[dequeue_attempts_[i].op] = 0
             /\ \A t \in Threads : ~Has(t, dequeue_attempts_[i].op)
    BY <1>3, <2>3 DEF IInv, Rights
  <2>6. \A t \in Threads : \A i \in 1..Len(thread[t].todo) :
             /\ answers'[thread[t].todo[i]] = 0
             /\ program[thread[t].todo[i]].kind # "CloseAndCancel"
    BY <1>3, <2>3 DEF IInv, Rights
  <2>7. \A p \in Ops : thread'[p].pc = "idle" => thread[p].pc = "idle"
    BY <1>1, <1>2 DEF Threads
  <2>8. \A p \in Ops : program[p].kind = "CloseAndCancel" /\ thread'[p].pc # "exit" => answers'[p] = 0
    BY <1>1, <1>2, <1>3 DEF IInv, Rights, Threads
  <2>9. AnsweredOnce'
    BY <1>3 DEF IInv, Rights, AnsweredOnce
  <2> QED  BY <2>1, <2>2, <2>4, <2>5, <2>6, <2>7, <2>8, <2>9 DEF IInv, Rights
<1>7. Rounds'
  <2>1. Flushing' <=> Flushing
    BY <1>0, <1>1, <1>2 DEF Flushing
  <2> QED  BY <1>0, <1>1, <1>2, <2>1 DEF IInv, Rounds, EnqueuesBlocked, DequeuesBlocked
<1> QED  BY <1>4, <1>5, <1>6, <1>7 DEF IInv

\* An op that has not begun waits among the enqueues.
LEMMA NewEnqueue ==
    ASSUME IInv, NEW o \in Ops, NotStarted(o), mu = None, program[o].kind \in {"EnqueueMany", "Close"},
           NEW n \in Nat, n <= program[o].n,
           enqueue_attempts_' = Append(enqueue_attempts_, Attempt(o, n)),
           thread' = [thread EXCEPT ![o].pc = "flush"],
           manager' \in [Steps -> [state : {"active", "cancelling", "cancelled"},
                                   callbacks : SUBSET Ops]],
           UNCHANGED <<program, queue, closed_, dequeue_attempts_, mu, status, answerVars, entered>>
    PROVE  IInv'
<1> USE DEF answerVars
<1>0. TypeOK /\ o \in Threads /\ thread[o].pc = "idle" /\ answers[o] = 0
  BY DEF IInv, Threads, NotStarted
<1> DEFINE r == [thread[o] EXCEPT !.pc = "flush"]
           a == Attempt(o, n)
           E == enqueue_attempts_
<1>1. /\ r \in ThreadType /\ r.pc = "flush" /\ r.todo = thread[o].todo
      /\ thread' = [thread EXCEPT ![o] = r]
  BY <1>0, ThreadFacts DEF ThreadType
<1>2. a \in AttemptType /\ a.op = o /\ a.left = n /\ ~a.cancelled
  BY DEF AttemptType, Attempt
<1> HIDE DEF r, a
<1>3. /\ thread' \in [Threads -> ThreadType] /\ thread'[o] = r
      /\ \A u \in Threads : u # o => thread'[u] = thread[u]
  BY <1>0, <1>1, ThreadChange
<1>4. /\ E \in Seq(AttemptType) /\ E' \in Seq(AttemptType) /\ Len(E) \in Nat
      /\ Len(E') = Len(E) + 1 /\ E'[Len(E) + 1] = a
      /\ \A i \in 1..Len(E) : E'[i] = E[i]
  <2>1. E \in Seq(AttemptType) /\ E' = Append(E, a)
    BY <1>0, TypeParts DEF a
  <2> QED  BY <1>2, <2>1
<1>5. \A i \in 1..Len(E') : i \in 1..Len(E) \/ (i = Len(E) + 1 /\ E'[i] = a)
  BY <1>4
<1> HIDE DEF E
<1>6. TypeOK'
  BY <1>0, <1>3, <1>4, TypeParts, TypeAgain DEF E
<1>7. Shape'
  <2>1. \A i \in 1..Len(E') : program[E'[i].op].kind \in {"EnqueueMany", "Close"} /\ E'[i].left <= program[E'[i].op].n
    <3>1. \A i \in 1..Len(E) : program[E[i].op].kind \in {"EnqueueMany", "Close"} /\ E[i].left <= program[E[i].op].n
      BY DEF IInv, Shape, E, IsDequeue
    <3> QED  BY <1>2, <1>4, <1>5, <3>1 DEF IsDequeue
  <2>2. /\ \A t \in Threads : thread'[t].pc = "locked" <=> mu = t
        /\ \A t \in Threads : thread'[t].pc = "callbacks" => thread'[t].todo # << >>
    BY <1>0, <1>1, <1>3 DEF IInv, Shape
  <2> QED  BY <2>1, <2>2 DEF IInv, Shape, E, IsDequeue
<1>8. Rights'
  <2>1. \A u \in Threads : thread'[u].todo = thread[u].todo
    BY <1>1, <1>3
  <2>2. \A u \in Threads : \A p : Has(u, p)' <=> Has(u, p)
    BY <2>1 DEF Has
  <2>3. /\ \A i \in 1..Len(E) : E[i].op # o
        /\ \A t \in Threads : ~Has(t, o)
    BY <1>0 DEF IInv, Rights, E
  <2>4. \A i, j \in 1..Len(E') : E'[i].op = E'[j].op => i = j
    <3>1. \A i, j \in 1..Len(E) : E[i].op = E[j].op => i = j
      BY DEF IInv, Rights, E
    <3> QED  BY <1>2, <1>4, <1>5, <2>3, <3>1
  <2>5. \A i \in 1..Len(E') : ~E'[i].cancelled =>
          /\ answers[E'[i].op] = 0
          /\ \A t \in Threads : ~Has(t, E'[i].op)
    <3>1. \A i \in 1..Len(E) : ~E[i].cancelled =>
            /\ answers[E[i].op] = 0
            /\ \A t \in Threads : ~Has(t, E[i].op)
      BY DEF IInv, Rights, E
    <3> QED  BY <1>0, <1>2, <1>4, <1>5, <2>3, <3>1
  <2>6. \A p \in Ops : thread'[p].pc = "idle" =>
          /\ thread[p].pc = "idle"
          /\ \A i \in 1..Len(E') : E'[i].op # p
    <3>1. \A p \in Ops : thread'[p].pc = "idle" => thread[p].pc = "idle" /\ p # o
      BY <1>1, <1>3 DEF Threads
    <3>2. \A p \in Ops : thread[p].pc = "idle" => \A i \in 1..Len(E) : E[i].op # p
      BY DEF IInv, Rights, E
    <3> QED  BY <1>2, <1>4, <1>5, <3>1, <3>2
  <2>7. \A p \in Ops : thread'[p].pc # "exit" => thread[p].pc # "exit"
    BY <1>0, <1>1, <1>3 DEF Threads
  <2>8. E' = enqueue_attempts_'
    BY DEF E
  <2> HIDE DEF Has
  <2> QED  BY <2>1, <2>2, <2>4, <2>5, <2>6, <2>7, <2>8, SMTT(30) DEF IInv, Rights, AnsweredOnce
<1>9. Rounds'
  <2>1. Flushing'
    BY <1>0, <1>1, <1>3 DEF Flushing
  <2>2. \A t \in Threads : thread'[t].pc # "locked"
    <3>2. \A t \in Threads : thread[t].pc # "locked"
      BY ThreadsAssumption DEF IInv, Shape
    <3> QED  BY <1>1, <1>3, <3>2
  <2> QED  BY <2>1, <2>2 DEF Rounds
<1> QED  BY <1>6, <1>7, <1>8, <1>9 DEF IInv

\* An op that has not begun waits among the dequeues.
LEMMA NewDequeue ==
    ASSUME IInv, NEW o \in Ops, NotStarted(o), mu = None, IsDequeue(o),
           NEW n \in Nat, n <= program[o].n,
           dequeue_attempts_' = Append(dequeue_attempts_, Attempt(o, n)),
           thread' = [thread EXCEPT ![o].pc = "flush"],
           manager' \in [Steps -> [state : {"active", "cancelling", "cancelled"},
                                   callbacks : SUBSET Ops]],
           UNCHANGED <<program, queue, closed_, enqueue_attempts_, mu, status, answerVars, entered>>
    PROVE  IInv'
<1> USE DEF answerVars
<1>0. TypeOK /\ o \in Threads /\ thread[o].pc = "idle" /\ answers[o] = 0
  BY DEF IInv, Threads, NotStarted
<1> DEFINE r == [thread[o] EXCEPT !.pc = "flush"]
           a == Attempt(o, n)
           E == dequeue_attempts_
<1>1. /\ r \in ThreadType /\ r.pc = "flush" /\ r.todo = thread[o].todo
      /\ thread' = [thread EXCEPT ![o] = r]
  BY <1>0, ThreadFacts DEF ThreadType
<1>2. a \in AttemptType /\ a.op = o /\ a.left = n /\ ~a.cancelled
  BY DEF AttemptType, Attempt
<1> HIDE DEF r, a
<1>3. /\ thread' \in [Threads -> ThreadType] /\ thread'[o] = r
      /\ \A u \in Threads : u # o => thread'[u] = thread[u]
  BY <1>0, <1>1, ThreadChange
<1>4. /\ E \in Seq(AttemptType) /\ E' \in Seq(AttemptType) /\ Len(E) \in Nat
      /\ Len(E') = Len(E) + 1 /\ E'[Len(E) + 1] = a
      /\ \A i \in 1..Len(E) : E'[i] = E[i]
  <2>1. E \in Seq(AttemptType) /\ E' = Append(E, a)
    BY <1>0, TypeParts DEF a
  <2> QED  BY <1>2, <2>1
<1>5. \A i \in 1..Len(E') : i \in 1..Len(E) \/ (i = Len(E) + 1 /\ E'[i] = a)
  BY <1>4
<1> HIDE DEF E
<1>6. TypeOK'
  BY <1>0, <1>3, <1>4, TypeParts, TypeAgain DEF E
<1>7. Shape'
  <2>1. \A i \in 1..Len(E') : IsDequeue(E'[i].op)
    <3>1. \A i \in 1..Len(E) : IsDequeue(E[i].op)
      BY DEF IInv, Shape, E, IsDequeue
    <3> QED  BY <1>2, <1>4, <1>5, <3>1 DEF IsDequeue
  <2>2. /\ \A t \in Threads : thread'[t].pc = "locked" <=> mu = t
        /\ \A t \in Threads : thread'[t].pc = "callbacks" => thread'[t].todo # << >>
    BY <1>0, <1>1, <1>3 DEF IInv, Shape
  <2> QED  BY <2>1, <2>2 DEF IInv, Shape, E, IsDequeue
<1>8. Rights'
  <2>1. \A u \in Threads : thread'[u].todo = thread[u].todo
    BY <1>1, <1>3
  <2>2. \A u \in Threads : \A p : Has(u, p)' <=> Has(u, p)
    BY <2>1 DEF Has
  <2>3. /\ \A i \in 1..Len(E) : E[i].op # o
        /\ \A t \in Threads : ~Has(t, o)
    BY <1>0 DEF IInv, Rights, E
  <2>4. \A i, j \in 1..Len(E') : E'[i].op = E'[j].op => i = j
    <3>1. \A i, j \in 1..Len(E) : E[i].op = E[j].op => i = j
      BY DEF IInv, Rights, E
    <3> QED  BY <1>2, <1>4, <1>5, <2>3, <3>1
  <2>5. \A i \in 1..Len(E') : ~E'[i].cancelled =>
          /\ answers[E'[i].op] = 0
          /\ \A t \in Threads : ~Has(t, E'[i].op)
    <3>1. \A i \in 1..Len(E) : ~E[i].cancelled =>
            /\ answers[E[i].op] = 0
            /\ \A t \in Threads : ~Has(t, E[i].op)
      BY DEF IInv, Rights, E
    <3> QED  BY <1>0, <1>2, <1>4, <1>5, <2>3, <3>1
  <2>6. \A p \in Ops : thread'[p].pc = "idle" =>
          /\ thread[p].pc = "idle"
          /\ \A i \in 1..Len(E') : E'[i].op # p
    <3>1. \A p \in Ops : thread'[p].pc = "idle" => thread[p].pc = "idle" /\ p # o
      BY <1>1, <1>3 DEF Threads
    <3>2. \A p \in Ops : thread[p].pc = "idle" => \A i \in 1..Len(E) : E[i].op # p
      BY DEF IInv, Rights, E
    <3> QED  BY <1>2, <1>4, <1>5, <3>1, <3>2
  <2>7. \A p \in Ops : thread'[p].pc # "exit" => thread[p].pc # "exit"
    BY <1>0, <1>1, <1>3 DEF Threads
  <2>8. E' = dequeue_attempts_'
    BY DEF E
  <2> HIDE DEF Has
  <2> QED  BY <2>1, <2>2, <2>4, <2>5, <2>6, <2>7, <2>8, SMTT(30) DEF IInv, Rights, AnsweredOnce
<1>9. Rounds'
  <2>1. Flushing'
    BY <1>0, <1>1, <1>3 DEF Flushing
  <2>2. \A t \in Threads : thread'[t].pc # "locked"
    <3>2. \A t \in Threads : thread[t].pc # "locked"
      BY ThreadsAssumption DEF IInv, Shape
    <3> QED  BY <1>1, <1>3, <3>2
  <2> QED  BY <2>1, <2>2 DEF Rounds
<1> QED  BY <1>6, <1>7, <1>8, <1>9 DEF IInv

-----------------------------------------------------------------------------
(* The steps of a thread that is running.                                  *)

\* Every attempt of B was one of A, told by f, with the same op; it may have been cancelled
\* and may ask for less.
Derives(B, A, f) ==
    /\ \A i \in 1..Len(B) :
         /\ f[i] \in 1..Len(A) /\ B[i].op = A[f[i]].op /\ B[i].left <= A[f[i]].left
         /\ A[f[i]].cancelled => B[i].cancelled
    /\ \A i, j \in 1..Len(B) : f[i] = f[j] => i = j

LEMMA DerivesItself ==
    ASSUME NEW A \in Seq(AttemptType)
    PROVE  Derives(A, A, [i \in 1..Len(A) |-> i])
<1>1. \A i \in 1..Len(A) : A[i].left \in Nat
  BY AttemptFacts
<1> QED  BY <1>1 DEF Derives

LEMMA DerivesTail ==
    ASSUME NEW A \in Seq(AttemptType), A # << >>
    PROVE  /\ Tail(A) \in Seq(AttemptType) /\ Len(Tail(A)) = Len(A) - 1
           /\ \A i \in 1..Len(Tail(A)) : Tail(A)[i] = A[i + 1] /\ i + 1 \in 1..Len(A)
           /\ Head(A) = A[1] /\ 1 \in 1..Len(A)
           /\ Derives(Tail(A), A, [i \in 1..Len(Tail(A)) |-> i + 1])
<1>1. Len(A) \in Nat /\ Len(A) # 0 /\ Head(A) = A[1]
  OBVIOUS
<1>2. /\ Tail(A) \in Seq(AttemptType) /\ Len(Tail(A)) = Len(A) - 1
      /\ \A i \in 1..Len(Tail(A)) : Tail(A)[i] = A[i + 1]
  OBVIOUS
<1>3. 1 \in 1..Len(A) /\ \A i \in 1..Len(Tail(A)) : i + 1 \in 1..Len(A) /\ i \in Nat
  BY <1>1, <1>2
<1>4. \A i \in 1..Len(A) : A[i].left \in Nat
  BY AttemptFacts
<1>5. Derives(Tail(A), A, [i \in 1..Len(Tail(A)) |-> i + 1])
  <2> DEFINE f == [i \in 1..Len(Tail(A)) |-> i + 1]
  <2>1. \A i \in 1..Len(Tail(A)) : f[i] = i + 1
    OBVIOUS
  <2> HIDE DEF f
  <2>2. \A i \in 1..Len(Tail(A)) :
         /\ f[i] \in 1..Len(A) /\ Tail(A)[i].op = A[f[i]].op /\ Tail(A)[i].left <= A[f[i]].left
         /\ A[f[i]].cancelled => Tail(A)[i].cancelled
    BY <1>2, <1>3, <1>4, <2>1
  <2>3. \A i, j \in 1..Len(Tail(A)) : f[i] = f[j] => i = j
    BY <1>3, <2>1
  <2>4. Derives(Tail(A), A, f)
    BY <2>2, <2>3 DEF Derives
  <2> QED  BY <2>4 DEF f
<1> QED  BY <1>1, <1>2, <1>3, <1>5

LEMMA MarkFacts ==
    ASSUME NEW A \in Seq(AttemptType), NEW S
    PROVE  /\ MarkCancelled(A, S) \in Seq(AttemptType) /\ Len(MarkCancelled(A, S)) = Len(A)
           /\ \A i \in 1..Len(A) :
                /\ MarkCancelled(A, S)[i].op = A[i].op
                /\ MarkCancelled(A, S)[i].cancelled <=> (A[i].cancelled \/ A[i].op \in S)
           /\ Derives(MarkCancelled(A, S), A, [i \in 1..Len(A) |-> i])
<1> DEFINE B == MarkCancelled(A, S)
<1>1. Len(A) \in Nat /\ DOMAIN A = 1..Len(A)
  BY AttemptFacts
<1>2. ASSUME NEW a \in AttemptType, NEW b, b = [a EXCEPT !.cancelled = @ \/ a.op \in S]
      PROVE  /\ b \in AttemptType /\ b.op = a.op /\ b.left = a.left /\ a.left \in Nat
             /\ b.cancelled <=> (a.cancelled \/ a.op \in S)
  <2> DEFINE c == a.cancelled \/ a.op \in S
  <2>1. b = [a EXCEPT !.cancelled = c] /\ c \in BOOLEAN
    BY <1>2, Zenon
  <2> HIDE DEF c
  <2>2. b \in AttemptType /\ b.op = a.op /\ b.left = a.left /\ a.left \in Nat /\ b.cancelled = c
    BY <2>1 DEF AttemptType
  <2> QED  BY <2>2, Zenon DEF c
<1>3. \A i \in 1..Len(A) : A[i] \in AttemptType
  BY AttemptFacts
<1>4. \A i \in 1..Len(A) : B[i] = [A[i] EXCEPT !.cancelled = @ \/ A[i].op \in S]
  BY <1>1 DEF MarkCancelled
<1>5. B = [i \in 1..Len(A) |-> B[i]]
  BY <1>1 DEF MarkCancelled
<1> HIDE DEF B
<1>6. \A i \in 1..Len(A) :
        /\ B[i] \in AttemptType /\ B[i].op = A[i].op /\ B[i].left = A[i].left /\ A[i].left \in Nat
        /\ B[i].cancelled <=> (A[i].cancelled \/ A[i].op \in S)
  <2> TAKE i \in 1..Len(A)
  <2>1. A[i] \in AttemptType
    BY <1>3
  <2> QED  BY <1>2, <1>4, <2>1
<1>7. B \in Seq(AttemptType) /\ Len(B) = Len(A)
  BY <1>1, <1>5, <1>6
<1>8. Derives(B, A, [i \in 1..Len(A) |-> i])
  BY <1>6, <1>7 DEF Derives
<1> QED  BY <1>6, <1>7, <1>8 DEF B

\* An attempt for o waits and is not cancelled.
Live(o) ==
    \/ \E i \in 1..Len(enqueue_attempts_) :
         enqueue_attempts_[i].op = o /\ ~enqueue_attempts_[i].cancelled
    \/ \E i \in 1..Len(dequeue_attempts_) :
         dequeue_attempts_[i].op = o /\ ~dequeue_attempts_[i].cancelled

LEMMA LiveFacts ==
    ASSUME IInv, NEW o, Live(o)
    PROVE  /\ o \in Ops /\ answers[o] = 0 /\ thread[o].pc # "idle"
           /\ program[o].kind # "CloseAndCancel"
           /\ \A t \in Threads : ~Has(t, o)
<1>0. TypeOK
  BY DEF IInv
<1>1. CASE \E i \in 1..Len(enqueue_attempts_) :
             enqueue_attempts_[i].op = o /\ ~enqueue_attempts_[i].cancelled
  <2>1. o \in Ops
    BY <1>0, <1>1, TypeParts, AttemptFacts
  <2> HIDE DEF Has
  <2> QED  BY <1>1, <2>1 DEF IInv, Shape, Rights
<1>2. CASE \E i \in 1..Len(dequeue_attempts_) :
             dequeue_attempts_[i].op = o /\ ~dequeue_attempts_[i].cancelled
  <2>1. o \in Ops
    BY <1>0, <1>2, TypeParts, AttemptFacts
  <2> HIDE DEF Has
  <2> QED  BY <1>2, <2>1 DEF IInv, Shape, Rights, IsDequeue
<1> QED  BY <1>1, <1>2 DEF Live

\* Thread t goes on; what its list gains is taken from the attempts.
LEMMA Handover ==
    ASSUME IInv, NEW t \in Threads, NEW r \in ThreadType, thread' = [thread EXCEPT ![t] = r],
           UNCHANGED <<program, answers>>,
           enqueue_attempts_' \in Seq(AttemptType), dequeue_attempts_' \in Seq(AttemptType),
           NEW f, Derives(enqueue_attempts_', enqueue_attempts_, f),
           NEW g, Derives(dequeue_attempts_', dequeue_attempts_, g),
           \A i \in 1..Len(r.todo) : Has(t, r.todo[i]) \/ Live(r.todo[i]),
           \A i, j \in 1..Len(r.todo) : r.todo[i] = r.todo[j] => i = j,
           \A i \in 1..Len(r.todo) : ~Live(r.todo[i])',
           r.pc = "idle" => t \notin Ops \/ thread[t].pc = "idle",
           r.pc # "exit" => thread[t].pc # "exit",
           r.pc = "callbacks" => r.todo # << >>,
           \/ mu' = mu /\ (r.pc = "locked" <=> thread[t].pc = "locked")
           \/ mu = None /\ mu' = t /\ r.pc = "locked"
           \/ mu = t /\ mu' = None /\ r.pc # "locked"
    PROVE  Shape' /\ Rights'
<1> DEFINE E == enqueue_attempts_
           D == dequeue_attempts_
           Has1(u, o) == \E i \in 1..Len(thread'[u].todo) : thread'[u].todo[i] = o
           Live1(o) == \/ \E i \in 1..Len(E') : E'[i].op = o /\ ~E'[i].cancelled
                       \/ \E i \in 1..Len(D') : D'[i].op = o /\ ~D'[i].cancelled
<1>0. TypeOK /\ E \in Seq(AttemptType) /\ D \in Seq(AttemptType)
  BY TypeParts DEF IInv
<1>1. /\ thread' \in [Threads -> ThreadType] /\ thread'[t] = r
      /\ \A u \in Threads : u # t => thread'[u] = thread[u]
  BY <1>0, ThreadChange
<1>2. \A i \in 1..Len(E') : /\ f[i] \in 1..Len(E) /\ E'[i].op = E[f[i]].op
                            /\ E'[i].left <= E[f[i]].left
                            /\ ~E'[i].cancelled => ~E[f[i]].cancelled
  BY DEF Derives
<1>3. \A i \in 1..Len(D') : /\ g[i] \in 1..Len(D) /\ D'[i].op = D[g[i]].op
                            /\ ~D'[i].cancelled => ~D[g[i]].cancelled
  BY DEF Derives
<1>4. /\ \A i, j \in 1..Len(E') : f[i] = f[j] => i = j
      /\ \A i, j \in 1..Len(D') : g[i] = g[j] => i = j
  BY DEF Derives
<1>5. \A o : Live1(o) => Live(o)
  <2> SUFFICES ASSUME NEW o, Live1(o) PROVE Live(o)
    OBVIOUS
  <2>1. ASSUME NEW i \in 1..Len(E'), E'[i].op = o, ~E'[i].cancelled PROVE Live(o)
    <3>1. f[i] \in 1..Len(E) /\ E[f[i]].op = o /\ ~E[f[i]].cancelled
      BY <1>2, <2>1
    <3> QED  BY <3>1 DEF Live
  <2>2. ASSUME NEW i \in 1..Len(D'), D'[i].op = o, ~D'[i].cancelled PROVE Live(o)
    <3>1. g[i] \in 1..Len(D) /\ D[g[i]].op = o /\ ~D[g[i]].cancelled
      BY <1>3, <2>2
    <3> QED  BY <3>1 DEF Live
  <2> QED  BY <2>1, <2>2
<1>6. \A u \in Threads : \A o : u # t => (Has1(u, o) <=> Has(u, o))
  BY <1>1 DEF Has
<1>7. \A o : Has1(t, o) <=> \E i \in 1..Len(r.todo) : r.todo[i] = o
  BY <1>1 DEF Has
<1>8. \A o : Has1(t, o) => (Has(t, o) \/ Live(o)) /\ ~Live1(o)
  <2>1. \A i \in 1..Len(r.todo) : ~Live1(r.todo[i])
    BY DEF Live
  <2> HIDE DEF Has, Live, Has1, Live1
  <2> QED  BY <1>7, <2>1
<1>9. \A u \in Threads : \A o : Has(u, o) =>
        o \in Ops /\ answers[o] = 0 /\ program[o].kind # "CloseAndCancel" /\ thread[o].pc # "idle"
  <2> SUFFICES ASSUME NEW u \in Threads, NEW o, Has(u, o)
               PROVE  /\ o \in Ops /\ answers[o] = 0 /\ program[o].kind # "CloseAndCancel"
                      /\ thread[o].pc # "idle"
    OBVIOUS
  <2>1. PICK i \in 1..Len(thread[u].todo) : thread[u].todo[i] = o
    BY DEF Has
  <2>2. o \in Ops
    BY <1>0, <2>1, ThreadFacts
  <2>3. answers[o] = 0 /\ program[o].kind # "CloseAndCancel"
    BY <2>1 DEF IInv, Rights
  <2>4. thread[o].pc # "idle"
    BY <2>2 DEF IInv, Rights
  <2> QED  BY <2>2, <2>3, <2>4
<1>10. \A o : Live(o) => /\ o \in Ops /\ answers[o] = 0 /\ program[o].kind # "CloseAndCancel"
                         /\ thread[o].pc # "idle" /\ \A u \in Threads : ~Has(u, o)
  BY LiveFacts
<1>11. \A u \in Threads : \A o : Has1(u, o) =>
         /\ o \in Ops /\ answers[o] = 0 /\ program[o].kind # "CloseAndCancel" /\ thread[o].pc # "idle"
         /\ ~Live1(o)
  <2> HIDE DEF Has, Live, Has1, Live1
  <2> QED  BY <1>5, <1>6, <1>8, <1>9, <1>10
<1>12. \A u, v \in Threads : \A o : Has(u, o) /\ Has(v, o) => u = v
  <2>1. \A u, v \in Threads : \A i \in 1..Len(thread[u].todo), j \in 1..Len(thread[v].todo) :
          thread[u].todo[i] = thread[v].todo[j] => u = v /\ i = j
    BY DEF IInv, Rights
  <2> QED  BY <2>1 DEF Has
<1>13. \A u, v \in Threads : \A o : Has1(u, o) /\ Has1(v, o) => u = v
  <2> HIDE DEF Has, Live, Has1, Live1
  <2> QED  BY <1>6, <1>8, <1>10, <1>12
<1>14. \A o \in Ops : thread'[o].pc = "idle" => thread[o].pc = "idle"
  BY <1>1 DEF Threads
<1>15. \A o \in Ops : thread'[o].pc # "exit" => thread[o].pc # "exit"
  BY <1>1 DEF Threads
<1>20. Shape'
  <2>1. \A i \in 1..Len(E') :
          program[E'[i].op].kind \in {"EnqueueMany", "Close"} /\ E'[i].left <= program[E'[i].op].n
    <3> SUFFICES ASSUME NEW i \in 1..Len(E')
                 PROVE  /\ program[E'[i].op].kind \in {"EnqueueMany", "Close"}
                        /\ E'[i].left <= program[E'[i].op].n
      OBVIOUS
    <3>1. /\ program[E[f[i]].op].kind \in {"EnqueueMany", "Close"}
          /\ E[f[i]].left <= program[E[f[i]].op].n
      BY <1>2 DEF IInv, Shape
    <3>2. E'[i].left \in Nat /\ E[f[i]].left \in Nat /\ E[f[i]].op \in Ops
      BY <1>0, <1>2, AttemptFacts
    <3>3. program[E[f[i]].op].n \in Nat
      BY <1>0, <3>2, CallFacts
    <3>4. E'[i].op = E[f[i]].op /\ E'[i].left <= E[f[i]].left
      BY <1>2
    <3> HIDE DEF E
    <3> QED  BY <3>1, <3>2, <3>3, <3>4
  <2>2. \A i \in 1..Len(D') : IsDequeue(D'[i].op)
    BY <1>3 DEF IInv, Shape, IsDequeue
  <2>3. \A u \in Threads : thread'[u].pc = "locked" <=> mu' = u
    BY <1>1, ThreadsAssumption DEF IInv, Shape
  <2>4. \A u \in Threads : thread'[u].pc = "callbacks" => thread'[u].todo # << >>
    BY <1>1 DEF IInv, Shape
  <2> QED  BY <2>1, <2>2, <2>3, <2>4 DEF Shape, IsDequeue
<1>21. Rights'
  <2> HIDE DEF Live, Has, Live1, Has1
  <2>1. \A i, j \in 1..Len(E') : E'[i].op = E'[j].op => i = j
    <3>1. \A i, j \in 1..Len(E) : E[i].op = E[j].op => i = j
      BY DEF IInv, Rights
    <3>2. \A i, j \in 1..Len(E') : f[i] = f[j] => i = j
      BY <1>4
    <3>3. \A i \in 1..Len(E') : f[i] \in 1..Len(E) /\ E'[i].op = E[f[i]].op
      BY <1>2
    <3> HIDE DEF E
    <3>4. ASSUME NEW i \in 1..Len(E'), NEW j \in 1..Len(E'), E'[i].op = E'[j].op PROVE i = j
      <4>1. f[i] \in 1..Len(E) /\ f[j] \in 1..Len(E) /\ E[f[i]].op = E[f[j]].op
        BY <3>3, <3>4
      <4>2. f[i] = f[j]
        BY <3>1, <4>1
      <4> QED  BY <3>2, <4>2
    <3> QED  BY <3>4
  <2>2. \A i, j \in 1..Len(D') : D'[i].op = D'[j].op => i = j
    <3>1. \A i, j \in 1..Len(D) : D[i].op = D[j].op => i = j
      BY DEF IInv, Rights
    <3>2. \A i, j \in 1..Len(D') : g[i] = g[j] => i = j
      BY <1>4
    <3> HIDE DEF D
    <3> QED  BY <1>3, <3>1, <3>2, SMTT(30)
  <2>3. \A i \in 1..Len(E') : ~E'[i].cancelled =>
          answers'[E'[i].op] = 0 /\ \A u \in Threads : ~Has1(u, E'[i].op)
    <3>1. \A i \in 1..Len(E') : ~E'[i].cancelled => Live1(E'[i].op)
      BY DEF Live1
    <3> QED  BY <1>5, <1>10, <1>11, <3>1
  <2>4. \A i \in 1..Len(D') : ~D'[i].cancelled =>
          answers'[D'[i].op] = 0 /\ \A u \in Threads : ~Has1(u, D'[i].op)
    <3>1. \A i \in 1..Len(D') : ~D'[i].cancelled => Live1(D'[i].op)
      BY DEF Live1
    <3> QED  BY <1>5, <1>10, <1>11, <3>1
  <2>5. \A u \in Threads : \A i \in 1..Len(thread'[u].todo) :
          answers'[thread'[u].todo[i]] = 0 /\ program'[thread'[u].todo[i]].kind # "CloseAndCancel"
    <3>1. \A u \in Threads : \A i \in 1..Len(thread'[u].todo) : Has1(u, thread'[u].todo[i])
      BY DEF Has1
    <3> QED  BY <1>11, <3>1
  <2>6. ASSUME NEW u \in Threads, NEW v \in Threads,
               NEW i \in 1..Len(thread'[u].todo), NEW j \in 1..Len(thread'[v].todo),
               thread'[u].todo[i] = thread'[v].todo[j]
        PROVE  u = v /\ i = j
    <3>1. Has1(u, thread'[u].todo[i]) /\ Has1(v, thread'[v].todo[j])
      BY DEF Has1
    <3>2. u = v
      BY <1>13, <2>6, <3>1
    <3>3. CASE u = t
      BY <1>1, <2>6, <3>2, <3>3
    <3>4. CASE u # t
      BY <1>1, <2>6, <3>2, <3>4 DEF IInv, Rights
    <3> QED  BY <3>2, <3>3, <3>4
  <2>7. ASSUME NEW o \in Ops, thread'[o].pc = "idle"
        PROVE  /\ \A i \in 1..Len(E') : E'[i].op # o
               /\ \A i \in 1..Len(D') : D'[i].op # o
               /\ \A u \in Threads : ~Has1(u, o)
    <3>1. thread[o].pc = "idle"
      BY <1>14, <2>7
    <3>2. /\ \A i \in 1..Len(E) : E[i].op # o
          /\ \A i \in 1..Len(D) : D[i].op # o
      BY <3>1 DEF IInv, Rights
    <3> QED  BY <1>2, <1>3, <1>11, <3>1, <3>2
  <2>8. \A o \in Ops : program'[o].kind = "CloseAndCancel" /\ thread'[o].pc # "exit" => answers'[o] = 0
    BY <1>15 DEF IInv, Rights
  <2>9. AnsweredOnce'
    BY DEF IInv, Rights, AnsweredOnce
  <2> QED  BY <2>1, <2>2, <2>3, <2>4, <2>5, <2>6, <2>7, <2>8, <2>9, Zenon DEF Rights, Has, Has1
<1> QED  BY <1>20, <1>21

\* Thread t goes on, with the same list or none; nothing else happens to ops and attempts.
LEMMA Onward ==
    ASSUME IInv, NEW t \in Threads, NEW r \in ThreadType, thread' = [thread EXCEPT ![t] = r],
           UNCHANGED <<program, answers, enqueue_attempts_, dequeue_attempts_>>,
           r.todo = thread[t].todo \/ r.todo = << >>,
           r.pc = "idle" => t \notin Ops \/ thread[t].pc = "idle",
           r.pc # "exit" => thread[t].pc # "exit",
           r.pc = "callbacks" => r.todo # << >>,
           \/ mu' = mu /\ (r.pc = "locked" <=> thread[t].pc = "locked")
           \/ mu = None /\ mu' = t /\ r.pc = "locked"
           \/ mu = t /\ mu' = None /\ r.pc # "locked"
    PROVE  Shape' /\ Rights'
<1>0. TypeOK /\ enqueue_attempts_ \in Seq(AttemptType) /\ dequeue_attempts_ \in Seq(AttemptType)
  BY TypeParts DEF IInv
<1>1. \A i \in 1..Len(r.todo) : Has(t, r.todo[i])
  BY DEF Has
<1>2. \A i, j \in 1..Len(r.todo) : r.todo[i] = r.todo[j] => i = j
  BY DEF IInv, Rights
<1>3. \A o : Live(o)' <=> Live(o)
  BY DEF Live
<1>4. \A i \in 1..Len(r.todo) : ~Live(r.todo[i])'
  <2> HIDE DEF Live, Has
  <2> QED  BY <1>1, <1>3, LiveFacts
<1>5. Derives(enqueue_attempts_', enqueue_attempts_, [i \in 1..Len(enqueue_attempts_) |-> i])
  BY <1>0, DerivesItself
<1>6. Derives(dequeue_attempts_', dequeue_attempts_, [i \in 1..Len(dequeue_attempts_) |-> i])
  BY <1>0, DerivesItself
<1> QED  BY <1>0, <1>1, <1>2, <1>4, <1>5, <1>6, Handover

\* The thread that holds mu_ goes on in its round.
LEMMA RoundGoesOn ==
    ASSUME IInv, NEW t \in Threads, mu = t, UNCHANGED mu,
           NEW r \in ThreadType, thread' = [thread EXCEPT ![t] = r], r.pc = "locked",
           r.pass = "dequeue" => /\ closed_' => enqueue_attempts_' = << >>
                                 /\ ~r.changed => EnqueuesBlocked',
           r.pass = "end" /\ ~r.changed => EnqueuesBlocked' /\ DequeuesBlocked'
    PROVE  Rounds'
<1>1. thread'[t] = r /\ \A u \in Threads : u # t => thread'[u] = thread[u]
  BY ThreadChange DEF IInv
<1>2. \A u \in Threads : u # t => thread'[u].pc # "locked"
  BY <1>1 DEF IInv, Shape
<1>3. Flushing'
  BY <1>1 DEF Flushing
<1> QED  BY <1>1, <1>2, <1>3 DEF Rounds

\* A thread that does not hold mu_ goes on, and the flush it owes it still owes.
LEMMA RoundAside ==
    ASSUME IInv, NEW t \in Threads, thread[t].pc # "locked", UNCHANGED <<attemptVars, mu>>,
           NEW r \in ThreadType, thread' = [thread EXCEPT ![t] = r], r.pc # "locked",
           thread[t].pc \in {"callbacks", "flush"} => r.pc \in {"callbacks", "flush"}
    PROVE  Rounds'
<1> USE DEF attemptVars
<1>1. thread'[t] = r /\ \A u \in Threads : u # t => thread'[u] = thread[u]
  BY ThreadChange DEF IInv
<1>2. Flushing => Flushing'
  BY <1>1 DEF Flushing
<1>3. \A u \in Threads : thread'[u].pc = "locked" =>
        thread[u].pc = "locked" /\ thread'[u] = thread[u]
  BY <1>1
<1> QED  BY <1>1, <1>2, <1>3 DEF IInv, Rounds, EnqueuesBlocked, DequeuesBlocked

LEMMA BeginFlushIInv == ASSUME IInv, NEW t \in Threads, BeginFlush(t) PROVE IInv'
<1> USE DEF BeginFlush, attemptVars, answerVars
<1>0. TypeOK
  BY DEF IInv
<1> DEFINE r == [pc |-> "locked", todo |-> << >>, pass |-> "enqueue", changed |-> FALSE]
<1>1. /\ r \in ThreadType /\ r.pc = "locked" /\ r.todo = << >> /\ r.pass = "enqueue"
      /\ thread' = [thread EXCEPT ![t] = r]
  BY DEF ThreadType
<1> HIDE DEF r
<1>2. /\ thread' \in [Threads -> ThreadType] /\ thread'[t] = r
      /\ \A u \in Threads : u # t => thread'[u] = thread[u]
  BY <1>0, <1>1, ThreadChange
<1>3. TypeOK'
  BY <1>0, <1>2, TypeParts, TypeAgain DEF TypeOK
<1>4. Shape' /\ Rights'
  BY <1>1, Onward
<1>5. Rounds'
  <2>1. Flushing'
    BY <1>1, <1>2 DEF Flushing
  <2>2. \A u \in Threads : u # t => thread'[u].pc # "locked"
    BY <1>2, ThreadsAssumption DEF IInv, Shape
  <2> QED  BY <1>1, <1>2, <2>1, <2>2 DEF Rounds
<1> QED  BY <1>3, <1>4, <1>5 DEF IInv

LEMMA NoAttemptIInv == ASSUME IInv, NEW t \in Threads, NoAttempt(t) PROVE IInv'
<1> USE DEF NoAttempt, InPass, PassDone, attemptVars, answerVars
<1>0. TypeOK /\ mu = t /\ thread[t].pc = "locked"
  BY DEF IInv
<1> DEFINE r == [thread[t] EXCEPT !.changed = @ \/ FALSE,
                                  !.pass = IF @ = "enqueue" THEN "dequeue" ELSE "end"]
<1>1. /\ r \in ThreadType /\ r.pc = "locked" /\ r.todo = thread[t].todo
      /\ r.changed = thread[t].changed
      /\ r.pass = IF thread[t].pass = "enqueue" THEN "dequeue" ELSE "end"
      /\ thread' = [thread EXCEPT ![t] = r]
  BY <1>0, ThreadFacts DEF ThreadType
<1> HIDE DEF r
<1>2. thread' \in [Threads -> ThreadType]
  BY <1>0, <1>1, ThreadChange
<1>3. TypeOK'
  BY <1>0, <1>2, TypeParts, TypeAgain DEF TypeOK
<1>4. Shape' /\ Rights'
  BY <1>0, <1>1, Onward
<1>5. Rounds'
  <2>1. EnqueuesBlocked' <=> EnqueuesBlocked
    BY DEF EnqueuesBlocked
  <2>2. DequeuesBlocked' <=> DequeuesBlocked
    BY DEF DequeuesBlocked
  <2>3. CASE thread[t].pass = "enqueue" /\ enqueue_attempts_ = << >>
    <3>1. EnqueuesBlocked
      BY <2>3 DEF EnqueuesBlocked
    <3> QED  BY <1>0, <1>1, <2>1, <2>3, <3>1, RoundGoesOn
  <2>4. CASE thread[t].pass = "dequeue" /\ dequeue_attempts_ = << >>
    <3>1. DequeuesBlocked /\ (~thread[t].changed => EnqueuesBlocked)
      BY <1>0, <2>4 DEF DequeuesBlocked, IInv, Rounds
    <3> QED  BY <1>0, <1>1, <2>1, <2>2, <2>4, <3>1, RoundGoesOn
  <2> QED  BY <2>3, <2>4
<1> QED  BY <1>3, <1>4, <1>5 DEF IInv

LEMMA EndRoundIInv == ASSUME IInv, NEW t \in Threads, EndRound(t) PROVE IInv'
<1> USE DEF EndRound, InPass, attemptVars, answerVars
<1>0. TypeOK /\ mu = t /\ thread[t].pc = "locked" /\ thread[t].pass = "end"
  BY DEF IInv
<1>1. CASE thread[t].changed
  <2> DEFINE r == [thread[t] EXCEPT !.pass = "enqueue", !.changed = FALSE]
  <2>1. /\ r \in ThreadType /\ r.pc = "locked" /\ r.todo = thread[t].todo /\ r.pass = "enqueue"
        /\ thread' = [thread EXCEPT ![t] = r]
    BY <1>0, <1>1, ThreadFacts DEF ThreadType
  <2> HIDE DEF r
  <2>2. thread' \in [Threads -> ThreadType]
    BY <1>0, <2>1, ThreadChange
  <2>3. TypeOK'
    BY <1>0, <1>1, <2>2, TypeParts, TypeAgain DEF TypeOK
  <2>4. Shape' /\ Rights'
    BY <1>0, <1>1, <2>1, Onward
  <2>5. Rounds'
    BY <1>0, <1>1, <2>1, RoundGoesOn
  <2> QED  BY <2>3, <2>4, <2>5 DEF IInv
<1>2. CASE ~thread[t].changed
  <2> DEFINE r == [thread[t] EXCEPT !.pc = "cleanup"]
  <2>1. /\ r \in ThreadType /\ r.pc = "cleanup" /\ r.todo = thread[t].todo
        /\ thread' = [thread EXCEPT ![t] = r]
    BY <1>0, <1>2, ThreadFacts DEF ThreadType
  <2> HIDE DEF r
  <2>2. /\ thread' \in [Threads -> ThreadType] /\ thread'[t] = r
        /\ \A u \in Threads : u # t => thread'[u] = thread[u]
    BY <1>0, <2>1, ThreadChange
  <2>3. TypeOK'
    BY <1>0, <1>2, <2>2, TypeParts, TypeAgain DEF TypeOK
  <2>4. Shape' /\ Rights'
    BY <1>0, <1>2, <2>1, Onward
  <2>5. Rounds'
    <3>1. \A u \in Threads : thread'[u].pc # "locked"
      BY <1>0, <2>1, <2>2 DEF IInv, Shape
    <3>2. EnqueuesBlocked /\ DequeuesBlocked
      BY <1>0, <1>2 DEF IInv, Rounds
    <3>3. EnqueuesBlocked' /\ DequeuesBlocked'
      BY <3>2 DEF EnqueuesBlocked, DequeuesBlocked
    <3> QED  BY <3>1, <3>3 DEF Rounds
  <2> QED  BY <2>3, <2>4, <2>5 DEF IInv
<1> QED  BY <1>1, <1>2

\* The op of the first enqueue attempt goes into the list of the thread that flushes.
LEMMA TakesEnqueue ==
    ASSUME IInv, NEW t \in Threads, mu = t, thread[t].pc = "locked", UNCHANGED <<program, answers, mu>>,
           enqueue_attempts_ # << >>, ~Head(enqueue_attempts_).cancelled,
           enqueue_attempts_' = Tail(enqueue_attempts_), UNCHANGED dequeue_attempts_,
           NEW r \in ThreadType, thread' = [thread EXCEPT ![t] = r], r.pc = "locked",
           r.todo = Append(thread[t].todo, Head(enqueue_attempts_).op)
    PROVE  Shape' /\ Rights'
<1> DEFINE E == enqueue_attempts_
           D == dequeue_attempts_
           n == Len(thread[t].todo)
<1>a. PICK o : o = Head(E).op
  OBVIOUS
<1>0. TypeOK /\ E \in Seq(AttemptType) /\ D \in Seq(AttemptType)
  BY TypeParts DEF IInv
<1>1. /\ Tail(E) \in Seq(AttemptType) /\ Len(Tail(E)) = Len(E) - 1 /\ Len(E) \in Nat
      /\ \A i \in 1..Len(Tail(E)) : Tail(E)[i] = E[i + 1] /\ i + 1 \in 1..Len(E)
      /\ Head(E) = E[1] /\ 1 \in 1..Len(E)
  BY <1>0, DerivesTail
<1>2. Derives(E', E, [i \in 1..Len(Tail(E)) |-> i + 1])
  BY <1>0, DerivesTail
<1>3. Derives(D', D, [i \in 1..Len(D) |-> i])
  BY <1>0, DerivesItself
<1>4. Live(o) /\ o \in Ops
  <2>1. Live(o)
    BY <1>1, <1>a DEF Live
  <2> QED  BY <2>1, LiveFacts
<1>5. ~Live(o)'
  <2>1. \A i \in 1..Len(E') : E'[i].op # o
    <3>1. \A i, j \in 1..Len(E) : E[i].op = E[j].op => i = j
      BY DEF IInv, Rights
    <3>2. ASSUME NEW i \in 1..Len(Tail(E)) PROVE i + 1 # 1
      BY <1>1
    <3> QED  BY <1>1, <1>a, <3>1, <3>2
  <2>2. \A i \in 1..Len(D') : D'[i].op # o
    <3>1. o = E[1].op
      BY <1>1, <1>a
    <3> QED  BY <1>1, <3>1 DEF IInv, Shape, IsDequeue
  <2> QED  BY <2>1, <2>2 DEF Live
<1>6. \A p : Live(p)' => Live(p)
  <2> SUFFICES ASSUME NEW p, Live(p)' PROVE Live(p)
    OBVIOUS
  <2>1. ASSUME NEW i \in 1..Len(E'), E'[i].op = p, ~E'[i].cancelled PROVE Live(p)
    <3>1. i + 1 \in 1..Len(E) /\ E[i + 1].op = p /\ ~E[i + 1].cancelled
      BY <1>1, <2>1
    <3> QED  BY <3>1 DEF Live
  <2>2. ASSUME NEW i \in 1..Len(D'), D'[i].op = p, ~D'[i].cancelled PROVE Live(p)
    BY <2>2 DEF Live
  <2> QED  BY <2>1, <2>2 DEF Live
<1>7. /\ thread[t].todo \in Seq(Ops) /\ n \in Nat
      /\ Len(r.todo) = n + 1 /\ r.todo[n + 1] = o
      /\ \A i \in 1..n : r.todo[i] = thread[t].todo[i] /\ Has(t, r.todo[i])
  <2>1. thread[t].todo \in Seq(Ops)
    BY <1>0, ThreadFacts
  <2> QED  BY <1>4, <1>a, <2>1 DEF Has
<1>8. \A i \in 1..Len(r.todo) : i \in 1..n \/ i = n + 1
  BY <1>7
<1> HIDE DEF n, Live, Has, E, D
<1>9. \A i \in 1..Len(r.todo) : Has(t, r.todo[i]) \/ Live(r.todo[i])
  BY <1>4, <1>7, <1>8
<1>10. ~Has(t, o)
  BY <1>4, LiveFacts
<1>11. \A i, j \in 1..Len(r.todo) : r.todo[i] = r.todo[j] => i = j
  <2>1. \A i, j \in 1..n : r.todo[i] = r.todo[j] => i = j
    <3>1. \A i, j \in 1..n : thread[t].todo[i] = thread[t].todo[j] => i = j
      BY DEF IInv, Rights, n
    <3> QED  BY <1>7, <3>1
  <2> QED  BY <1>7, <1>8, <1>10, <2>1
<1>12. \A i \in 1..Len(r.todo) : ~Live(r.todo[i])'
  <2>1. \A i \in 1..n : ~Live(r.todo[i])
    BY <1>7, LiveFacts
  <2> QED  BY <1>5, <1>6, <1>7, <1>8, <2>1
<1> QED  BY <1>0, <1>1, <1>2, <1>3, <1>9, <1>11, <1>12, Handover DEF E, D

LEMMA SkipCancelledEnqueueIInv ==
    ASSUME IInv, NEW t \in Threads, SkipCancelledEnqueue(t) PROVE IInv'
<1> USE DEF SkipCancelledEnqueue, InPass, answerVars
<1> DEFINE E == enqueue_attempts_
           D == dequeue_attempts_
           r == thread[t]
<1>0. TypeOK /\ E \in Seq(AttemptType) /\ D \in Seq(AttemptType)
  BY TypeParts DEF IInv
<1>1. /\ Tail(E) \in Seq(AttemptType) /\ Len(Tail(E)) = Len(E) - 1 /\ Len(E) \in Nat
      /\ \A i \in 1..Len(Tail(E)) : Tail(E)[i] = E[i + 1] /\ i + 1 \in 1..Len(E)
      /\ Derives(E', E, [i \in 1..Len(Tail(E)) |-> i + 1])
  BY <1>0, DerivesTail
<1>2. Derives(D', D, [i \in 1..Len(D) |-> i])
  BY <1>0, DerivesItself
<1>3. thread \in [Threads -> ThreadType] /\ r \in ThreadType /\ thread' = [thread EXCEPT ![t] = r]
  BY <1>0, ThreadFacts
<1>4. TypeOK'
  BY <1>0, <1>1, <1>3, TypeParts, TypeAgain DEF TypeOK
<1>5. \A p : Live(p)' => Live(p)
  <2> SUFFICES ASSUME NEW p, Live(p)' PROVE Live(p)
    OBVIOUS
  <2>1. ASSUME NEW i \in 1..Len(E'), E'[i].op = p, ~E'[i].cancelled PROVE Live(p)
    <3>1. i + 1 \in 1..Len(E) /\ E[i + 1].op = p /\ ~E[i + 1].cancelled
      BY <1>1, <2>1
    <3> QED  BY <3>1 DEF Live
  <2>2. ASSUME NEW i \in 1..Len(D'), D'[i].op = p, ~D'[i].cancelled PROVE Live(p)
    BY <2>2 DEF Live
  <2> QED  BY <2>1, <2>2 DEF Live
<1>6. \A i \in 1..Len(r.todo) : Has(t, r.todo[i])
  BY DEF Has
<1>7. \A i \in 1..Len(r.todo) : ~Live(r.todo[i])'
  <2> HIDE DEF Live, Has
  <2> QED  BY <1>5, <1>6, LiveFacts
<1>8. \A i, j \in 1..Len(r.todo) : r.todo[i] = r.todo[j] => i = j
  BY DEF IInv, Rights
<1> HIDE DEF Has, Live
<1>9. Shape' /\ Rights'
  BY <1>0, <1>1, <1>2, <1>3, <1>6, <1>7, <1>8, Handover DEF IInv, Shape
<1>10. Rounds'
  BY <1>0, <1>3, RoundGoesOn DEF IInv, Rounds, EnqueuesBlocked
<1> QED  BY <1>4, <1>9, <1>10 DEF IInv

\* The op of the first dequeue attempt goes into the list of the thread that flushes.
LEMMA TakesDequeue ==
    ASSUME IInv, NEW t \in Threads, mu = t, thread[t].pc = "locked", UNCHANGED <<program, answers, mu>>,
           dequeue_attempts_ # << >>, ~Head(dequeue_attempts_).cancelled,
           dequeue_attempts_' = Tail(dequeue_attempts_), UNCHANGED enqueue_attempts_,
           NEW r \in ThreadType, thread' = [thread EXCEPT ![t] = r], r.pc = "locked",
           r.todo = Append(thread[t].todo, Head(dequeue_attempts_).op)
    PROVE  Shape' /\ Rights'
<1> DEFINE E == dequeue_attempts_
           D == enqueue_attempts_
           n == Len(thread[t].todo)
<1>a. PICK o : o = Head(E).op
  OBVIOUS
<1>0. TypeOK /\ E \in Seq(AttemptType) /\ D \in Seq(AttemptType)
  BY TypeParts DEF IInv
<1>1. /\ Tail(E) \in Seq(AttemptType) /\ Len(Tail(E)) = Len(E) - 1 /\ Len(E) \in Nat
      /\ \A i \in 1..Len(Tail(E)) : Tail(E)[i] = E[i + 1] /\ i + 1 \in 1..Len(E)
      /\ Head(E) = E[1] /\ 1 \in 1..Len(E)
  BY <1>0, DerivesTail
<1>2. Derives(E', E, [i \in 1..Len(Tail(E)) |-> i + 1])
  BY <1>0, DerivesTail
<1>3. Derives(D', D, [i \in 1..Len(D) |-> i])
  BY <1>0, DerivesItself
<1>4. Live(o) /\ o \in Ops
  <2>1. Live(o)
    BY <1>1, <1>a DEF Live
  <2> QED  BY <2>1, LiveFacts
<1>5. ~Live(o)'
  <2>1. \A i \in 1..Len(E') : E'[i].op # o
    <3>1. \A i, j \in 1..Len(E) : E[i].op = E[j].op => i = j
      BY DEF IInv, Rights
    <3>2. ASSUME NEW i \in 1..Len(Tail(E)) PROVE i + 1 # 1
      BY <1>1
    <3> QED  BY <1>1, <1>a, <3>1, <3>2
  <2>2. \A i \in 1..Len(D') : D'[i].op # o
    <3>1. o = E[1].op
      BY <1>1, <1>a
    <3> QED  BY <1>1, <3>1 DEF IInv, Shape, IsDequeue
  <2> QED  BY <2>1, <2>2 DEF Live
<1>6. \A p : Live(p)' => Live(p)
  <2> SUFFICES ASSUME NEW p, Live(p)' PROVE Live(p)
    OBVIOUS
  <2>1. ASSUME NEW i \in 1..Len(E'), E'[i].op = p, ~E'[i].cancelled PROVE Live(p)
    <3>1. i + 1 \in 1..Len(E) /\ E[i + 1].op = p /\ ~E[i + 1].cancelled
      BY <1>1, <2>1
    <3> QED  BY <3>1 DEF Live
  <2>2. ASSUME NEW i \in 1..Len(D'), D'[i].op = p, ~D'[i].cancelled PROVE Live(p)
    BY <2>2 DEF Live
  <2> QED  BY <2>1, <2>2 DEF Live
<1>7. /\ thread[t].todo \in Seq(Ops) /\ n \in Nat
      /\ Len(r.todo) = n + 1 /\ r.todo[n + 1] = o
      /\ \A i \in 1..n : r.todo[i] = thread[t].todo[i] /\ Has(t, r.todo[i])
  <2>1. thread[t].todo \in Seq(Ops)
    BY <1>0, ThreadFacts
  <2> QED  BY <1>4, <1>a, <2>1 DEF Has
<1>8. \A i \in 1..Len(r.todo) : i \in 1..n \/ i = n + 1
  BY <1>7
<1> HIDE DEF n, Live, Has, E, D
<1>9. \A i \in 1..Len(r.todo) : Has(t, r.todo[i]) \/ Live(r.todo[i])
  BY <1>4, <1>7, <1>8
<1>10. ~Has(t, o)
  BY <1>4, LiveFacts
<1>11. \A i, j \in 1..Len(r.todo) : r.todo[i] = r.todo[j] => i = j
  <2>1. \A i, j \in 1..n : r.todo[i] = r.todo[j] => i = j
    <3>1. \A i, j \in 1..n : thread[t].todo[i] = thread[t].todo[j] => i = j
      BY DEF IInv, Rights, n
    <3> QED  BY <1>7, <3>1
  <2> QED  BY <1>7, <1>8, <1>10, <2>1
<1>12. \A i \in 1..Len(r.todo) : ~Live(r.todo[i])'
  <2>1. \A i \in 1..n : ~Live(r.todo[i])
    BY <1>7, LiveFacts
  <2> QED  BY <1>5, <1>6, <1>7, <1>8, <2>1
<1> QED  BY <1>0, <1>1, <1>2, <1>3, <1>9, <1>11, <1>12, Handover DEF E, D

LEMMA SkipCancelledDequeueIInv ==
    ASSUME IInv, NEW t \in Threads, SkipCancelledDequeue(t) PROVE IInv'
<1> USE DEF SkipCancelledDequeue, InPass, answerVars
<1> DEFINE E == dequeue_attempts_
           D == enqueue_attempts_
           r == thread[t]
<1>0. TypeOK /\ E \in Seq(AttemptType) /\ D \in Seq(AttemptType)
  BY TypeParts DEF IInv
<1>1. /\ Tail(E) \in Seq(AttemptType) /\ Len(Tail(E)) = Len(E) - 1 /\ Len(E) \in Nat
      /\ \A i \in 1..Len(Tail(E)) : Tail(E)[i] = E[i + 1] /\ i + 1 \in 1..Len(E)
      /\ Derives(E', E, [i \in 1..Len(Tail(E)) |-> i + 1])
  BY <1>0, DerivesTail
<1>2. Derives(D', D, [i \in 1..Len(D) |-> i])
  BY <1>0, DerivesItself
<1>3. thread \in [Threads -> ThreadType] /\ r \in ThreadType /\ thread' = [thread EXCEPT ![t] = r]
  BY <1>0, ThreadFacts
<1>4. TypeOK'
  BY <1>0, <1>1, <1>3, TypeParts, TypeAgain DEF TypeOK
<1>5. \A p : Live(p)' => Live(p)
  <2> SUFFICES ASSUME NEW p, Live(p)' PROVE Live(p)
    OBVIOUS
  <2>1. ASSUME NEW i \in 1..Len(E'), E'[i].op = p, ~E'[i].cancelled PROVE Live(p)
    <3>1. i + 1 \in 1..Len(E) /\ E[i + 1].op = p /\ ~E[i + 1].cancelled
      BY <1>1, <2>1
    <3> QED  BY <3>1 DEF Live
  <2>2. ASSUME NEW i \in 1..Len(D'), D'[i].op = p, ~D'[i].cancelled PROVE Live(p)
    BY <2>2 DEF Live
  <2> QED  BY <2>1, <2>2 DEF Live
<1>6. \A i \in 1..Len(r.todo) : Has(t, r.todo[i])
  BY DEF Has
<1>7. \A i \in 1..Len(r.todo) : ~Live(r.todo[i])'
  <2> HIDE DEF Live, Has
  <2> QED  BY <1>5, <1>6, LiveFacts
<1>8. \A i, j \in 1..Len(r.todo) : r.todo[i] = r.todo[j] => i = j
  BY DEF IInv, Rights
<1> HIDE DEF Has, Live
<1>9. Shape' /\ Rights'
  BY <1>0, <1>1, <1>2, <1>3, <1>6, <1>7, <1>8, Handover DEF IInv, Shape
<1>10. Rounds'
  BY <1>0, <1>3, RoundGoesOn DEF IInv, Rounds, EnqueuesBlocked
<1> QED  BY <1>4, <1>9, <1>10 DEF IInv

\* Thread t goes on with the same list while attempts change.
LEMMA SameList ==
    ASSUME IInv, NEW t \in Threads, NEW r \in ThreadType, thread' = [thread EXCEPT ![t] = r],
           UNCHANGED <<program, answers, mu>>, r.todo = thread[t].todo,
           enqueue_attempts_' \in Seq(AttemptType), dequeue_attempts_' \in Seq(AttemptType),
           NEW f, Derives(enqueue_attempts_', enqueue_attempts_, f),
           NEW g, Derives(dequeue_attempts_', dequeue_attempts_, g),
           r.pc = thread[t].pc
    PROVE  Shape' /\ Rights'
<1> DEFINE E == enqueue_attempts_
           D == dequeue_attempts_
<1>1. \A o : Live(o)' => Live(o)
  <2> SUFFICES ASSUME NEW o, Live(o)' PROVE Live(o)
    OBVIOUS
  <2>1. ASSUME NEW i \in 1..Len(E'), E'[i].op = o, ~E'[i].cancelled PROVE Live(o)
    <3>1. f[i] \in 1..Len(E) /\ E[f[i]].op = o /\ ~E[f[i]].cancelled
      BY <2>1 DEF Derives
    <3> QED  BY <3>1 DEF Live
  <2>2. ASSUME NEW i \in 1..Len(D'), D'[i].op = o, ~D'[i].cancelled PROVE Live(o)
    <3>1. g[i] \in 1..Len(D) /\ D[g[i]].op = o /\ ~D[g[i]].cancelled
      BY <2>2 DEF Derives
    <3> QED  BY <3>1 DEF Live
  <2> QED  BY <2>1, <2>2 DEF Live
<1>2. \A i \in 1..Len(r.todo) : Has(t, r.todo[i])
  BY DEF Has
<1>3. \A i \in 1..Len(r.todo) : ~Live(r.todo[i])'
  <2> HIDE DEF Live, Has
  <2> QED  BY <1>1, <1>2, LiveFacts
<1>4. \A i, j \in 1..Len(r.todo) : r.todo[i] = r.todo[j] => i = j
  <2>1. \A i, j \in 1..Len(thread[t].todo) : thread[t].todo[i] = thread[t].todo[j] => i = j
    BY DEF IInv, Rights
  <2> QED  BY <2>1
<1>5. r.pc = "callbacks" => r.todo # << >>
  BY DEF IInv, Shape
<1> HIDE DEF Has, Live
<1> QED  BY <1>2, <1>3, <1>4, <1>5, Handover

\* The first attempt asks for less.
LEMMA FirstAttempt ==
    ASSUME NEW A \in Seq(AttemptType), A # << >>, NEW b \in AttemptType,
           b.op = A[1].op, b.left <= A[1].left, b.cancelled = A[1].cancelled
    PROVE  /\ [A EXCEPT ![1] = b] \in Seq(AttemptType)
           /\ Derives([A EXCEPT ![1] = b], A, [i \in 1..Len(A) |-> i])
<1> DEFINE B == [A EXCEPT ![1] = b]
<1>1. Len(A) \in Nat /\ DOMAIN A = 1..Len(A) /\ \A i \in 1..Len(A) : A[i] \in AttemptType /\ A[i].left \in Nat
  BY AttemptFacts
<1>2. /\ B \in Seq(AttemptType) /\ Len(B) = Len(A)
      /\ \A i \in 1..Len(A) : B[i] = IF i = 1 THEN b ELSE A[i]
  BY <1>1
<1> HIDE DEF B
<1>3. \A i \in 1..Len(A) :
        /\ B[i].op = A[i].op /\ B[i].left <= A[i].left
        /\ A[i].cancelled => B[i].cancelled
  BY <1>1, <1>2
<1>4. Derives(B, A, [i \in 1..Len(A) |-> i])
  BY <1>2, <1>3 DEF Derives
<1> QED  BY <1>2, <1>4 DEF B

LEMMA CompleteFacts ==
    ASSUME TypeOK, NEW t \in Threads, NEW o \in Ops, Complete(t, o)
    PROVE  \E r \in ThreadType :
             /\ thread' = [thread EXCEPT ![t] = r]
             /\ r.pc = thread[t].pc /\ r.pass = thread[t].pass
             /\ r.changed = TRUE /\ r.todo = Append(thread[t].todo, o)
<1> DEFINE r == [thread[t] EXCEPT !.changed = TRUE, !.todo = Append(@, o)]
<1>1. thread \in [Threads -> ThreadType] /\ thread[t] \in ThreadType /\ thread[t].todo \in Seq(Ops)
  BY ThreadFacts
<1>2. Append(thread[t].todo, o) \in Seq(Ops)
  BY <1>1
<1>3. r \in ThreadType
  BY <1>1, <1>2 DEF ThreadType
<1>4. /\ r.pc = thread[t].pc /\ r.pass = thread[t].pass
      /\ r.changed = TRUE /\ r.todo = Append(thread[t].todo, o)
  BY <1>1 DEF ThreadType
<1>5. thread' = [thread EXCEPT ![t] = r]
  BY <1>1 DEF Complete
<1> QED  BY <1>3, <1>4, <1>5

LEMMA PassDoneFacts ==
    ASSUME TypeOK, NEW t \in Threads, NEW progress \in BOOLEAN, PassDone(t, progress)
    PROVE  \E r \in ThreadType :
             /\ thread' = [thread EXCEPT ![t] = r]
             /\ r.pc = thread[t].pc /\ r.todo = thread[t].todo
             /\ r.changed <=> (thread[t].changed \/ progress)
             /\ r.pass = IF thread[t].pass = "enqueue" THEN "dequeue" ELSE "end"
<1> DEFINE c == thread[t].changed \/ progress
           r == [thread[t] EXCEPT !.changed = c,
                                  !.pass = IF @ = "enqueue" THEN "dequeue" ELSE "end"]
<1>1. thread \in [Threads -> ThreadType] /\ thread[t] \in ThreadType
  BY ThreadFacts
<1>2. thread' = [thread EXCEPT ![t] = r]
  BY <1>1 DEF PassDone
<1>3. c \in BOOLEAN
  OBVIOUS
<1> HIDE DEF c
<1>4. /\ r \in ThreadType /\ r.pc = thread[t].pc /\ r.todo = thread[t].todo /\ r.changed = c
      /\ r.pass = IF thread[t].pass = "enqueue" THEN "dequeue" ELSE "end"
  BY <1>1, <1>3 DEF ThreadType
<1> HIDE DEF r
<1> QED  BY <1>2, <1>4 DEF c

LEMMA UpdatedType ==
    ASSUME TypeOK, NEW o \in Ops, NEW e \in {"OK", "Cancelled", "OutOfRange"}
    PROVE  Updated(o, e) \in [Ops -> {"OK", "Cancelled", "OutOfRange"}]
BY TypeParts DEF Updated

LEMMA RunCloseIInv == ASSUME IInv, NEW t \in Threads, RunClose(t) PROVE IInv'
<1> USE DEF RunClose, InPass, answerVars
<1> DEFINE E == enqueue_attempts_
           o == Head(E).op
<1>0. TypeOK /\ E \in Seq(AttemptType) /\ mu = t /\ thread[t].pc = "locked"
  BY TypeParts DEF IInv
<1>1. Tail(E) \in Seq(AttemptType) /\ o \in Ops
  <2>1. Tail(E) \in Seq(AttemptType) /\ Head(E) = E[1] /\ 1 \in 1..Len(E)
    BY <1>0, DerivesTail
  <2> QED  BY <1>0, <2>1, AttemptFacts
<1>2. PICK r \in ThreadType :
        /\ thread' = [thread EXCEPT ![t] = r]
        /\ r.pc = thread[t].pc /\ r.pass = thread[t].pass
        /\ r.changed = TRUE /\ r.todo = Append(thread[t].todo, o)
  BY <1>0, <1>1, CompleteFacts
<1>3. thread' \in [Threads -> ThreadType]
  BY <1>0, <1>2, ThreadChange
<1>4. status' \in [Ops -> {"OK", "Cancelled", "OutOfRange"}]
  BY <1>0, <1>1, TypeParts, UpdatedType
<1>5. TypeOK'
  BY <1>0, <1>1, <1>3, <1>4, TypeParts, TypeAgain DEF TypeOK
<1>6. Shape' /\ Rights'
  BY <1>0, <1>2, TakesEnqueue
<1>7. Rounds'
  BY <1>0, <1>2, RoundGoesOn
<1> QED  BY <1>5, <1>6, <1>7 DEF IInv

\* What an attempt that has not been answered enqueues now.
LEMMA EnqueuedNowFacts ==
    ASSUME TypeOK, NEW a \in AttemptType, ~IsDequeue(a.op), a.left <= program[a.op].n,
           NEW room \in Int
    PROVE  /\ EnqueuedNow(a, room) \in Seq(Element)
           /\ Len(EnqueuedNow(a, room)) \in Nat /\ Len(EnqueuedNow(a, room)) <= a.left
           /\ Len(EnqueuedNow(a, room)) # a.left => /\ Len(EnqueuedNow(a, room)) = 0 => room <= 0
                                                    /\ a.left > 0
<1> DEFINE first == program[a.op].n - a.left
           m == IF room < a.left THEN room ELSE a.left
           k == IF m < 0 THEN 0 ELSE m
           q == EnqueuedNow(a, room)
<1>1. a.op \in Ops /\ a.left \in Nat
  BY DEF AttemptType
<1>2. program[a.op].n \in Nat /\ first \in Nat
  BY <1>1, CallFacts
<1>3. m \in Int /\ k \in Nat /\ k <= a.left /\ 1..m = 1..k
  <2>1. m \in Int /\ m <= a.left
    BY <1>1
  <2> HIDE DEF m
  <2> QED  BY <1>1, <2>1
<1>4. q = [i \in 1..k |-> <<a.op, first + i>>]
  BY <1>3 DEF EnqueuedNow
<1>5. k # a.left => (k = 0 => room <= 0) /\ a.left > 0
  BY <1>1
<1> HIDE DEF m, k
<1>6. \A i \in 1..k : <<a.op, first + i>> \in Element
  <2> SUFFICES ASSUME NEW i \in 1..k PROVE <<a.op, first + i>> \in Element
    OBVIOUS
  <2>1. first + i \in Nat /\ first + i \in 1..program[a.op].n
    BY <1>1, <1>2, <1>3
  <2> HIDE DEF first
  <2>2. <<a.op, first + i>> \in Ops \X Nat
    BY <1>1, <2>1
  <2> QED  BY <2>1, <2>2 DEF Element
<1> HIDE DEF first
<1>7. q \in Seq(Element) /\ Len(q) = k
  BY <1>3, <1>4, <1>6
<1> HIDE DEF q
<1>8. Len(q) \in Nat /\ Len(q) <= a.left /\ (Len(q) # a.left => (Len(q) = 0 => room <= 0) /\ a.left > 0)
  BY <1>3, <1>5, <1>7
<1> QED  BY <1>7, <1>8 DEF q

LEMMA RunEnqueueIInv == ASSUME IInv, NEW t \in Threads, RunEnqueue(t) PROVE IInv'
<1> USE DEF RunEnqueue, InPass, answerVars
<1> DEFINE E == enqueue_attempts_
           D == dequeue_attempts_
           a == Head(E)
           now == IF closed_ THEN << >> ELSE EnqueuedNow(a, Room)
           complete == closed_ \/ Len(now) = a.left
<1>0. /\ TypeOK /\ E \in Seq(AttemptType) /\ D \in Seq(AttemptType)
      /\ mu = t /\ thread[t].pc = "locked" /\ thread[t].pass = "enqueue"
  BY TypeParts DEF IInv
<1>1. Tail(E) \in Seq(AttemptType) /\ a = E[1] /\ 1 \in 1..Len(E) /\ DOMAIN E = 1..Len(E)
  BY <1>0, DerivesTail, AttemptFacts
<1>2. a \in AttemptType /\ a.op \in Ops /\ a.left \in Nat /\ a.left <= program[a.op].n /\ ~IsDequeue(a.op)
  BY <1>0, <1>1, AttemptFacts DEF IInv, Shape, IsDequeue
<1>3. Room \in Int /\ Len(queue) \in Nat
  BY <1>0, TypeParts, CapacityAssumption DEF Room
<1>4. /\ now \in Seq(Element) /\ Len(now) \in Nat
      /\ ~complete => /\ ~closed_ /\ Len(now) <= a.left /\ a.left > 0
                      /\ Len(now) = 0 => Room <= 0
  <2>1. CASE closed_
    BY <2>1
  <2>2. CASE ~closed_
    BY <1>0, <1>2, <1>3, <2>2, EnqueuedNowFacts
  <2> QED  BY <2>1, <2>2
<1>5. /\ queue' = queue \o now /\ entered' = entered \o now
      /\ status' = IF closed_ THEN Updated(a.op, "Cancelled") ELSE status
      /\ IF complete THEN Complete(t, a.op) ELSE PassDone(t, now # << >>)
      /\ E' = IF complete THEN Tail(E) ELSE [E EXCEPT ![1].left = @ - Len(now)]
      /\ ~a.cancelled
  OBVIOUS
<1> HIDE DEF now, complete
<1>6. queue' \in Seq(Element) /\ entered' \in Seq(Element)
  <2>1. queue \in Seq(Element) /\ entered \in Seq(Element) /\ now \in Seq(Element)
    BY <1>0, <1>4, TypeParts
  <2>2. \A s \in Seq(Element) : s \o now \in Seq(Element)
    BY <2>1, ConcatProperties
  <2>3. queue' = queue \o now /\ entered' = entered \o now
    BY <1>5
  <2> QED  BY <2>1, <2>2, <2>3
<1>7. status' \in [Ops -> {"OK", "Cancelled", "OutOfRange"}]
  BY <1>0, <1>2, <1>5, TypeParts, UpdatedType
<1>8. CASE complete
  <2>1. PICK r \in ThreadType :
          /\ thread' = [thread EXCEPT ![t] = r]
          /\ r.pc = thread[t].pc /\ r.pass = thread[t].pass
          /\ r.changed = TRUE /\ r.todo = Append(thread[t].todo, a.op)
    BY <1>0, <1>2, <1>5, <1>8, CompleteFacts
  <2>2. thread' \in [Threads -> ThreadType]
    BY <1>0, <2>1, ThreadChange
  <2>3. TypeOK'
    BY <1>0, <1>1, <1>5, <1>6, <1>7, <1>8, <2>2, TypeParts, TypeAgain DEF TypeOK
  <2>4. Shape' /\ Rights'
    BY <1>0, <1>5, <1>8, <2>1, TakesEnqueue
  <2>5. Rounds'
    BY <1>0, <2>1, RoundGoesOn
  <2> QED  BY <2>3, <2>4, <2>5 DEF IInv
<1>9. CASE ~complete
  <2>1. PICK r \in ThreadType :
          /\ thread' = [thread EXCEPT ![t] = r]
          /\ r.pc = thread[t].pc /\ r.todo = thread[t].todo
          /\ r.changed <=> (thread[t].changed \/ now # << >>)
          /\ r.pass = IF thread[t].pass = "enqueue" THEN "dequeue" ELSE "end"
    BY <1>0, <1>5, <1>9, PassDoneFacts
  <2>2. thread' \in [Threads -> ThreadType]
    BY <1>0, <2>1, ThreadChange
  <2> DEFINE b == [a EXCEPT !.left = @ - Len(now)]
  <2>3. b \in AttemptType /\ b.op = a.op /\ b.left = a.left - Len(now) /\ b.cancelled = a.cancelled
    <3>1. a.left - Len(now) \in Nat
      BY <1>2, <1>4, <1>9
    <3> QED  BY <1>2, <3>1 DEF AttemptType
  <2>4. E' = [E EXCEPT ![1] = b]
    BY <1>1, <1>5, <1>9
  <2> HIDE DEF b
  <2>5. b.left <= a.left
    BY <1>2, <1>4, <2>3
  <2>6. E' \in Seq(AttemptType) /\ Derives(E', E, [i \in 1..Len(E) |-> i])
    <3>1. b.op = E[1].op /\ b.left <= E[1].left /\ b.cancelled = E[1].cancelled
      BY <1>1, <2>3, <2>5
    <3>2. E # << >>
      OBVIOUS
    <3> HIDE DEF E
    <3>3. b \in AttemptType /\ E \in Seq(AttemptType) /\ E' = [E EXCEPT ![1] = b]
      BY <1>0, <2>3, <2>4
    <3> QED  BY <3>1, <3>2, <3>3, FirstAttempt
  <2>7. Derives(D', D, [i \in 1..Len(D) |-> i])
    BY <1>0, DerivesItself
  <2>8. TypeOK'
    BY <1>0, <1>6, <1>7, <2>2, <2>6, TypeParts, TypeAgain DEF TypeOK
  <2>9. Shape' /\ Rights'
    BY <1>0, <2>1, <2>6, <2>7, SameList
  <2>10. ~r.changed => EnqueuesBlocked'
    <3> SUFFICES ASSUME now = << >> PROVE ~closed_' /\ Len(queue') >= Capacity
      BY <2>1 DEF EnqueuesBlocked
    <3>1. Len(now) = 0 /\ queue' = queue
      BY <1>0, <1>5, TypeParts
    <3>2. Room <= 0 /\ ~closed_
      BY <1>4, <1>9, <3>1
    <3> QED  BY <1>3, <3>1, <3>2, CapacityAssumption DEF Room
  <2>11. Rounds'
    BY <1>0, <1>4, <1>9, <2>1, <2>10, RoundGoesOn
  <2> QED  BY <2>8, <2>9, <2>11 DEF IInv
<1> QED  BY <1>8, <1>9

LEMMA RunDequeueIInv == ASSUME IInv, NEW t \in Threads, RunDequeue(t) PROVE IInv'
<1> USE DEF RunDequeue, InPass
<1> DEFINE E == enqueue_attempts_
           D == dequeue_attempts_
           a == Head(D)
<1>0. /\ TypeOK /\ E \in Seq(AttemptType) /\ D \in Seq(AttemptType) /\ queue \in Seq(Element)
      /\ Len(queue) \in Nat
      /\ mu = t /\ thread[t].pc = "locked" /\ thread[t].pass = "dequeue"
  BY TypeParts DEF IInv
<1>1. Tail(D) \in Seq(AttemptType) /\ a = D[1] /\ 1 \in 1..Len(D) /\ DOMAIN D = 1..Len(D)
  BY <1>0, DerivesTail, AttemptFacts
<1>2. a \in AttemptType /\ a.op \in Ops /\ a.left \in Nat /\ a.tuple \in Seq(Element)
  BY <1>0, <1>1, AttemptFacts
<1>3. (closed_ => E = << >>) /\ (~thread[t].changed => EnqueuesBlocked)
  BY <1>0 DEF IInv, Rounds
<1>4. Derives(E', E, [i \in 1..Len(E) |-> i])
  BY <1>0, DerivesItself
<1>5. ASSUME Complete(t, a.op), D' = Tail(D), queue' \in Seq(Element),
             status' \in [Ops -> {"OK", "Cancelled", "OutOfRange"}],
             result' \in [Ops -> Seq(Element)]
      PROVE  IInv'
  <2>1. PICK r \in ThreadType :
          /\ thread' = [thread EXCEPT ![t] = r]
          /\ r.pc = thread[t].pc /\ r.pass = thread[t].pass
          /\ r.changed = TRUE /\ r.todo = Append(thread[t].todo, a.op)
    BY <1>0, <1>2, <1>5, CompleteFacts
  <2>2. thread' \in [Threads -> ThreadType]
    BY <1>0, <2>1, ThreadChange
  <2>3. TypeOK'
    BY <1>0, <1>1, <1>5, <2>2, TypeParts, TypeAgain DEF TypeOK
  <2>4. Shape' /\ Rights'
    BY <1>0, <1>5, <2>1, TakesDequeue
  <2>5. Rounds'
    BY <1>0, <1>3, <2>1, RoundGoesOn
  <2> QED  BY <2>3, <2>4, <2>5 DEF IInv
<1>6. ASSUME NEW progress \in BOOLEAN, PassDone(t, progress),
             D' \in Seq(AttemptType), NEW g, Derives(D', D, g),
             queue' \in Seq(Element), status' \in [Ops -> {"OK", "Cancelled", "OutOfRange"}],
             result' \in [Ops -> Seq(Element)],
             ~progress => ~closed_ /\ queue = << >> /\ queue' = << >>
      PROVE  IInv'
  <2>1. PICK r \in ThreadType :
          /\ thread' = [thread EXCEPT ![t] = r]
          /\ r.pc = thread[t].pc /\ r.todo = thread[t].todo
          /\ r.changed <=> (thread[t].changed \/ progress)
          /\ r.pass = IF thread[t].pass = "enqueue" THEN "dequeue" ELSE "end"
    BY <1>0, <1>6, PassDoneFacts
  <2>2. thread' \in [Threads -> ThreadType]
    BY <1>0, <2>1, ThreadChange
  <2>3. TypeOK'
    BY <1>0, <1>6, <2>2, TypeParts, TypeAgain DEF TypeOK
  <2>4. Shape' /\ Rights'
    BY <1>0, <1>4, <1>6, <2>1, SameList
  <2>5. ~r.changed => EnqueuesBlocked' /\ DequeuesBlocked'
    <3> SUFFICES ASSUME ~r.changed PROVE EnqueuesBlocked' /\ DequeuesBlocked'
      OBVIOUS
    <3>1. EnqueuesBlocked /\ ~closed_ /\ queue = << >> /\ queue' = << >>
      BY <1>3, <1>6, <2>1
    <3> QED  BY <3>1 DEF EnqueuesBlocked, DequeuesBlocked
  <2>6. Rounds'
    BY <1>0, <2>1, <2>5, RoundGoesOn
  <2> QED  BY <2>3, <2>4, <2>6 DEF IInv
<1>7. CASE closed_ /\ Len(queue) < a.left
  <2> DEFINE small == program[a.op].kind = "DequeueUpTo"
             yields == small /\ Restored(a) = << >> /\ E # << >>
             some == small /\ Restored(a) # << >>
  <2>1. ~yields
    BY <1>3, <1>7
  <2>2. /\ queue' = IF some THEN << >> ELSE Restored(a)
        /\ result' = IF some THEN [result EXCEPT ![a.op] = Restored(a)] ELSE result
        /\ status' = IF some \/ yields THEN status ELSE Updated(a.op, "OutOfRange")
        /\ IF yields THEN PassDone(t, TRUE) ELSE Complete(t, a.op)
        /\ D' = IF yields THEN D ELSE Tail(D)
    BY <1>7 DEF RunDequeueClosed
  <2> HIDE DEF yields, some
  <2>3. Restored(a) \in Seq(Element)
    BY <1>0, <1>2, ConcatProperties DEF Restored
  <2>4. queue' \in Seq(Element) /\ Complete(t, a.op) /\ D' = Tail(D)
    BY <2>1, <2>2, <2>3
  <2>5. result' \in [Ops -> Seq(Element)]
    BY <1>0, <2>2, <2>3, TypeParts
  <2>6. status' \in [Ops -> {"OK", "Cancelled", "OutOfRange"}]
    BY <1>0, <1>2, <2>2, TypeParts, UpdatedType
  <2> QED  BY <1>5, <2>4, <2>5, <2>6
<1>8. CASE ~(closed_ /\ Len(queue) < a.left)
  <2> DEFINE k == IF Len(queue) < a.left THEN Len(queue) ELSE a.left
             tuple == a.tuple \o SubSeq(queue, 1, k)
  <2>1. /\ queue' = SubSeq(queue, k + 1, Len(queue)) /\ status' = status
        /\ k = a.left => /\ Complete(t, a.op) /\ D' = Tail(D)
                         /\ result' = [result EXCEPT ![a.op] = tuple]
        /\ k # a.left => /\ PassDone(t, k > 0) /\ result' = result
                         /\ D' = [D EXCEPT ![1].left = @ - k, ![1].tuple = tuple]
    BY <1>8 DEF RunDequeueOpen
  <2>2. k \in Nat /\ k <= Len(queue) /\ k <= a.left
    BY <1>0, <1>2
  <2>3. k # a.left => ~closed_ /\ k = Len(queue)
    BY <1>0, <1>2, <1>8
  <2> HIDE DEF k
  <2>4. SubSeq(queue, 1, k) \in Seq(Element)
    BY <1>0, <2>2, SubSeqProperties
  <2>5. queue' \in Seq(Element)
    BY <1>0, <2>1, <2>2, SubSeqProperties
  <2>6. tuple \in Seq(Element)
    BY <1>2, <2>4, ConcatProperties
  <2> HIDE DEF tuple
  <2>7. status' \in [Ops -> {"OK", "Cancelled", "OutOfRange"}]
    BY <1>0, <2>1, TypeParts
  <2>8. CASE k = a.left
    <3>1. result' \in [Ops -> Seq(Element)]
      BY <1>0, <2>1, <2>6, <2>8, TypeParts
    <3> QED  BY <1>5, <2>1, <2>5, <2>7, <2>8, <3>1
  <2>9. CASE k # a.left
    <3> DEFINE b == [a EXCEPT !.left = @ - k, !.tuple = tuple]
    <3>1. b \in AttemptType /\ b.op = a.op /\ b.left = a.left - k /\ b.cancelled = a.cancelled
      <4>1. a.left - k \in Nat
        BY <1>2, <2>2
      <4> QED  BY <1>2, <2>6, <4>1 DEF AttemptType
    <3>2. D' = [D EXCEPT ![1] = b]
      BY <1>1, <2>1, <2>9
    <3> HIDE DEF b
    <3>3. b.op = D[1].op /\ b.left <= D[1].left /\ b.cancelled = D[1].cancelled
      BY <1>1, <1>2, <2>2, <3>1
    <3>4. D # << >>
      OBVIOUS
    <3>5. D' \in Seq(AttemptType) /\ Derives(D', D, [i \in 1..Len(D) |-> i])
      <4> HIDE DEF D
      <4>1. b \in AttemptType /\ D \in Seq(AttemptType) /\ D' = [D EXCEPT ![1] = b]
        BY <1>0, <3>1, <3>2
      <4> QED  BY <3>3, <3>4, <4>1, FirstAttempt
    <3>6. result' \in [Ops -> Seq(Element)]
      BY <1>0, <2>1, <2>9, TypeParts
    <3>7. k = 0 => queue = << >> /\ queue' = << >>
      <4>1. k = 0 => queue = << >>
        BY <1>0, <2>3, <2>9
      <4>2. k = 0 => queue' = SubSeq(<< >>, 1, 0)
        BY <2>1, <4>1
      <4> QED  BY <4>1, <4>2
    <3>8. (k > 0) \in BOOLEAN /\ (~(k > 0) => k = 0)
      BY <2>2
    <3> QED  BY <1>6, <2>1, <2>3, <2>5, <2>7, <2>9, <3>5, <3>6, <3>7, <3>8
  <2> QED  BY <2>8, <2>9
<1> QED  BY <1>7, <1>8

\* A thread answers the first op of its list.
LEMMA AnswersFirst ==
    ASSUME IInv, NEW t \in Threads, NEW r \in ThreadType, thread' = [thread EXCEPT ![t] = r],
           thread[t].todo # << >>, r.todo = Tail(thread[t].todo),
           answers' = [answers EXCEPT ![Head(thread[t].todo)] = @ + 1],
           UNCHANGED <<program, enqueue_attempts_, dequeue_attempts_, mu>>,
           r.pc \notin {"idle", "locked", "exit"}, thread[t].pc \notin {"locked", "exit"},
           r.pc = "callbacks" => r.todo # << >>
    PROVE  Shape' /\ Rights' /\ answers' \in [Ops -> Nat]
<1> DEFINE E == enqueue_attempts_
           D == dequeue_attempts_
           q == thread[t].todo
<1>a. PICK o : o = Head(q)
  OBVIOUS
<1>0. TypeOK /\ E \in Seq(AttemptType) /\ D \in Seq(AttemptType) /\ answers \in [Ops -> Nat]
  BY TypeParts DEF IInv
<1>1. /\ thread' \in [Threads -> ThreadType] /\ thread'[t] = r
      /\ \A u \in Threads : u # t => thread'[u] = thread[u]
  BY <1>0, ThreadChange
<1>2. /\ q \in Seq(Ops) /\ Len(q) \in Nat /\ 1 \in 1..Len(q) /\ o = q[1] /\ o \in Ops
      /\ Len(r.todo) = Len(q) - 1
      /\ \A i \in 1..Len(r.todo) : r.todo[i] = q[i + 1] /\ i + 1 \in 1..Len(q)
  <2>1. q \in Seq(Ops)
    BY <1>0, ThreadFacts
  <2> QED  BY <1>a, <2>1
<1>3. answers[o] = 0 /\ program[o].kind # "CloseAndCancel"
  BY <1>2 DEF IInv, Rights
<1>4. answers' \in [Ops -> Nat] /\ answers'[o] = 1 /\ \A p \in Ops : p # o => answers'[p] = answers[p]
  BY <1>0, <1>2, <1>3, <1>a
<1>5. Has(t, o)
  BY <1>2 DEF Has
<1>6. \A u, v \in Threads : \A i \in 1..Len(thread[u].todo), j \in 1..Len(thread[v].todo) :
        thread[u].todo[i] = thread[v].todo[j] => u = v /\ i = j
  BY DEF IInv, Rights
<1>7. \A u \in Threads : \A i \in 1..Len(thread'[u].todo) :
        \E j \in 1..Len(thread[u].todo) :
          /\ thread'[u].todo[i] = thread[u].todo[j]
          /\ (u = t => j = i + 1) /\ (u # t => j = i)
  BY <1>1, <1>2
<1>8. \A u \in Threads : \A i \in 1..Len(thread'[u].todo) : thread'[u].todo[i] # o
  <2> SUFFICES ASSUME NEW u \in Threads, NEW i \in 1..Len(thread'[u].todo) PROVE thread'[u].todo[i] # o
    OBVIOUS
  <2>1. PICK j \in 1..Len(thread[u].todo) :
          /\ thread'[u].todo[i] = thread[u].todo[j]
          /\ (u = t => j = i + 1) /\ (u # t => j = i)
    BY <1>7
  <2>2. u = t => j # 1
    <3>1. u = t => i \in 1..Len(r.todo)
      BY <1>1
    <3> QED  BY <1>2, <2>1, <3>1
  <2> QED  BY <1>2, <1>6, <2>1, <2>2
<1>9. \A u \in Threads : \A p : (\E i \in 1..Len(thread'[u].todo) : thread'[u].todo[i] = p) => Has(u, p)
  BY <1>7 DEF Has
<1>10. Shape'
  <2>1. \A u \in Threads : thread'[u].pc = "locked" <=> mu' = u
    BY <1>1 DEF IInv, Shape
  <2>2. \A u \in Threads : thread'[u].pc = "callbacks" => thread'[u].todo # << >>
    BY <1>1 DEF IInv, Shape
  <2> QED  BY <2>1, <2>2 DEF IInv, Shape, IsDequeue
<1>11. Rights'
  <2>1. /\ \A i, j \in 1..Len(E) : E[i].op = E[j].op => i = j
        /\ \A i, j \in 1..Len(D) : D[i].op = D[j].op => i = j
    BY DEF IInv, Rights
  <2> DEFINE Has1(u, p) == \E i \in 1..Len(thread'[u].todo) : thread'[u].todo[i] = p
  <2>2. \A i \in 1..Len(E) : ~E[i].cancelled =>
          answers'[E[i].op] = 0 /\ \A u \in Threads : ~Has1(u, E[i].op)
    <3>1. \A i \in 1..Len(E) : E[i].op \in Ops
      BY <1>0, AttemptFacts
    <3>2. \A i \in 1..Len(E) : ~E[i].cancelled =>
            answers[E[i].op] = 0 /\ \A u \in Threads : ~Has(u, E[i].op)
      BY DEF IInv, Rights
    <3> HIDE DEF Has
    <3> QED  BY <1>4, <1>5, <1>9, <3>1, <3>2
  <2>3. \A i \in 1..Len(D) : ~D[i].cancelled =>
          answers'[D[i].op] = 0 /\ \A u \in Threads : ~Has1(u, D[i].op)
    <3>1. \A i \in 1..Len(D) : D[i].op \in Ops
      BY <1>0, AttemptFacts
    <3>2. \A i \in 1..Len(D) : ~D[i].cancelled =>
            answers[D[i].op] = 0 /\ \A u \in Threads : ~Has(u, D[i].op)
      BY DEF IInv, Rights
    <3> HIDE DEF Has
    <3> QED  BY <1>4, <1>5, <1>9, <3>1, <3>2
  <2>4. ASSUME NEW u \in Threads, NEW i \in 1..Len(thread'[u].todo)
        PROVE  answers'[thread'[u].todo[i]] = 0 /\ program'[thread'[u].todo[i]].kind # "CloseAndCancel"
    <3>1. PICK j \in 1..Len(thread[u].todo) : thread'[u].todo[i] = thread[u].todo[j]
      BY <1>7
    <3>2. thread[u].todo[j] \in Ops
      BY <1>0, ThreadFacts
    <3>3. answers[thread[u].todo[j]] = 0 /\ program[thread[u].todo[j]].kind # "CloseAndCancel"
      BY DEF IInv, Rights
    <3> QED  BY <1>4, <1>8, <3>1, <3>2, <3>3
  <2>5. ASSUME NEW u \in Threads, NEW v \in Threads,
               NEW i \in 1..Len(thread'[u].todo), NEW j \in 1..Len(thread'[v].todo),
               thread'[u].todo[i] = thread'[v].todo[j]
        PROVE  u = v /\ i = j
    <3>1. PICK k \in 1..Len(thread[u].todo) :
            /\ thread'[u].todo[i] = thread[u].todo[k]
            /\ (u = t => k = i + 1) /\ (u # t => k = i)
      BY <1>7
    <3>2. PICK l \in 1..Len(thread[v].todo) :
            /\ thread'[v].todo[j] = thread[v].todo[l]
            /\ (v = t => l = j + 1) /\ (v # t => l = j)
      BY <1>7
    <3>3. u = v /\ k = l
      BY <1>6, <2>5, <3>1, <3>2
    <3>4. u = t => i \in 1..Len(r.todo) /\ j \in 1..Len(r.todo)
      BY <1>1, <3>3
    <3> QED  BY <1>2, <3>1, <3>2, <3>3, <3>4
  <2>6. ASSUME NEW p \in Ops, thread'[p].pc = "idle"
        PROVE  /\ \A i \in 1..Len(E) : E[i].op # p
               /\ \A i \in 1..Len(D) : D[i].op # p
               /\ \A u \in Threads : ~Has1(u, p)
    <3>1. thread[p].pc = "idle"
      BY <1>1, <2>6 DEF Threads
    <3>2. /\ \A i \in 1..Len(E) : E[i].op # p
          /\ \A i \in 1..Len(D) : D[i].op # p
          /\ \A u \in Threads : ~Has(u, p)
      BY <3>1 DEF IInv, Rights
    <3> HIDE DEF Has
    <3> QED  BY <1>9, <3>2
  <2>7. \A p \in Ops : program'[p].kind = "CloseAndCancel" /\ thread'[p].pc # "exit" => answers'[p] = 0
    <3>1. \A p \in Ops : thread'[p].pc # "exit" => thread[p].pc # "exit"
      BY <1>1 DEF Threads
    <3> QED  BY <1>3, <1>4, <3>1 DEF IInv, Rights
  <2>8. AnsweredOnce'
    BY <1>4 DEF IInv, Rights, AnsweredOnce
  <2>9. E' = E /\ D' = D
    OBVIOUS
  <2> HIDE DEF E, D
  <2>10. /\ \A i, j \in 1..Len(E') : E'[i].op = E'[j].op => i = j
         /\ \A i, j \in 1..Len(D') : D'[i].op = D'[j].op => i = j
    BY <2>1, <2>9
  <2>11. \A i \in 1..Len(E') : ~E'[i].cancelled =>
          answers'[E'[i].op] = 0 /\ \A u \in Threads : ~Has1(u, E'[i].op)
    BY <2>2, <2>9
  <2>12. \A i \in 1..Len(D') : ~D'[i].cancelled =>
          answers'[D'[i].op] = 0 /\ \A u \in Threads : ~Has1(u, D'[i].op)
    BY <2>3, <2>9
  <2>13. \A p \in Ops : thread'[p].pc = "idle" =>
           /\ \A i \in 1..Len(E') : E'[i].op # p
           /\ \A i \in 1..Len(D') : D'[i].op # p
           /\ \A u \in Threads : ~Has1(u, p)
    BY <2>6, <2>9
  <2> QED  BY <2>4, <2>5, <2>7, <2>8, <2>10, <2>11, <2>12, <2>13, Zenon DEF Rights, Has, E, D
<1> QED  BY <1>4, <1>10, <1>11

LEMMA RunCallbackIInv == ASSUME IInv, NEW t \in Threads, RunCallback(t) PROVE IInv'
<1> USE DEF RunCallback, attemptVars
<1> DEFINE q == thread[t].todo
           r == [thread[t] EXCEPT !.todo = Tail(@), !.pc = AfterCallbacks(Tail(q), "flush")]
<1>0. TypeOK /\ thread[t].pc = "callbacks" /\ q # << >>
  BY DEF IInv, Shape
<1>1. thread \in [Threads -> ThreadType] /\ thread[t] \in ThreadType /\ q \in Seq(Ops)
  BY <1>0, ThreadFacts
<1>2. Tail(q) \in Seq(Ops)
  BY <1>0, <1>1
<1>3. AfterCallbacks(Tail(q), "flush") = IF Tail(q) = << >> THEN "flush" ELSE "callbacks"
  BY DEF AfterCallbacks
<1>4. r \in ThreadType /\ r.todo = Tail(q) /\ r.pc = AfterCallbacks(Tail(q), "flush")
  BY <1>1, <1>2, <1>3 DEF ThreadType
<1>5. thread' = [thread EXCEPT ![t] = r]
  BY <1>1
<1>6. r.pc = IF Tail(q) = << >> THEN "flush" ELSE "callbacks"
  BY <1>3, <1>4
<1> HIDE DEF r
<1>7. thread' \in [Threads -> ThreadType]
  BY <1>0, <1>4, <1>5, ThreadChange
<1>8. Shape' /\ Rights' /\ answers' \in [Ops -> Nat]
  BY <1>0, <1>4, <1>5, <1>6, AnswersFirst
<1>9. TypeOK'
  BY <1>0, <1>7, <1>8, TypeParts, TypeAgain DEF TypeOK
<1>10. Rounds'
  BY <1>0, <1>4, <1>5, <1>6, RoundAside
<1> QED  BY <1>8, <1>9, <1>10 DEF IInv

LEMMA CleanUpIInv == ASSUME IInv, NEW t \in Threads, CleanUp(t) PROVE IInv'
<1> USE DEF CleanUp, attemptVars
<1> DEFINE q == thread[t].todo
           r == [thread[t] EXCEPT !.todo = Tail(@)]
           o == Head(q)
<1>0. TypeOK /\ thread[t].pc = "cleanup" /\ q # << >>
  BY DEF IInv
<1>1. thread \in [Threads -> ThreadType] /\ thread[t] \in ThreadType /\ q \in Seq(Ops)
  BY <1>0, ThreadFacts
<1>2. Tail(q) \in Seq(Ops) /\ o \in Ops
  BY <1>0, <1>1
<1>3. r \in ThreadType /\ r.todo = Tail(q) /\ r.pc = "cleanup"
  BY <1>0, <1>1, <1>2 DEF ThreadType
<1>4. thread' = [thread EXCEPT ![t] = r]
  BY <1>1
<1> HIDE DEF r
<1>5. thread' \in [Threads -> ThreadType]
  BY <1>0, <1>3, <1>4, ThreadChange
<1>6. Shape' /\ Rights' /\ answers' \in [Ops -> Nat]
  BY <1>0, <1>3, <1>4, AnswersFirst
<1>7. manager' \in [Steps -> [state : {"active", "cancelling", "cancelled"}, callbacks : SUBSET Ops]]
  BY <1>0 DEF TypeOK
<1>8. TypeOK'
  BY <1>0, <1>5, <1>6, <1>7, TypeParts, TypeAgain
<1>9. Rounds'
  BY <1>0, <1>3, <1>4, RoundAside
<1> QED  BY <1>6, <1>8, <1>9 DEF IInv

LEMMA CleanUpDoneIInv == ASSUME IInv, NEW t \in Threads, CleanUpDone(t) PROVE IInv'
<1> USE DEF CleanUpDone, attemptVars
<1> DEFINE E == enqueue_attempts_
           D == dequeue_attempts_
           r == [thread[t] EXCEPT !.pc = IF t \in Steps THEN "idle" ELSE "exit"]
<1>0. TypeOK /\ thread[t].pc = "cleanup"
  BY DEF IInv
<1>1. /\ r \in ThreadType /\ r.todo = thread[t].todo
      /\ r.pc = IF t \in Steps THEN "idle" ELSE "exit"
      /\ thread' = [thread EXCEPT ![t] = r]
  BY <1>0, ThreadFacts DEF ThreadType
<1> HIDE DEF r
<1>2. /\ thread' \in [Threads -> ThreadType] /\ thread'[t] = r
      /\ \A u \in Threads : u # t => thread'[u] = thread[u]
  BY <1>0, <1>1, ThreadChange
<1>3. t \in Ops => t \notin Steps
  BY ThreadsAssumption
<1>4. Rounds'
  BY <1>0, <1>1, RoundAside
<1>5. CASE ~(t \in Ops /\ program[t].kind = "CloseAndCancel")
  <2>1. TypeOK'
    BY <1>0, <1>2, <1>5, TypeParts, TypeAgain DEF TypeOK
  <2>2. Shape' /\ Rights'
    BY <1>0, <1>1, <1>3, <1>5, Onward
  <2> QED  BY <1>4, <2>1, <2>2 DEF IInv
<1>6. CASE t \in Ops /\ program[t].kind = "CloseAndCancel"
  <2>1. answers[t] = 0
    BY <1>0, <1>6 DEF IInv, Rights
  <2>2. answers' \in [Ops -> Nat] /\ answers'[t] = 1 /\ \A p \in Ops : p # t => answers'[p] = answers[p]
    BY <1>0, <1>6, <2>1, TypeParts
  <2>3. TypeOK'
    BY <1>0, <1>2, <2>2, TypeParts, TypeAgain DEF TypeOK
  <2>4. /\ \A u \in Threads : thread'[u].todo = thread[u].todo
        /\ \A p \in Ops : thread'[p].pc = "idle" => thread[p].pc = "idle"
        /\ \A p \in Ops : thread'[p].pc # "exit" => thread[p].pc # "exit" /\ p # t
    BY <1>1, <1>2, <1>3, <1>6 DEF Threads
  <2>5. \A u \in Threads : \A p : Has(u, p)' <=> Has(u, p)
    BY <2>4 DEF Has
  <2>6. Shape'
    BY <1>0, <1>1, <1>2 DEF IInv, Shape, IsDequeue
  <2>7. \A i \in 1..Len(E) : E[i].op \in Ops /\ E[i].op # t
    BY <1>0, <1>6, TypeParts, AttemptFacts DEF IInv, Shape
  <2>8. \A i \in 1..Len(D) : D[i].op \in Ops /\ D[i].op # t
    BY <1>0, <1>6, TypeParts, AttemptFacts DEF IInv, Shape, IsDequeue
  <2>9. \A u \in Threads : \A i \in 1..Len(thread[u].todo) :
          thread[u].todo[i] \in Ops /\ thread[u].todo[i] # t
    BY <1>0, <1>6, ThreadFacts DEF IInv, Rights
  <2>10. /\ \A i \in 1..Len(E) : ~E[i].cancelled =>
              answers'[E[i].op] = 0 /\ \A u \in Threads : ~Has(u, E[i].op)
         /\ \A i \in 1..Len(D) : ~D[i].cancelled =>
              answers'[D[i].op] = 0 /\ \A u \in Threads : ~Has(u, D[i].op)
    BY <2>2, <2>7, <2>8 DEF IInv, Rights
  <2>11. \A u \in Threads : \A i \in 1..Len(thread[u].todo) :
           /\ answers'[thread[u].todo[i]] = 0
           /\ program[thread[u].todo[i]].kind # "CloseAndCancel"
    BY <2>2, <2>9 DEF IInv, Rights
  <2>12. \A p \in Ops : program[p].kind = "CloseAndCancel" /\ thread'[p].pc # "exit" => answers'[p] = 0
    BY <2>2, <2>4 DEF IInv, Rights
  <2>13. AnsweredOnce'
    BY <2>2 DEF IInv, Rights, AnsweredOnce
  <2>14. Rights'
    <3> HIDE DEF Has
    <3> QED  BY <2>4, <2>5, <2>10, <2>11, <2>12, <2>13 DEF IInv, Rights
  <2> QED  BY <1>4, <2>3, <2>6, <2>14 DEF IInv
<1> QED  BY <1>5, <1>6

-----------------------------------------------------------------------------
(* Closing and cancelling.                                                 *)

\* Only the manager of a step changes.
LEMMA ManagerOnly ==
    ASSUME IInv, UNCHANGED <<program, attemptVars, mu, thread, status, answerVars, entered>>,
           manager' \in [Steps -> [state : {"active", "cancelling", "cancelled"},
                                   callbacks : SUBSET Ops]]
    PROVE  IInv'
<1> USE DEF attemptVars, answerVars
<1>0. TypeOK
  BY DEF IInv
<1>1. TypeOK'
  BY <1>0, TypeParts, ThreadFacts, TypeAgain
<1>2. Shape'
  BY DEF IInv, Shape, IsDequeue
<1>3. \A u \in Threads : \A p : Has(u, p)' <=> Has(u, p)
  BY DEF Has
<1>4. Rights'
  BY <1>3 DEF IInv, Rights, AnsweredOnce
<1>5. Rounds'
  BY DEF IInv, Rounds, EnqueuesBlocked, DequeuesBlocked, Flushing
<1> QED  BY <1>1, <1>2, <1>4, <1>5 DEF IInv

\* When nobody holds mu_, a thread that is about to flush makes every change good.
LEMMA FlushOwed ==
    ASSUME IInv, NEW t \in Threads, mu = None, UNCHANGED mu,
           NEW r \in ThreadType, thread' = [thread EXCEPT ![t] = r], r.pc \in {"callbacks", "flush"}
    PROVE  Rounds'
<1>1. thread'[t] = r /\ \A u \in Threads : u # t => thread'[u] = thread[u]
  BY ThreadChange DEF IInv
<1>2. \A u \in Threads : thread[u].pc # "locked"
  BY ThreadsAssumption DEF IInv, Shape
<1>3. \A u \in Threads : thread'[u].pc # "locked"
  BY <1>1, <1>2
<1>4. Flushing'
  BY <1>1 DEF Flushing
<1> QED  BY <1>3, <1>4 DEF Rounds

LEMMA CloseAndCancelIInv == ASSUME IInv, NEW o \in Ops, CloseAndCancel(o) PROVE IInv'
<1> USE DEF CloseAndCancel, NotStarted, answerVars
<1> DEFINE E == enqueue_attempts_
           D == dequeue_attempts_
<1>0. /\ TypeOK /\ E \in Seq(AttemptType) /\ D \in Seq(AttemptType) /\ o \in Threads
      /\ thread[o].pc = "idle"
  BY TypeParts DEF IInv, Threads
<1>1. PICK live : live = LiveOps(E)
  OBVIOUS
<1>2. /\ E' = MarkCancelled(E, ToSet(live))
      /\ status' = [p \in Ops |-> IF p \in ToSet(live) THEN Updated(p, "Cancelled")[p] ELSE status[p]]
      /\ thread' = [thread EXCEPT ![o].todo = live, ![o].pc = AfterCallbacks(live, "flush")]
  BY <1>1
<1>3. \A i, j \in 1..Len(E) : E[i].op = E[j].op => i = j
  BY DEF IInv, Rights
<1>4. /\ live \in Seq(Ops)
      /\ \A k \in 1..Len(live) : \E i \in 1..Len(E) : ~E[i].cancelled /\ live[k] = E[i].op
      /\ \A k, l \in 1..Len(live) : live[k] = live[l] => k = l
  BY <1>0, <1>1, <1>3, LiveOpsFacts, SMTT(30)
<1>5. \A k \in 1..Len(live) : live[k] \in ToSet(live)
  BY <1>4 DEF ToSet
<1>6. AfterCallbacks(live, "flush") = IF live = << >> THEN "flush" ELSE "callbacks"
  BY DEF AfterCallbacks
<1>7. thread \in [Threads -> ThreadType] /\ thread[o] \in ThreadType
  BY <1>0, ThreadFacts
<1>8. PICK r \in ThreadType :
        /\ thread' = [thread EXCEPT ![o] = r] /\ r.todo = live
        /\ r.pc = IF live = << >> THEN "flush" ELSE "callbacks"
  <2> DEFINE c == [thread[o] EXCEPT !.todo = live, !.pc = AfterCallbacks(live, "flush")]
  <2>1. c \in ThreadType /\ c.todo = live /\ c.pc = IF live = << >> THEN "flush" ELSE "callbacks"
    BY <1>4, <1>6, <1>7 DEF ThreadType
  <2>2. thread' = [thread EXCEPT ![o] = c]
    BY <1>2, <1>7
  <2> HIDE DEF c
  <2> QED  BY <2>1, <2>2
<1>10. thread' \in [Threads -> ThreadType]
  BY <1>0, <1>8, ThreadChange
<1>11. /\ E' \in Seq(AttemptType) /\ Len(E') = Len(E)
       /\ \A i \in 1..Len(E) : /\ E'[i].op = E[i].op
                               /\ E'[i].cancelled <=> (E[i].cancelled \/ E[i].op \in ToSet(live))
       /\ Derives(E', E, [i \in 1..Len(E) |-> i])
  BY <1>0, <1>2, MarkFacts
<1>12. Derives(D', D, [i \in 1..Len(D) |-> i])
  BY <1>0, DerivesItself
<1>13. \A i \in 1..Len(r.todo) : Live(r.todo[i])
  BY <1>4, <1>8 DEF Live
<1>14. ASSUME NEW i \in 1..Len(live) PROVE ~Live(live[i])'
  <2>1. PICK j \in 1..Len(E) : ~E[j].cancelled /\ live[i] = E[j].op
    BY <1>4
  <2>2. \A k \in 1..Len(E') : E'[k].op = live[i] => E'[k].cancelled
    BY <1>5, <1>11
  <2>3. \A k \in 1..Len(D') : D'[k].op # live[i]
    BY <2>1 DEF IInv, Shape, IsDequeue
  <2> QED  BY <2>2, <2>3 DEF Live
<1>15. \A i \in 1..Len(r.todo) : ~Live(r.todo[i])'
  <2> HIDE DEF Live
  <2> QED  BY <1>8, <1>14
<1> HIDE DEF Live, Has
<1>16. Shape' /\ Rights'
  <2>1. \A i, j \in 1..Len(r.todo) : r.todo[i] = r.todo[j] => i = j
    BY <1>4, <1>8
  <2>2. r.pc \in {"flush", "callbacks"} /\ (r.pc = "callbacks" => r.todo # << >>)
    BY <1>8
  <2>3. /\ thread' = [thread EXCEPT ![o] = r] /\ UNCHANGED <<program, answers, mu>>
        /\ D' \in Seq(AttemptType)
    BY <1>0, <1>8
  <2>4. E' \in Seq(AttemptType) /\ Derives(E', E, [i \in 1..Len(E) |-> i])
    BY <1>11
  <2> HIDE DEF CloseAndCancel
  <2> QED  BY <1>0, <1>12, <1>13, <1>15, <2>1, <2>2, <2>3, <2>4, Handover
<1>17. status' \in [Ops -> {"OK", "Cancelled", "OutOfRange"}]
  BY <1>0, <1>2, TypeParts DEF Updated
<1>18. TypeOK'
  BY <1>0, <1>10, <1>11, <1>17, TypeParts, TypeAgain DEF TypeOK
<1>19. Rounds'
  BY <1>0, <1>8, FlushOwed
<1> QED  BY <1>16, <1>18, <1>19 DEF IInv

\* The ops that wait are different ones.
LEMMA CancellableFacts ==
    ASSUME IInv
    PROVE  /\ Cancellable \in Seq(AttemptType)
           /\ \A i, j \in 1..Len(Cancellable) : Cancellable[i].op = Cancellable[j].op => i = j
           /\ \A i \in 1..Len(Cancellable) : ~Cancellable[i].cancelled => Live(Cancellable[i].op)
           /\ \A o : Live(o) => \E i \in 1..Len(Cancellable) :
                                  ~Cancellable[i].cancelled /\ Cancellable[i].op = o
<1> DEFINE E == enqueue_attempts_
           D == dequeue_attempts_
           C == Cancellable
<1>0. TypeOK /\ E \in Seq(AttemptType) /\ D \in Seq(AttemptType) /\ Len(E) \in Nat /\ Len(D) \in Nat
  BY TypeParts DEF IInv
<1>1. /\ C \in Seq(AttemptType) /\ Len(C) = Len(E) + Len(D)
      /\ \A i \in 1..Len(E) : C[i] = E[i] /\ i \in 1..Len(C)
      /\ \A i \in 1..Len(D) : C[Len(E) + i] = D[i] /\ Len(E) + i \in 1..Len(C)
  BY <1>0, ConcatProperties DEF Cancellable
<1>2. \A i \in 1..Len(C) : \/ i \in 1..Len(E) /\ C[i] = E[i]
                           \/ i - Len(E) \in 1..Len(D) /\ C[i] = D[i - Len(E)]
  <2> SUFFICES ASSUME NEW i \in 1..Len(C), ~(i \in 1..Len(E))
               PROVE  i - Len(E) \in 1..Len(D) /\ C[i] = D[i - Len(E)]
    BY <1>1
  <2>1. i - Len(E) \in 1..Len(D) /\ Len(E) + (i - Len(E)) = i
    BY <1>0, <1>1
  <2> QED  BY <1>1, <2>1
<1>3. \A i, j \in 1..Len(E) : E[i].op = E[j].op => i = j
  BY DEF IInv, Rights
<1>4. \A i, j \in 1..Len(D) : D[i].op = D[j].op => i = j
  BY DEF IInv, Rights
<1>5. \A i \in 1..Len(E), j \in 1..Len(D) : E[i].op # D[j].op
  BY DEF IInv, Shape, IsDequeue
<1>6. \A i \in 1..Len(E) : ~E[i].cancelled => Live(E[i].op)
  BY DEF Live
<1>7. \A i \in 1..Len(D) : ~D[i].cancelled => Live(D[i].op)
  BY DEF Live
<1>8. \A o : Live(o) => \/ \E i \in 1..Len(E) : ~E[i].cancelled /\ E[i].op = o
                        \/ \E i \in 1..Len(D) : ~D[i].cancelled /\ D[i].op = o
  BY DEF Live
<1> HIDE DEF E, D, C, Live
<1>9. ASSUME NEW i \in 1..Len(C), NEW j \in 1..Len(C), C[i].op = C[j].op PROVE i = j
  <2>1. CASE i \in 1..Len(E) /\ C[i] = E[i]
    BY <1>2, <1>3, <1>5, <1>9, <2>1
  <2>2. CASE i - Len(E) \in 1..Len(D) /\ C[i] = D[i - Len(E)]
    <3>1. j - Len(E) \in 1..Len(D) /\ C[j] = D[j - Len(E)]
      BY <1>2, <1>5, <1>9, <2>2
    <3>2. i - Len(E) = j - Len(E)
      BY <1>4, <1>9, <2>2, <3>1
    <3> QED  BY <1>0, <3>2
  <2> QED  BY <1>2, <2>1, <2>2
<1>10. \A i \in 1..Len(C) : ~C[i].cancelled => Live(C[i].op)
  BY <1>2, <1>6, <1>7
<1>11. \A o : Live(o) => \E i \in 1..Len(C) : ~C[i].cancelled /\ C[i].op = o
  <2> SUFFICES ASSUME NEW o, Live(o) PROVE \E i \in 1..Len(C) : ~C[i].cancelled /\ C[i].op = o
    OBVIOUS
  <2>1. CASE \E i \in 1..Len(E) : ~E[i].cancelled /\ E[i].op = o
    BY <1>1, <2>1
  <2>2. CASE \E i \in 1..Len(D) : ~D[i].cancelled /\ D[i].op = o
    BY <1>1, <2>2
  <2> QED  BY <1>8, <2>1, <2>2
<1> QED  BY <1>1, <1>9, <1>10, <1>11 DEF C

LEMMA CancelIInv == ASSUME IInv, NEW s \in Steps, NEW o \in Ops, Cancel(s, o) PROVE IInv'
<1> USE DEF Cancel, answerVars
<1> DEFINE E == enqueue_attempts_
           D == dequeue_attempts_
<1>0. TypeOK /\ E \in Seq(AttemptType) /\ D \in Seq(AttemptType) /\ s \in Threads /\ thread[s].pc = "idle"
  BY TypeParts DEF IInv, Threads
<1>1. PICK live : live = ToSet(LiveOps(Cancellable)) \cap {o}
  OBVIOUS
<1>2. /\ E' = MarkCancelled(E, live) /\ D' = MarkCancelled(D, live)
      /\ status' = IF live = {} THEN status ELSE Updated(o, "Cancelled")
      /\ thread' = IF live = {} THEN thread
                   ELSE [thread EXCEPT ![s].pc = "callbacks", ![s].todo = <<o>>]
  BY <1>1
<1>3. live \subseteq {o} /\ (o \in live => Live(o))
  <2>1. /\ LiveOps(Cancellable) \in Seq(Ops)
        /\ \A k \in 1..Len(LiveOps(Cancellable)) : \E i \in 1..Len(Cancellable) :
             ~Cancellable[i].cancelled /\ LiveOps(Cancellable)[k] = Cancellable[i].op
    BY CancellableFacts, LiveOpsFacts
  <2>2. o \in live => \E k \in 1..Len(LiveOps(Cancellable)) : LiveOps(Cancellable)[k] = o
    BY <1>1, <2>1 DEF ToSet
  <2> HIDE DEF Live
  <2> QED  BY <1>1, <2>1, <2>2, CancellableFacts
<1>4. /\ E' \in Seq(AttemptType) /\ Len(E') = Len(E)
      /\ \A i \in 1..Len(E) : /\ E'[i].op = E[i].op
                              /\ E'[i].cancelled <=> (E[i].cancelled \/ E[i].op \in live)
      /\ Derives(E', E, [i \in 1..Len(E) |-> i])
  <2>1. E' = MarkCancelled(E, live)
    BY <1>2
  <2>2. E \in Seq(AttemptType)
    BY <1>0
  <2> HIDE DEF E
  <2> QED  BY <2>1, <2>2, MarkFacts
<1>5. /\ D' \in Seq(AttemptType) /\ Len(D') = Len(D)
      /\ \A i \in 1..Len(D) : /\ D'[i].op = D[i].op
                              /\ D'[i].cancelled <=> (D[i].cancelled \/ D[i].op \in live)
      /\ Derives(D', D, [i \in 1..Len(D) |-> i])
  <2>1. D' = MarkCancelled(D, live)
    BY <1>2
  <2>2. D \in Seq(AttemptType)
    BY <1>0
  <2> HIDE DEF D
  <2> QED  BY <2>1, <2>2, MarkFacts
<1>6. manager' \in [Steps -> [state : {"active", "cancelling", "cancelled"}, callbacks : SUBSET Ops]]
  BY <1>0 DEF TypeOK
<1>7. status' \in [Ops -> {"OK", "Cancelled", "OutOfRange"}]
  BY <1>0, <1>2, TypeParts, UpdatedType
<1>8. CASE live = {}
  <2> DEFINE r == thread[s]
  <2>1. r \in ThreadType /\ thread \in [Threads -> ThreadType] /\ thread' = [thread EXCEPT ![s] = r]
    BY <1>0, <1>2, <1>8, ThreadFacts
  <2>2. thread' = thread
    BY <1>2, <1>8
  <2>3. TypeOK'
    BY <1>0, <1>4, <1>5, <1>6, <1>7, <2>1, <2>2, TypeParts, TypeAgain
  <2>4. Shape' /\ Rights'
    BY <1>0, <1>4, <1>5, <2>1, SameList
  <2>5. Rounds'
    <3>1. \A u \in Threads : thread'[u].pc # "locked"
      BY <2>2, ThreadsAssumption DEF IInv, Shape
    <3>2. (E' = << >> <=> E = << >>) /\ (D' = << >> <=> D = << >>)
      BY <1>0, <1>4, <1>5, EmptySeq
    <3>3. Flushing' <=> Flushing
      BY <2>2 DEF Flushing
    <3>4. ~Flushing => EnqueuesBlocked /\ DequeuesBlocked
      BY DEF IInv, Rounds
    <3>5. ~Flushing => EnqueuesBlocked' /\ DequeuesBlocked'
      BY <3>2, <3>4 DEF EnqueuesBlocked, DequeuesBlocked
    <3> QED  BY <3>1, <3>3, <3>5 DEF Rounds
  <2> QED  BY <2>3, <2>4, <2>5 DEF IInv
<1>9. CASE live # {}
  <2>1. PICK r \in ThreadType :
          thread' = [thread EXCEPT ![s] = r] /\ r.pc = "callbacks" /\ r.todo = <<o>>
    <3> DEFINE c == [thread[s] EXCEPT !.pc = "callbacks", !.todo = <<o>>]
    <3>1. thread \in [Threads -> ThreadType] /\ thread[s] \in ThreadType
      BY <1>0, ThreadFacts
    <3>2. c \in ThreadType /\ c.pc = "callbacks" /\ c.todo = <<o>>
      <4>1. <<o>> \in Seq(Ops)
        OBVIOUS
      <4>2. PICK q : q = <<o>>
        OBVIOUS
      <4>3. LET d == [thread[s] EXCEPT !.pc = "callbacks", !.todo = q]
            IN  d \in ThreadType /\ d.pc = "callbacks" /\ d.todo = q
        BY <3>1, <4>1, <4>2 DEF ThreadType
      <4> QED  BY <4>2, <4>3
    <3>3. thread' = [thread EXCEPT ![s] = c]
      BY <1>2, <1>9, <3>1
    <3> HIDE DEF c
    <3> QED  BY <3>2, <3>3
  <2>2. thread' \in [Threads -> ThreadType]
    BY <1>0, <2>1, ThreadChange
  <2>3. TypeOK'
    BY <1>0, <1>4, <1>5, <1>6, <1>7, <2>2, TypeParts, TypeAgain
  <2>4. o \in live /\ Live(o)
    BY <1>3, <1>9
  <2>5. ~Live(o)'
    BY <1>4, <1>5, <2>4, ZenonT(30) DEF Live
  <2>6. Len(r.todo) = 1 /\ \A i \in 1..Len(r.todo) : i = 1 /\ r.todo[i] = o
    BY <2>1
  <2> HIDE DEF Live, Has
  <2>7. \A i \in 1..Len(r.todo) : Live(r.todo[i]) /\ ~Live(r.todo[i])'
    BY <2>4, <2>5, <2>6
  <2>8. r.todo # << >> /\ \A i, j \in 1..Len(r.todo) : r.todo[i] = r.todo[j] => i = j
    BY <2>1, <2>6
  <2>9. Shape' /\ Rights'
    BY <1>0, <1>4, <1>5, <2>1, <2>7, <2>8, Handover
  <2>10. Rounds'
    BY <1>0, <2>1, FlushOwed
  <2> QED  BY <2>3, <2>9, <2>10 DEF IInv
<1> QED  BY <1>8, <1>9

-----------------------------------------------------------------------------
(* The invariant, and what follows from it.                                *)

LEMMA InitIInv == Init => IInv
<1> SUFFICES ASSUME Init PROVE IInv
  OBVIOUS
<1> USE DEF Init
<1>1. \A t \in Threads : /\ thread[t].pc = "idle" /\ thread[t].todo = << >>
                         /\ Len(thread[t].todo) = 0
  BY DEF IdleThread
<1>2. TypeOK
  <2>1. IdleThread \in ThreadType
    BY DEF IdleThread, ThreadType
  <2>2. thread \in [Threads -> ThreadType]
    BY <2>1
  <2>3. << >> \in Seq(Element) /\ << >> \in Seq(AttemptType)
    OBVIOUS
  <2>4. manager \in [Steps -> [state : {"active", "cancelling", "cancelled"}, callbacks : SUBSET Ops]]
    OBVIOUS
  <2>5. /\ status \in [Ops -> {"OK", "Cancelled", "OutOfRange"}] /\ answers \in [Ops -> Nat]
        /\ result \in [Ops -> Seq(Element)]
    BY <2>3
  <2> QED  BY <2>2, <2>3, <2>4, <2>5 DEF TypeOK, ThreadType
<1>3. Shape
  BY <1>1, ThreadsAssumption DEF Shape
<1>4. Rights
  BY <1>1 DEF Rights, Has, AnsweredOnce
<1>5. Rounds
  BY <1>1 DEF Rounds, EnqueuesBlocked, DequeuesBlocked
<1> QED  BY <1>2, <1>3, <1>4, <1>5 DEF IInv

LEMMA CallIInv == ASSUME IInv, NEW o \in Ops, Call(o) PROVE IInv'
<1>0. TypeOK
  BY DEF IInv
<1>1. program[o].n \in Nat /\ program[o].step \in Steps
  BY <1>0, CallFacts
<1>2. ASSUME AlreadyCancelled(o), NotStarted(o), program[o].kind # "CloseAndCancel" PROVE IInv'
  BY <1>0, <1>2, UpdatedType, AnsweredAtOnce DEF AlreadyCancelled
<1>3. ASSUME Registered(o)
      PROVE  manager' \in [Steps -> [state : {"active", "cancelling", "cancelled"},
                                     callbacks : SUBSET Ops]]
  BY <1>0, <1>1, <1>3, ZenonT(30) DEF Registered, StepOf, TypeOK
<1>4. CASE TryEnqueueMany(o)
  <2>1. CASE AlreadyCancelled(o)
    BY <1>2, <1>4, <2>1 DEF TryEnqueueMany
  <2>2. CASE Registered(o) /\ enqueue_attempts_' = Append(enqueue_attempts_, Attempt(o, program[o].n))
             /\ UNCHANGED dequeue_attempts_
    <3> DEFINE n == program[o].n
    <3>1. n \in Nat /\ n <= program[o].n
      BY <1>1
    <3> QED  BY <1>3, <1>4, <2>2, <3>1, NewEnqueue DEF TryEnqueueMany, Registered
  <2> QED  BY <1>4, <2>1, <2>2 DEF TryEnqueueMany
<1>5. CASE TryDequeueMany(o)
  <2>1. CASE AlreadyCancelled(o)
    BY <1>2, <1>5, <2>1 DEF TryDequeueMany, IsDequeue
  <2>2. CASE Registered(o) /\ dequeue_attempts_' = Append(dequeue_attempts_, Attempt(o, program[o].n))
             /\ UNCHANGED enqueue_attempts_
    <3>1. program[o].n <= program[o].n
      BY <1>1
    <3> QED  BY <1>1, <1>3, <1>5, <2>2, <3>1, NewDequeue DEF TryDequeueMany, Registered
  <2> QED  BY <1>5, <2>1, <2>2 DEF TryDequeueMany
<1>6. CASE EmptyBatch(o)
  <2>1. status' \in [Ops -> {"OK", "Cancelled", "OutOfRange"}]
    BY <1>0, <1>6, TypeParts DEF EmptyBatch
  <2> QED  BY <1>6, <2>1, AnsweredAtOnce DEF EmptyBatch, IsClose
<1>7. CASE Close(o)
  <2>1. manager' \in [Steps -> [state : {"active", "cancelling", "cancelled"},
                                callbacks : SUBSET Ops]]
    BY <1>0, <1>7 DEF Close, TypeOK
  <2>2. 0 \in Nat /\ 0 <= program[o].n
    BY <1>1
  <2> QED  BY <1>7, <2>1, <2>2, NewEnqueue DEF Close
<1>8. CASE CloseAndCancel(o)
  BY <1>8, CloseAndCancelIInv
<1> QED  BY <1>4, <1>5, <1>6, <1>7, <1>8 DEF Call

LEMMA ManagerIInv == ASSUME IInv, NEW s \in Steps, StartCancel(s) \/ EndCancel(s) PROVE IInv'
<1>1. manager' \in [Steps -> [state : {"active", "cancelling", "cancelled"}, callbacks : SUBSET Ops]]
  <2>1. manager \in [Steps -> [state : {"active", "cancelling", "cancelled"}, callbacks : SUBSET Ops]]
    BY DEF IInv, TypeOK
  <2>2. CASE StartCancel(s)
    BY <2>1, <2>2 DEF StartCancel
  <2>3. CASE EndCancel(s)
    BY <2>1, <2>3 DEF EndCancel
  <2> QED  BY <2>2, <2>3
<1> QED  BY <1>1, ManagerOnly DEF StartCancel, EndCancel

LEMMA StepIInv == IInv /\ [Next]_vars => IInv'
<1> SUFFICES ASSUME IInv, [Next]_vars PROVE IInv'
  OBVIOUS
<1>1. CASE \E o \in Ops : Call(o)
  BY <1>1, CallIInv
<1>2. ASSUME NEW s \in Steps, StartCancel(s) \/ Cancelling(s) PROVE IInv'
  BY <1>2, ManagerIInv, CancelIInv DEF Cancelling
<1>3. ASSUME NEW t \in Threads, Run(t) PROVE IInv'
  BY <1>3, RunCallbackIInv, BeginFlushIInv, NoAttemptIInv, SkipCancelledEnqueueIInv,
     SkipCancelledDequeueIInv, RunCloseIInv, RunEnqueueIInv, RunDequeueIInv, EndRoundIInv,
     CleanUpIInv, CleanUpDoneIInv
     DEF Run
<1>4. CASE UNCHANGED vars
  <2>1. /\ UNCHANGED <<program, attemptVars, mu, thread, status, answerVars, entered>>
        /\ UNCHANGED manager
    BY <1>4 DEF vars
  <2>2. manager' \in [Steps -> [state : {"active", "cancelling", "cancelled"}, callbacks : SUBSET Ops]]
    BY <2>1 DEF IInv, TypeOK
  <2> QED  BY <2>1, <2>2, ManagerOnly
<1> QED  BY <1>1, <1>2, <1>3, <1>4 DEF Next

LEMMA IInvInvariant == Spec => []IInv
BY InitIInv, StepIInv, PTL DEF Spec

\* The done callback of an op is called at most once, whichever of FlushUnlocked, Cancel and
\* CloseAndCancel (queue_base.cc) comes first: a cancelled attempt is answered by the thread
\* that cancelled it and is skipped by the flush, one that ran is gone when it is cancelled.
THEOREM EveryOpAnsweredOnce == Spec => []AnsweredOnce
<1>1. IInv => AnsweredOnce
  BY DEF IInv, Rights
<1> QED  BY <1>1, IInvInvariant, PTL

\* FlushUnlocked (queue_base.cc) leaves nobody behind: unless a thread is about to flush,
\* who waits waits for what is not there, and on a closed queue its dequeue pass meets no
\* enqueue to yield to, so that it never goes round in circles.
THEOREM FlushAlwaysThorough == Spec => []FlushIsThorough
<1>1. IInv => FlushIsThorough
  <2> SUFFICES ASSUME IInv PROVE FlushIsThorough
    OBVIOUS
  <2>1. NobodyOverlooked
    BY DEF IInv, Rounds, NobodyOverlooked, EnqueuesBlocked, DequeuesBlocked, Waiting
  <2>2. ClosedQueueNeverYields
    BY DEF IInv, Rounds, ClosedQueueNeverYields, InPass
  <2> QED  BY <2>1, <2>2 DEF FlushIsThorough
<1> QED  BY <1>1, IInvInvariant, PTL

-----------------------------------------------------------------------------
(* What comes out of the queue is what went in.  An element has one place: *)
(* a batch handed over, the batch that the first dequeue is gathering, or  *)
(* the queue; the places are one after the other in the order of entering. *)

\* The batch that is being gathered: only the first dequeue gathers.
Gathered == IF dequeue_attempts_ = << >> THEN << >> ELSE dequeue_attempts_[1].tuple

\* The elements that are not handed over, oldest first.
Young == Gathered \o queue

\* The elements T are the last of E, the batches R are runs of the elements before,
\* and no two of them share one.
Placed(E, T, R) ==
    /\ Len(T) <= Len(E)
    /\ \A i \in 1..Len(T) : T[i] = E[Len(E) - Len(T) + i]
    /\ \A o \in Ops : R[o] # << >> =>
         \E b \in Nat : /\ b + Len(R[o]) <= Len(E) - Len(T)
                        /\ \A k \in 1..Len(R[o]) : R[o][k] = E[b + k]
    /\ \A o, p \in Ops : o # p =>
         \A k \in 1..Len(R[o]), l \in 1..Len(R[p]) : R[o][k] # R[p][l]

\* Every element of E before T is in one of the batches R.
Covered(E, T, R) ==
    \A i \in 1..(Len(E) - Len(T)) : \E o \in Ops : \E k \in 1..Len(R[o]) : R[o][k] = E[i]

Distinct(E) == \A i, j \in 1..Len(E) : E[i] = E[j] => i = j

\* An element enters once: a waiting enqueue has let in the first ones of its elements.
Numbered ==
    /\ Distinct(entered)
    /\ \A i \in 1..Len(enqueue_attempts_), k \in 1..Len(entered) :
         entered[k][1] = enqueue_attempts_[i].op =>
           entered[k][2] <= program[enqueue_attempts_[i].op].n - enqueue_attempts_[i].left

\* What a waiting dequeue has and what it still asks for.
Batches ==
    /\ \A i \in 1..Len(dequeue_attempts_) :
         LET a == dequeue_attempts_[i]
         IN  /\ i # 1 => a.tuple = << >>
             /\ Len(a.tuple) + a.left = program[a.op].n
             /\ result[a.op] = << >>
             /\ status[a.op] = IF a.cancelled THEN "Cancelled" ELSE "OK"

\* An op that has not begun has done nothing.
Untouched ==
    \A o \in Ops : thread[o].pc = "idle" =>
      /\ status[o] = "OK" /\ answers[o] = 0 /\ result[o] = << >>
      /\ \A k \in 1..Len(entered) : entered[k][1] # o

\* A dequeue that did not fail waits or has its batch.
Filled ==
    \A o \in Ops : IsDequeue(o) /\ program[o].n > 0 /\ status[o] = "OK" /\ thread[o].pc # "idle" =>
      \/ \E i \in 1..Len(dequeue_attempts_) : dequeue_attempts_[i].op = o
      \/ Len(result[o]) = program[o].n
      \/ program[o].kind = "DequeueUpTo" /\ closed_ /\ Len(result[o]) \in 1..program[o].n

NoBatchCancelled == \A o \in Ops : ~CancelledBatch(o)

\* The inductive invariant of the elements; IInv holds as well.
OInv ==
    /\ Numbered /\ Batches /\ Untouched /\ Filled /\ WithinCapacityWhileOpen
    /\ Placed(entered, Young, result)
    /\ NoBatchCancelled => Covered(entered, Young, result)

\* Where the elements of a concatenation are.
LEMMA ConcatParts ==
    ASSUME NEW S, NEW A \in Seq(S), NEW B \in Seq(S), NEW C, C = A \o B,
           NEW m \in Nat, NEW n \in Nat, m = Len(A), n = Len(B)
    PROVE  /\ C \in Seq(S) /\ Len(C) = m + n
           /\ \A i \in 1..m : C[i] = A[i]
           /\ \A i \in 1..n : C[m + i] = B[i]
<1>1. /\ C \in Seq(S) /\ Len(C) = m + n
      /\ \A i \in 1..(m + n) : C[i] = IF i <= m THEN A[i] ELSE B[i - m]
  BY ConcatProperties
<1>2. ASSUME NEW i \in 1..m PROVE C[i] = A[i]
  <2>1. i \in 1..(m + n) /\ i <= m
    OBVIOUS
  <2> QED  BY <1>1, <2>1
<1>3. ASSUME NEW i \in 1..n PROVE C[m + i] = B[i]
  <2>1. m + i \in 1..(m + n) /\ ~(m + i <= m) /\ (m + i) - m = i
    OBVIOUS
  <2> QED  BY <1>1, <2>1
<1> QED  BY <1>1, <1>2, <1>3

\* Elements are let in.
LEMMA PlacedMore ==
    ASSUME NEW S, NEW E \in Seq(S), NEW T \in Seq(S), NEW N \in Seq(S), NEW R \in [Ops -> Seq(S)],
           Placed(E, T, R)
    PROVE  /\ Placed(E \o N, T \o N, R)
           /\ Covered(E, T, R) => Covered(E \o N, T \o N, R)
<1>1. PICK e \in Nat, m \in Nat, n \in Nat : e = Len(E) /\ m = Len(T) /\ n = Len(N)
  OBVIOUS
<1>2. PICK F, U : F = E \o N /\ U = T \o N
  OBVIOUS
<1>3. /\ F \in Seq(S) /\ Len(F) = e + n
      /\ \A i \in 1..e : F[i] = E[i]
      /\ \A i \in 1..n : F[e + i] = N[i]
  BY <1>1, <1>2, ConcatParts
<1>4. /\ U \in Seq(S) /\ Len(U) = m + n
      /\ \A i \in 1..m : U[i] = T[i]
      /\ \A i \in 1..n : U[m + i] = N[i]
  BY <1>1, <1>2, ConcatParts
<1>5. m <= e /\ Len(F) - Len(U) = e - m /\ Len(E) - Len(T) = e - m
  BY <1>1, <1>3, <1>4 DEF Placed
<1>6. ASSUME NEW i \in 1..Len(U) PROVE U[i] = F[Len(F) - Len(U) + i]
  <2>1. CASE i \in 1..m
    <3>1. e - m + i \in 1..e
      BY <1>5, <2>1
    <3>2. T[i] = E[e - m + i]
      BY <1>1, <1>5, <2>1 DEF Placed
    <3> QED  BY <1>3, <1>4, <1>5, <2>1, <3>1, <3>2
  <2>2. CASE i \notin 1..m
    <3>1. PICK j \in 1..n : i = m + j
      <4>1. i - m \in 1..n /\ i = m + (i - m)
        BY <1>4, <2>2
      <4> QED  BY <4>1
    <3>2. Len(F) - Len(U) + i = e + j
      <4>1. j \in Nat /\ (e + n) - (m + n) + (m + j) = e + j
        OBVIOUS
      <4> QED  BY <1>3, <1>4, <3>1, <4>1
    <3> QED  BY <1>3, <1>4, <3>1, <3>2
  <2> QED  BY <2>1, <2>2
<1>7. ASSUME NEW o \in Ops, R[o] # << >>
      PROVE  \E b \in Nat : /\ b + Len(R[o]) <= Len(F) - Len(U)
                            /\ \A k \in 1..Len(R[o]) : R[o][k] = F[b + k]
  <2>1. PICK b \in Nat : /\ b + Len(R[o]) <= e - m
                         /\ \A k \in 1..Len(R[o]) : R[o][k] = E[b + k]
    BY <1>1, <1>5, <1>7 DEF Placed
  <2>2. Len(R[o]) \in Nat
    OBVIOUS
  <2>3. \A k \in 1..Len(R[o]) : b + k \in 1..e
    BY <1>5, <2>1, <2>2
  <2> QED  BY <1>3, <1>5, <2>1, <2>3
<1>8. Len(U) <= Len(F)
  BY <1>3, <1>4, <1>5
<1>9. Placed(F, U, R)
  BY <1>6, <1>7, <1>8 DEF Placed
<1>10. Covered(E, T, R) => Covered(F, U, R)
  <2>1. \A i \in 1..(e - m) : i \in 1..e
    BY <1>5
  <2> QED  BY <1>3, <1>5, <2>1, ZenonT(30) DEF Covered
<1> QED  BY <1>2, <1>9, <1>10

\* The first m of the elements leave.
Rest(U, T, m) == Len(U) = Len(T) - m /\ \A i \in 1..Len(U) : U[i] = T[m + i]

LEMMA PlacedFewer ==
    ASSUME NEW S, NEW E \in Seq(S), NEW T \in Seq(S), NEW U \in Seq(S), NEW R \in [Ops -> Seq(S)],
           Placed(E, T, R), NEW m \in Nat, m <= Len(T), Rest(U, T, m)
    PROVE  Placed(E, U, R)
<1>1. PICK e \in Nat, t \in Nat : e = Len(E) /\ t = Len(T)
  OBVIOUS
<1>2. Len(U) = t - m /\ t <= e /\ Len(U) \in Nat
  BY <1>1 DEF Rest, Placed
<1>3. ASSUME NEW i \in 1..Len(U) PROVE U[i] = E[Len(E) - Len(U) + i]
  <2>1. m + i \in 1..t /\ e - t + (m + i) = e - Len(U) + i
    BY <1>2
  <2>2. T[m + i] = E[e - t + (m + i)]
    BY <1>1, <2>1 DEF Placed
  <2> QED  BY <1>1, <2>1, <2>2 DEF Rest
<1>4. ASSUME NEW o \in Ops, R[o] # << >>
      PROVE  \E b \in Nat : /\ b + Len(R[o]) <= Len(E) - Len(U)
                            /\ \A k \in 1..Len(R[o]) : R[o][k] = E[b + k]
  <2>1. PICK b \in Nat : /\ b + Len(R[o]) <= e - t
                         /\ \A k \in 1..Len(R[o]) : R[o][k] = E[b + k]
    BY <1>1, <1>4 DEF Placed
  <2>2. Len(R[o]) \in Nat
    OBVIOUS
  <2>3. b + Len(R[o]) <= e - Len(U)
    BY <1>2, <2>1, <2>2
  <2> QED  BY <1>1, <2>1, <2>3
<1>5. Len(U) <= Len(E)
  BY <1>1, <1>2
<1> QED  BY <1>3, <1>4, <1>5 DEF Placed

\* The first elements become the batch of an op that had none.
LEMMA PlacedBatch ==
    ASSUME NEW S, NEW E \in Seq(S), NEW T \in Seq(S), NEW U \in Seq(S), NEW B \in Seq(S),
           NEW R \in [Ops -> Seq(S)], NEW o \in Ops, R[o] = << >>,
           Distinct(E), Placed(E, T, R), Len(B) <= Len(T), Rest(U, T, Len(B)),
           \A k \in 1..Len(B) : B[k] = T[k]
    PROVE  /\ Placed(E, U, [R EXCEPT ![o] = B])
           /\ Covered(E, T, R) => Covered(E, U, [R EXCEPT ![o] = B])
<1>1. PICK e \in Nat, t \in Nat, m \in Nat : e = Len(E) /\ t = Len(T) /\ m = Len(B)
  OBVIOUS
<1>2. PICK Q : Q = [R EXCEPT ![o] = B]
  OBVIOUS
<1>3. /\ Q \in [Ops -> Seq(S)] /\ Q[o] = B /\ \A p \in Ops : p # o => Q[p] = R[p]
  BY <1>2
<1>4. Placed(E, U, R)
  BY <1>1, PlacedFewer
<1>5. Len(U) = t - m /\ t <= e /\ m <= t /\ Len(U) \in Nat
  BY <1>1 DEF Rest, Placed
<1>6. \A k \in 1..m : B[k] = E[e - t + k] /\ e - t + k \in 1..e
  <2> SUFFICES ASSUME NEW k \in 1..m PROVE B[k] = E[e - t + k] /\ e - t + k \in 1..e
    OBVIOUS
  <2>1. k \in 1..t /\ e - t + k \in 1..e
    BY <1>5
  <2>2. T[k] = E[e - t + k]
    BY <1>1, <2>1 DEF Placed
  <2> QED  BY <1>1, <2>1, <2>2
<1>7. \E b \in Nat : b + Len(Q[o]) <= Len(E) - Len(U) /\ \A k \in 1..Len(Q[o]) : Q[o][k] = E[b + k]
  <2>1. e - t \in Nat /\ (e - t) + m <= e - Len(U)
    BY <1>5
  <2> QED  BY <1>1, <1>3, <1>6, <2>1
<1>8. ASSUME NEW p \in Ops, p # o, NEW k \in 1..Len(B), NEW l \in 1..Len(R[p]) PROVE B[k] # R[p][l]
  <2>0. Len(R[p]) \in Nat /\ R[p] # << >>
    <3>1. R[p] \in Seq(S)
      OBVIOUS
    <3> QED  BY <1>8, <3>1
  <2>1. PICK b \in Nat : b + Len(R[p]) <= e - t /\ \A j \in 1..Len(R[p]) : R[p][j] = E[b + j]
    BY <1>1, <2>0 DEF Placed
  <2>2. b + l \in 1..e /\ b + l # e - t + k
    <3>1. PICK r \in Nat : r = Len(R[p])
      BY <2>0
    <3>2. b + r <= e - t /\ l \in 1..r /\ k \in 1..m
      BY <1>1, <2>1, <3>1
    <3> QED  BY <1>5, <3>2
  <2>3. R[p][l] = E[b + l] /\ B[k] = E[e - t + k] /\ e - t + k \in 1..e
    BY <1>1, <1>6, <2>1
  <2> QED  BY <1>1, <2>2, <2>3 DEF Distinct
<1>9. \A p, q \in Ops : p # q => \A k \in 1..Len(Q[p]), l \in 1..Len(Q[q]) : Q[p][k] # Q[q][l]
  <2> SUFFICES ASSUME NEW p \in Ops, NEW q \in Ops, p # q,
                      NEW k \in 1..Len(Q[p]), NEW l \in 1..Len(Q[q])
               PROVE  Q[p][k] # Q[q][l]
    OBVIOUS
  <2>1. CASE p = o
    BY <1>3, <1>8, <2>1
  <2>2. CASE q = o
    BY <1>3, <1>8, <2>2
  <2>3. CASE p # o /\ q # o
    <3>1. Q[p] = R[p] /\ Q[q] = R[q]
      BY <1>3, <2>3
    <3>2. \A i \in 1..Len(R[p]), j \in 1..Len(R[q]) : R[p][i] # R[q][j]
      BY DEF Placed
    <3> QED  BY <3>1, <3>2
  <2> QED  BY <2>1, <2>2, <2>3
<1>10. Placed(E, U, Q)
  <2>1. \A p \in Ops : Q[p] # << >> =>
          \E b \in Nat : b + Len(Q[p]) <= Len(E) - Len(U) /\ \A k \in 1..Len(Q[p]) : Q[p][k] = E[b + k]
    <3> DEFINE Fits(q) == \E b \in Nat : /\ b + Len(q) <= Len(E) - Len(U)
                                        /\ \A k \in 1..Len(q) : q[k] = E[b + k]
    <3>1. Fits(Q[o])
      BY <1>7
    <3>2. \A p \in Ops : R[p] # << >> => Fits(R[p])
      BY <1>4 DEF Placed
    <3> HIDE DEF Fits
    <3>3. \A p \in Ops : Q[p] # << >> => Fits(Q[p])
      BY <1>3, <3>1, <3>2
    <3> QED  BY <3>3 DEF Fits
  <2>2. Len(U) <= Len(E) /\ \A i \in 1..Len(U) : U[i] = E[Len(E) - Len(U) + i]
    BY <1>4 DEF Placed
  <2> QED  BY <1>9, <2>1, <2>2 DEF Placed
<1>11. ASSUME Covered(E, T, R) PROVE Covered(E, U, Q)
  <2> SUFFICES ASSUME NEW i \in 1..(Len(E) - Len(U))
               PROVE  \E p \in Ops : \E k \in 1..Len(Q[p]) : Q[p][k] = E[i]
    BY DEF Covered
  <2>1. CASE i <= e - t
    <3>1. i \in 1..(e - t)
      BY <1>1, <1>5, <2>1
    <3>2. PICK p \in Ops : \E k \in 1..Len(R[p]) : R[p][k] = E[i]
      BY <1>1, <1>11, <3>1 DEF Covered
    <3>3. p # o
      <4>1. Len(R[o]) = 0
        OBVIOUS
      <4> QED  BY <3>2, <4>1
    <3> QED  BY <1>3, <3>2, <3>3
  <2>2. CASE ~(i <= e - t)
    <3>1. PICK k \in 1..m : i = e - t + k
      <4>1. i - (e - t) \in 1..m /\ i = e - t + (i - (e - t))
        BY <1>1, <1>5, <2>2
      <4> QED  BY <4>1
    <3> QED  BY <1>1, <1>3, <1>6, <3>1
  <2> QED  BY <2>1, <2>2
<1> QED  BY <1>2, <1>10, <1>11

-----------------------------------------------------------------------------
(* What the invariant says of the places.                                  *)

\* Only the first of the sequences has elements.
LEMMA FlattenFirst ==
    ASSUME NEW S, NEW s \in Seq(Seq(S)), s # << >>, \A i \in 1..Len(s) : i # 1 => s[i] = << >>
    PROVE  FlattenSeq(s) = s[1]
<1>1. PICK n \in Nat : n = Len(s) /\ n # 0
  OBVIOUS
<1>2. s[1] \in Seq(S)
  BY <1>1
<1>3. s[1] \o << >> = s[1]
  BY <1>2
<1> DEFINE Step(g) == [i \in 1..n |-> IF i = 1 THEN s[i] ELSE g[i - 1] \o s[i]]
           f == CHOOSE g : g = Step(g)
           h == [i \in 1..n |-> s[1]]
<1>4. FlattenSeq(s) = f[n]
  BY <1>1 DEF FlattenSeq
<1>5. h = Step(h)
  <2>1. \A i \in 1..n : i # 1 => i - 1 \in 1..n /\ h[i - 1] = s[1] /\ s[i] = << >>
    BY <1>1
  <2>2. \A i \in 1..n : (IF i = 1 THEN s[i] ELSE h[i - 1] \o s[i]) = s[1]
    BY <1>3, <2>1
  <2> QED  BY <2>2
<1>6. f = Step(f)
  <2> HIDE DEF h, Step
  <2> QED  BY <1>5
<1>7. \A i \in 1..n : f[i] = IF i = 1 THEN s[i] ELSE f[i - 1] \o s[i]
  BY <1>6
<1> HIDE DEF f
<1>8. ASSUME NEW i \in 1..n, f[i] # s[1] PROVE FALSE
  <2> DEFINE Bad == {j \in 1..n : f[j] # s[1]}
  <2>1. Bad \subseteq Nat /\ Bad # {}
    BY <1>8
  <2>2. PICK j \in Bad : \A k \in Bad : j <= k
    <3> HIDE DEF Bad
    <3> QED  BY <2>1, NatLeast
  <2>3. j \in 1..n /\ f[j] # s[1]
    BY <2>2
  <2>4. j # 1 /\ j - 1 \in 1..n
    BY <1>7, <2>3
  <2>5. f[j - 1] = s[1]
    BY <2>2, <2>4
  <2>6. s[j] = << >>
    BY <1>1, <2>3, <2>4
  <2> QED  BY <1>3, <1>7, <2>3, <2>4, <2>5, <2>6
<1>9. n \in 1..n
  BY <1>1
<1> QED  BY <1>4, <1>8, <1>9

LEMMA SuffixFacts ==
    ASSUME NEW S, NEW s \in Seq(S), NEW t \in Seq(S), Len(s) <= Len(t),
           \A i \in 1..Len(s) : s[i] = t[Len(t) - Len(s) + i]
    PROVE  IsSuffix(s, t)
<1>1. PICK m \in Nat, n \in Nat : m = Len(s) /\ n = Len(t) /\ m <= n
  OBVIOUS
<1>2. PICK a, b : a = Reverse(s) /\ b = Reverse(t)
  OBVIOUS
<1>3. a = [i \in 1..m |-> s[(m - i) + 1]] /\ b = [i \in 1..n |-> t[(n - i) + 1]]
  BY <1>1, <1>2 DEF Reverse
<1>4. a \in Seq(S) /\ Len(a) = m
  <2>1. \A i \in 1..m : s[(m - i) + 1] \in S
    <3>1. \A i \in 1..m : (m - i) + 1 \in 1..m
      OBVIOUS
    <3> QED  BY <1>1, <3>1
  <2>2. a = [i \in 1..m |-> s[(m - i) + 1]]
    BY <1>3
  <2> QED  BY <2>1, <2>2
<1>5. b \in Seq(S) /\ Len(b) = n
  <2>1. \A i \in 1..n : t[(n - i) + 1] \in S
    <3>1. \A i \in 1..n : (n - i) + 1 \in 1..n
      OBVIOUS
    <3> QED  BY <1>1, <3>1
  <2>2. b = [i \in 1..n |-> t[(n - i) + 1]]
    BY <1>3
  <2> QED  BY <2>1, <2>2
<1>6. \A i \in 1..m : a[i] = b[i]
  <2> SUFFICES ASSUME NEW i \in 1..m PROVE a[i] = b[i]
    OBVIOUS
  <2>1. (m - i) + 1 \in 1..m /\ n - m + ((m - i) + 1) = (n - i) + 1 /\ i \in 1..n
    BY <1>1
  <2>2. s[(m - i) + 1] = t[(n - i) + 1]
    BY <1>1, <2>1
  <2> QED  BY <1>3, <2>1, <2>2
<1>7. SubSeq(a, 1, m) = SubSeq(b, 1, m)
  <2>1. SubSeq(a, 1, m) = [i \in 1..m |-> a[i]]
    BY <1>4
  <2>2. SubSeq(b, 1, m) = [i \in 1..m |-> b[i]]
    BY <1>1, <1>5
  <2> QED  BY <1>6, <2>1, <2>2
<1> QED  BY <1>1, <1>2, <1>4, <1>5, <1>7 DEF IsSuffix, IsPrefix

LEMMA YoungFacts ==
    ASSUME TypeOK
    PROVE  /\ Gathered \in Seq(Element) /\ Young \in Seq(Element)
           /\ Len(Young) = Len(Gathered) + Len(queue)
           /\ \A i \in 1..Len(Gathered) : Young[i] = Gathered[i]
           /\ \A i \in 1..Len(queue) : Young[Len(Gathered) + i] = queue[i]
<1>1. queue \in Seq(Element) /\ dequeue_attempts_ \in Seq(AttemptType)
  BY TypeParts
<1>2. Gathered \in Seq(Element)
  <2>1. CASE dequeue_attempts_ = << >>
    BY <2>1 DEF Gathered
  <2>2. CASE dequeue_attempts_ # << >>
    <3>1. 1 \in 1..Len(dequeue_attempts_)
      BY <1>1, <2>2, DerivesTail
    <3> QED  BY <1>1, <2>2, <3>1, AttemptFacts DEF Gathered
  <2> QED  BY <2>1, <2>2
<1>3. PICK m \in Nat, q \in Nat : m = Len(Gathered) /\ q = Len(queue)
  BY <1>1, <1>2
<1>4. Young = Gathered \o queue
  BY DEF Young
<1>5. /\ Young \in Seq(Element) /\ Len(Young) = m + q
      /\ \A i \in 1..m : Young[i] = Gathered[i]
      /\ \A i \in 1..q : Young[m + i] = queue[i]
  BY <1>1, <1>2, <1>3, <1>4, ConcatParts
<1> QED  BY <1>2, <1>3, <1>5

\* What is held is what the first dequeue has gathered.
LEMMA HeldFacts == ASSUME TypeOK, Batches PROVE Held = Gathered
<1> DEFINE D == dequeue_attempts_
           s == [i \in DOMAIN D |-> D[i].tuple]
<1>1. D \in Seq(AttemptType)
  BY TypeParts
<1>2. /\ Len(D) \in Nat /\ DOMAIN D = 1..Len(D)
      /\ \A i \in 1..Len(D) : D[i].tuple \in Seq(Element)
  BY <1>1, AttemptFacts
<1>3. s \in Seq(Seq(Element)) /\ Len(s) = Len(D) /\ \A i \in 1..Len(D) : s[i] = D[i].tuple
  BY <1>2
<1>4. \A i \in 1..Len(D) : i # 1 => D[i].tuple = << >>
  BY DEF Batches
<1>5. Held = FlattenSeq(s)
  BY DEF Held
<1>6. CASE D = << >>
  <2>1. Len(s) = 0
    BY <1>3, <1>6
  <2>2. s = << >>
    BY <1>3, <2>1, EmptySeq
  <2>3. FlattenSeq(s) = s
    BY <2>1 DEF FlattenSeq
  <2> HIDE DEF s
  <2> QED  BY <1>5, <1>6, <2>2, <2>3 DEF Gathered
<1>7. CASE D # << >>
  <2>1. Len(D) # 0 /\ 1 \in 1..Len(D)
    BY <1>1, <1>2, <1>7, EmptySeq
  <2> HIDE DEF s
  <2>2. s # << >>
    BY <1>3, <2>1, EmptySeq
  <2>3. \A i \in 1..Len(s) : i # 1 => s[i] = << >>
    BY <1>3, <1>4
  <2>4. FlattenSeq(s) = s[1]
    <3> HIDE DEF D
    <3> QED  BY <1>3, <2>2, <2>3, FlattenFirst
  <2> QED  BY <1>3, <1>5, <1>7, <2>1, <2>4 DEF Gathered
<1> QED  BY <1>6, <1>7

LEMMA OrderFollows == ASSUME IInv, OInv PROVE ElementsInOrder
<1>0. /\ TypeOK /\ entered \in Seq(Element) /\ queue \in Seq(Element)
      /\ result \in [Ops -> Seq(Element)] /\ Held = Gathered
  BY TypeParts, HeldFacts DEF IInv, OInv
<1>1. /\ Young = Held \o queue /\ Young \in Seq(Element)
      /\ Len(Young) = Len(Held) + Len(queue) /\ Len(Held) \in Nat /\ Len(queue) \in Nat
  BY <1>0, YoungFacts DEF Young
<1>2. PICK e \in Nat, y \in Nat : e = Len(entered) /\ y = Len(Young) /\ DOMAIN entered = 1..e
  BY <1>0, <1>1
<1>3. /\ y <= e
      /\ \A i \in 1..y : Young[i] = entered[e - y + i]
      /\ \A o \in Ops : result[o] # << >> =>
           \E b \in Nat : /\ b + Len(result[o]) <= e - y
                          /\ \A k \in 1..Len(result[o]) : result[o][k] = entered[b + k]
      /\ \A o, p \in Ops : o # p =>
           \A k \in 1..Len(result[o]), l \in 1..Len(result[p]) : result[o][k] # result[p][l]
  BY <1>2 DEF OInv, Placed
<1>4. Distinct(entered)
  BY DEF OInv, Numbered
<1>5. \A o \in Ops : Len(result[o]) \in Nat /\ ToSet(result[o]) = {result[o][k] : k \in 1..Len(result[o])}
  BY <1>0 DEF ToSet
<1>6. BatchesInOrder
  <2>1. ASSUME NEW o \in Handed
        PROVE  \E i \in 1..(Len(entered) - Len(result[o]) + 1) :
                 result[o] = SubSeq(entered, i, i + Len(result[o]) - 1)
    <3>1. o \in Ops /\ result[o] # << >> /\ result[o] \in Seq(Element)
      BY <1>0 DEF Handed
    <3>2. PICK r \in Nat : r = Len(result[o])
      BY <3>1
    <3>3. PICK b \in Nat : b + r <= e - y /\ \A k \in 1..r : result[o][k] = entered[b + k]
      BY <1>3, <3>1, <3>2
    <3>4. /\ b + 1 \in 1..(e - r + 1) /\ (b + 1) + r - 1 = b + r
          /\ b + 1 \in Nat /\ b + r \in Nat /\ b + r <= e
      BY <1>3, <3>3
    <3>5. SubSeq(entered, b + 1, b + r) = [k \in 1..r |-> entered[b + k]]
      <4>1. SubSeq(entered, b + 1, b + r) = [k \in 1..((b + r) - (b + 1) + 1) |-> entered[(b + 1) + k - 1]]
        BY <1>0, <1>2, <3>4
      <4>2. (b + r) - (b + 1) + 1 = r /\ \A k \in 1..r : (b + 1) + k - 1 = b + k
        OBVIOUS
      <4> QED  BY <4>1, <4>2
    <3>6. result[o] = [k \in 1..r |-> result[o][k]]
      BY <3>1, <3>2
    <3>7. result[o] = SubSeq(entered, b + 1, b + r)
      BY <3>3, <3>5, <3>6
    <3> QED  BY <1>2, <3>2, <3>4, <3>7
  <2>2. \A o, p \in Handed : o # p => ToSet(result[o]) \cap ToSet(result[p]) = {}
    <3> SUFFICES ASSUME NEW o \in Ops, NEW p \in Ops, o # p,
                        NEW x \in ToSet(result[o]), x \in ToSet(result[p])
                 PROVE  FALSE
      BY DEF Handed
    <3>1. PICK k \in 1..Len(result[o]) : x = result[o][k]
      BY <1>5
    <3>2. PICK l \in 1..Len(result[p]) : x = result[p][l]
      BY <1>5
    <3>3. \A i \in 1..Len(result[o]), j \in 1..Len(result[p]) : result[o][i] # result[p][j]
      BY <1>3
    <3> QED  BY <3>1, <3>2, <3>3
  <2>3. IsSuffix(Held \o queue, entered)
    BY <1>0, <1>1, <1>2, <1>3, SuffixFacts
  <2>4. ASSUME NEW o \in Handed, NEW i \in Positions(result[o]), NEW j \in Positions(Held \o queue)
        PROVE  i < j
    <3>1. o \in Ops /\ result[o] # << >>
      BY DEF Handed
    <3>2. PICK r \in Nat : r = Len(result[o])
      BY <1>5, <3>1
    <3>3. PICK b \in Nat : b + r <= e - y /\ \A k \in 1..r : result[o][k] = entered[b + k]
      BY <1>3, <3>1, <3>2
    <3>4. i \in 1..e /\ entered[i] \in ToSet(result[o])
      BY <1>2 DEF Positions
    <3>5. PICK k \in 1..r : entered[i] = result[o][k]
      BY <1>5, <3>1, <3>2, <3>4
    <3>6. b + k \in 1..e
      BY <1>3, <3>3
    <3>7. i = b + k
      BY <1>2, <1>4, <3>3, <3>4, <3>5, <3>6 DEF Distinct
    <3>8. j \in 1..e /\ entered[j] \in ToSet(Young)
      BY <1>1, <1>2 DEF Positions
    <3>9. PICK l \in 1..y : entered[j] = Young[l]
      BY <1>1, <1>2, <3>8 DEF ToSet
    <3>10. e - y + l \in 1..e
      BY <1>3
    <3>11. j = e - y + l
      <4>1. entered[j] = entered[e - y + l]
        BY <1>3, <3>9
      <4>2. PICK z \in 1..e : z = e - y + l
        BY <3>10
      <4> QED  BY <1>2, <1>4, <3>8, <4>1, <4>2 DEF Distinct
    <3> QED  BY <3>3, <3>7, <3>11
  <2> QED  BY <2>1, <2>2, <2>3, <2>4 DEF BatchesInOrder
<1>7. NothingLostUnlessCancelled
  <2> SUFFICES ASSUME \A o \in Ops : ~CancelledBatch(o)
               PROVE  Len(entered) = Len(queue) + Len(Held)
                        + Cardinality(UNION {ToSet(result[o]) : o \in Ops})
    BY DEF NothingLostUnlessCancelled
  <2>1. PICK m \in Nat : m = e - y
    BY <1>3
  <2>2. \A i \in 1..m : \E o \in Ops : \E k \in 1..Len(result[o]) : result[o][k] = entered[i]
    BY <1>2, <2>1 DEF OInv, NoBatchCancelled, Covered
  <2>3. PICK U : U = UNION {ToSet(result[o]) : o \in Ops}
    OBVIOUS
  <2>4. \A x : x \in U <=> \E o \in Ops : \E k \in 1..Len(result[o]) : x = result[o][k]
    BY <1>5, <2>3
  <2>5. ASSUME NEW x \in U PROVE \E i \in 1..m : entered[i] = x
    <3>1. PICK o \in Ops : \E k \in 1..Len(result[o]) : x = result[o][k]
      BY <2>4, <2>5
    <3>2. PICK r \in Nat : r = Len(result[o])
      BY <1>5
    <3>3. PICK k \in 1..r : x = result[o][k]
      BY <3>1, <3>2
    <3>4. result[o] # << >>
      BY <3>2, <3>3
    <3>5. PICK b \in Nat : b + r <= e - y /\ \A l \in 1..r : result[o][l] = entered[b + l]
      BY <1>3, <3>2, <3>4
    <3>6. b + k \in 1..m /\ entered[b + k] = x
      BY <2>1, <3>3, <3>5
    <3> QED  BY <3>6
  <2> DEFINE f == [i \in 1..m |-> entered[i]]
  <2>6. f \in [1..m -> U]
    BY <2>2, <2>4
  <2>7. \A i \in 1..m : i \in 1..e
    BY <1>3, <2>1
  <2>8. \A i, j \in 1..m : f[i] = f[j] => i = j
    BY <1>2, <1>4, <2>7 DEF Distinct
  <2>9. \A x \in U : \E i \in 1..m : f[i] = x
    BY <2>5
  <2> HIDE DEF f
  <2>10. f \in Bijection(1..m, U)
    BY <2>6, <2>8, <2>9 DEF Bijection, Injection, IsInjective, Surjection
  <2>11. Cardinality(U) = m
    BY <2>10, FS_CountingElements DEF ExistsBijection
  <2>12. PICK h \in Nat, q \in Nat : h = Len(Held) /\ q = Len(queue) /\ y = h + q
    BY <1>1, <1>2
  <2>13. e = q + h + m
    BY <1>3, <2>1, <2>12
  <2> QED  BY <1>2, <2>3, <2>11, <2>12, <2>13
<1>8. FullBatch
  <2> SUFFICES ASSUME NEW o \in Ops, IsDequeue(o), program[o].n > 0, answers[o] = 1, status[o] = "OK"
               PROVE  \/ Len(result[o]) = program[o].n
                      \/ program[o].kind = "DequeueUpTo" /\ closed_ /\ Len(result[o]) \in 1..program[o].n
    BY DEF FullBatch
  <2>1. thread[o].pc # "idle"
    BY DEF OInv, Untouched
  <2>2. ASSUME NEW i \in 1..Len(dequeue_attempts_), dequeue_attempts_[i].op = o PROVE FALSE
    BY <2>2 DEF OInv, Batches, IInv, Rights
  <2> QED  BY <2>1, <2>2 DEF OInv, Filled
<1> QED  BY <1>0, <1>6, <1>7, <1>8 DEF ElementsInOrder, OInv

-----------------------------------------------------------------------------
(* The steps that move no element.                                         *)

\* Every enqueue that waits has not begun before or asks for what it asked for.
EnqueuesKept ==
    \A i \in 1..Len(enqueue_attempts_') :
      \/ enqueue_attempts_'[i].op \in Ops /\ thread[enqueue_attempts_'[i].op].pc = "idle"
      \/ \E j \in 1..Len(enqueue_attempts_) :
           /\ enqueue_attempts_'[i].op = enqueue_attempts_[j].op
           /\ enqueue_attempts_'[i].left = enqueue_attempts_[j].left

LEMMA NumberedKept ==
    ASSUME OInv, UNCHANGED <<program, entered>>, EnqueuesKept
    PROVE  Numbered'
<1>1. Distinct(entered)'
  BY DEF OInv, Numbered, Distinct
<1>2. ASSUME NEW i \in 1..Len(enqueue_attempts_'), NEW k \in 1..Len(entered),
             entered[k][1] = enqueue_attempts_'[i].op
      PROVE  entered[k][2] <= program[enqueue_attempts_'[i].op].n - enqueue_attempts_'[i].left
  <2>1. ~(enqueue_attempts_'[i].op \in Ops /\ thread[enqueue_attempts_'[i].op].pc = "idle")
    BY <1>2 DEF OInv, Untouched
  <2>2. PICK j \in 1..Len(enqueue_attempts_) :
           /\ enqueue_attempts_'[i].op = enqueue_attempts_[j].op
           /\ enqueue_attempts_'[i].left = enqueue_attempts_[j].left
    BY <2>1 DEF EnqueuesKept
  <2> QED  BY <1>2, <2>2 DEF OInv, Numbered
<1> QED  BY <1>1, <1>2 DEF Numbered

\* The elements stay where they are.
LEMMA PlacesKept ==
    ASSUME OInv, UNCHANGED <<program, entered, result>>, Young' = Young,
           \A o \in Ops : status[o] = "Cancelled" => status'[o] = "Cancelled"
    PROVE  /\ Placed(entered, Young, result)'
           /\ NoBatchCancelled' => Covered(entered, Young, result)'
<1>1. Placed(entered, Young, result)' <=> Placed(entered, Young, result)
  BY DEF Placed
<1>2. Covered(entered, Young, result)' <=> Covered(entered, Young, result)
  BY DEF Covered
<1>3. NoBatchCancelled' => NoBatchCancelled
  BY SameTypes DEF NoBatchCancelled, CancelledBatch
<1> QED  BY <1>1, <1>2, <1>3 DEF OInv

LEMMA Quiet ==
    ASSUME IInv, OInv, UNCHANGED <<program, queue, entered, result>>, closed_ => closed_',
           EnqueuesKept, Batches', Gathered' = Gathered,
           \A o \in Ops : thread'[o].pc = "idle" =>
             thread[o].pc = "idle" /\ status'[o] = status[o] /\ answers'[o] = answers[o],
           \A o \in Ops : status[o] = "Cancelled" => status'[o] = "Cancelled",
           \A o \in Ops :
             IsDequeue(o) /\ program[o].n > 0 /\ status'[o] = "OK" /\ thread'[o].pc # "idle" =>
               \/ \E i \in 1..Len(dequeue_attempts_') : dequeue_attempts_'[i].op = o
               \/ /\ status[o] = "OK" /\ thread[o].pc # "idle"
                  /\ \A i \in 1..Len(dequeue_attempts_) : dequeue_attempts_[i].op # o
    PROVE  OInv'
<1>1. Numbered'
  BY NumberedKept
<1>2. Untouched'
  BY DEF OInv, Untouched
<1>3. Filled'
  <2> SUFFICES ASSUME NEW o \in Ops, IsDequeue(o), program[o].n > 0, status'[o] = "OK",
                      thread'[o].pc # "idle",
                      ~(\E i \in 1..Len(dequeue_attempts_') : dequeue_attempts_'[i].op = o)
               PROVE  \/ Len(result[o]) = program[o].n
                      \/ program[o].kind = "DequeueUpTo" /\ closed_' /\ Len(result[o]) \in 1..program[o].n
    BY SameTypes DEF Filled
  <2>1. /\ status[o] = "OK" /\ thread[o].pc # "idle"
        /\ \A i \in 1..Len(dequeue_attempts_) : dequeue_attempts_[i].op # o
    OBVIOUS
  <2> QED  BY <2>1 DEF OInv, Filled
<1>4. WithinCapacityWhileOpen'
  BY DEF OInv, WithinCapacityWhileOpen
<1>5. /\ Placed(entered, Young, result)'
      /\ NoBatchCancelled' => Covered(entered, Young, result)'
  <2>1. Young' = Young
    BY DEF Young
  <2> QED  BY <2>1, PlacesKept
<1> QED  BY <1>1, <1>2, <1>3, <1>4, <1>5 DEF OInv

\* No dequeue comes or goes, and no status of one that waits changes.
LEMMA DequeuesStay ==
    ASSUME IInv, OInv, UNCHANGED <<program, queue, dequeue_attempts_, entered, result>>,
           closed_ => closed_', EnqueuesKept,
           \A o \in Ops :
             \/ status'[o] = status[o]
             \/ /\ status'[o] # "OK" /\ thread'[o].pc # "idle"
                /\ status[o] = "Cancelled" => status'[o] = "Cancelled"
                /\ \A i \in 1..Len(dequeue_attempts_) : dequeue_attempts_[i].op # o,
           \A o \in Ops : thread'[o].pc = "idle" => thread[o].pc = "idle" /\ answers'[o] = answers[o],
           \A o \in Ops : thread[o].pc = "idle" /\ thread'[o].pc # "idle" /\ status'[o] = "OK" =>
             ~(IsDequeue(o) /\ program[o].n > 0)
    PROVE  OInv'
<1>0. /\ TypeOK /\ \A i \in 1..Len(dequeue_attempts_) : dequeue_attempts_[i].op \in Ops
  BY TypeParts, AttemptFacts DEF IInv
<1>1. \A i \in 1..Len(dequeue_attempts_) : status'[dequeue_attempts_[i].op] = status[dequeue_attempts_[i].op]
  BY <1>0
<1>2. Batches'
  BY <1>1 DEF OInv, Batches
<1>3. Gathered' = Gathered
  BY DEF Gathered
<1> QED  BY <1>2, <1>3, Quiet

\* Neither attempts nor statuses change, and no op begins.
LEMMA NothingMoves ==
    ASSUME IInv, OInv, UNCHANGED <<program, attemptVars, status, entered, result>>,
           \A o \in Ops : thread'[o].pc = "idle" <=> thread[o].pc = "idle",
           \A o \in Ops : thread[o].pc = "idle" => answers'[o] = answers[o]
    PROVE  OInv'
<1> USE DEF attemptVars
<1>1. EnqueuesKept
  BY DEF EnqueuesKept
<1> QED  BY <1>1, DequeuesStay

\* The thread t was running and still is, or it belongs to a step.
LEMMA ThreadGoesOn ==
    ASSUME TypeOK, NEW t \in Threads, NEW r, thread' = [thread EXCEPT ![t] = r],
           thread[t].pc # "idle", t \in Ops => r.pc # "idle"
    PROVE  \A o \in Ops : thread'[o].pc = "idle" <=> thread[o].pc = "idle"
<1>1. thread \in [Threads -> ThreadType]
  BY ThreadFacts
<1>2. \A u \in Threads : thread'[u] = IF u = t THEN r ELSE thread[u]
  BY <1>1
<1> QED  BY <1>2 DEF Threads

LEMMA BeginFlushOInv == ASSUME IInv, OInv, NEW t \in Threads, BeginFlush(t) PROVE OInv'
<1> USE DEF BeginFlush, answerVars
<1>1. TypeOK
  BY DEF IInv
<1>2. \A o \in Ops : thread'[o].pc = "idle" <=> thread[o].pc = "idle"
  BY <1>1, ThreadGoesOn
<1> QED  BY <1>2, NothingMoves

LEMMA NoAttemptOInv == ASSUME IInv, OInv, NEW t \in Threads, NoAttempt(t) PROVE OInv'
<1> USE DEF NoAttempt, InPass, answerVars
<1>1. TypeOK /\ thread[t].pc = "locked"
  BY DEF IInv
<1>2. PICK r \in ThreadType : thread' = [thread EXCEPT ![t] = r] /\ r.pc = thread[t].pc
  BY <1>1, PassDoneFacts
<1>3. \A o \in Ops : thread'[o].pc = "idle" <=> thread[o].pc = "idle"
  BY <1>1, <1>2, ThreadGoesOn
<1> QED  BY <1>3, NothingMoves

LEMMA EndRoundOInv == ASSUME IInv, OInv, NEW t \in Threads, EndRound(t) PROVE OInv'
<1> USE DEF EndRound, InPass, answerVars
<1>1. TypeOK /\ thread[t].pc = "locked"
  BY DEF IInv
<1>2. thread \in [Threads -> ThreadType] /\ thread[t] \in ThreadType
  BY <1>1, ThreadFacts
<1>3. PICK r : thread' = [thread EXCEPT ![t] = r] /\ r.pc # "idle"
  <2>1. CASE thread[t].changed
    <3> DEFINE r == [thread[t] EXCEPT !.pass = "enqueue", !.changed = FALSE]
    <3>1. r.pc = "locked"
      BY <1>1, <1>2 DEF ThreadType
    <3>2. thread' = [thread EXCEPT ![t] = r]
      BY <1>2, <2>1
    <3> QED  BY <3>1, <3>2
  <2>2. CASE ~thread[t].changed
    <3> DEFINE r == [thread[t] EXCEPT !.pc = "cleanup"]
    <3>1. r.pc = "cleanup"
      BY <1>2 DEF ThreadType
    <3>2. thread' = [thread EXCEPT ![t] = r]
      BY <1>2, <2>2
    <3> QED  BY <3>1, <3>2
  <2> QED  BY <2>1, <2>2
<1>4. \A o \in Ops : thread'[o].pc = "idle" <=> thread[o].pc = "idle"
  BY <1>1, <1>3, ThreadGoesOn
<1> QED  BY <1>4, NothingMoves

\* An op in the list of a thread has begun.
LEMMA HeadHasBegun ==
    ASSUME IInv, NEW t \in Threads, thread[t].todo # << >>
    PROVE  Head(thread[t].todo) \in Ops /\ thread[Head(thread[t].todo)].pc # "idle"
<1>1. thread[t].todo \in Seq(Ops)
  BY ThreadFacts DEF IInv
<1>2. Head(thread[t].todo) \in Ops /\ 1 \in 1..Len(thread[t].todo) /\ Head(thread[t].todo) = thread[t].todo[1]
  BY <1>1
<1>3. Has(t, Head(thread[t].todo))
  BY <1>2 DEF Has
<1> QED  BY <1>2, <1>3 DEF IInv, Rights

LEMMA RunCallbackOInv == ASSUME IInv, OInv, NEW t \in Threads, RunCallback(t) PROVE OInv'
<1> USE DEF RunCallback
<1> DEFINE q == thread[t].todo
           r == [thread[t] EXCEPT !.todo = Tail(@), !.pc = AfterCallbacks(Tail(q), "flush")]
<1>1. TypeOK /\ thread[t].pc = "callbacks" /\ q # << >>
  BY DEF IInv, Shape
<1>2. thread \in [Threads -> ThreadType] /\ thread[t] \in ThreadType
  BY <1>1, ThreadFacts
<1>3. r.pc # "idle"
  BY <1>2 DEF ThreadType, AfterCallbacks
<1>4. thread' = [thread EXCEPT ![t] = r]
  BY <1>2
<1> HIDE DEF r
<1>5. \A o \in Ops : thread'[o].pc = "idle" <=> thread[o].pc = "idle"
  BY <1>1, <1>3, <1>4, ThreadGoesOn
<1>6. \A o \in Ops : thread[o].pc = "idle" => answers'[o] = answers[o]
  BY <1>1, TypeParts, HeadHasBegun
<1> QED  BY <1>5, <1>6, NothingMoves

LEMMA CleanUpOInv == ASSUME IInv, OInv, NEW t \in Threads, CleanUp(t) PROVE OInv'
<1> USE DEF CleanUp
<1> DEFINE r == [thread[t] EXCEPT !.todo = Tail(@)]
<1>1. TypeOK /\ thread[t].pc = "cleanup"
  BY DEF IInv
<1>2. thread \in [Threads -> ThreadType] /\ thread[t] \in ThreadType
  BY <1>1, ThreadFacts
<1>3. r.pc = "cleanup"
  BY <1>1, <1>2 DEF ThreadType
<1>4. thread' = [thread EXCEPT ![t] = r]
  BY <1>2
<1> HIDE DEF r
<1>5. \A o \in Ops : thread'[o].pc = "idle" <=> thread[o].pc = "idle"
  BY <1>1, <1>3, <1>4, ThreadGoesOn
<1>6. \A o \in Ops : thread[o].pc = "idle" => answers'[o] = answers[o]
  BY <1>1, TypeParts, HeadHasBegun
<1> QED  BY <1>5, <1>6, NothingMoves

LEMMA CleanUpDoneOInv == ASSUME IInv, OInv, NEW t \in Threads, CleanUpDone(t) PROVE OInv'
<1> USE DEF CleanUpDone
<1> DEFINE r == [thread[t] EXCEPT !.pc = IF t \in Steps THEN "idle" ELSE "exit"]
<1>1. TypeOK /\ thread[t].pc = "cleanup"
  BY DEF IInv
<1>2. thread \in [Threads -> ThreadType] /\ thread[t] \in ThreadType
  BY <1>1, ThreadFacts
<1>3. r.pc = IF t \in Steps THEN "idle" ELSE "exit"
  BY <1>2 DEF ThreadType
<1>4. thread' = [thread EXCEPT ![t] = r]
  BY <1>2
<1> HIDE DEF r
<1>5. \A o \in Ops : thread'[o].pc = "idle" <=> thread[o].pc = "idle"
  BY <1>1, <1>3, <1>4, ThreadGoesOn, ThreadsAssumption
<1>6. \A o \in Ops : thread[o].pc = "idle" => answers'[o] = answers[o]
  BY <1>1, TypeParts
<1> QED  BY <1>5, <1>6, NothingMoves

\* The enqueues that are left ask for what they asked for.
LEMMA EnqueueGone ==
    ASSUME TypeOK, enqueue_attempts_ # << >>, enqueue_attempts_' = Tail(enqueue_attempts_)
    PROVE  EnqueuesKept
<1>1. \A i \in 1..Len(enqueue_attempts_') :
        enqueue_attempts_'[i] = enqueue_attempts_[i + 1] /\ i + 1 \in 1..Len(enqueue_attempts_)
  BY TypeParts, DerivesTail
<1> QED  BY <1>1 DEF EnqueuesKept

LEMMA SkipCancelledEnqueueOInv ==
    ASSUME IInv, OInv, NEW t \in Threads, SkipCancelledEnqueue(t) PROVE OInv'
<1> USE DEF SkipCancelledEnqueue, answerVars
<1>1. EnqueuesKept
  BY EnqueueGone DEF IInv
<1> QED  BY <1>1, DequeuesStay

LEMMA RunCloseOInv == ASSUME IInv, OInv, NEW t \in Threads, RunClose(t) PROVE OInv'
<1> USE DEF RunClose, InPass, answerVars
<1> DEFINE a == Head(enqueue_attempts_)
<1>1. TypeOK /\ thread[t].pc = "locked" /\ enqueue_attempts_ \in Seq(AttemptType)
  BY TypeParts DEF IInv
<1>2. a = enqueue_attempts_[1] /\ 1 \in 1..Len(enqueue_attempts_) /\ a.op \in Ops
  <2>1. a = enqueue_attempts_[1] /\ 1 \in 1..Len(enqueue_attempts_)
    BY <1>1, DerivesTail
  <2> QED  BY <1>1, <2>1, AttemptFacts
<1>3. PICK r \in ThreadType : thread' = [thread EXCEPT ![t] = r] /\ r.pc = thread[t].pc
  BY <1>1, <1>2, CompleteFacts
<1>4. \A o \in Ops : thread'[o].pc = "idle" <=> thread[o].pc = "idle"
  BY <1>1, <1>3, ThreadGoesOn
<1>5. thread[a.op].pc # "idle" /\ \A i \in 1..Len(dequeue_attempts_) : dequeue_attempts_[i].op # a.op
  BY <1>2 DEF IInv, Rights, Shape, IsClose, IsDequeue
<1>6. EnqueuesKept
  BY <1>1, EnqueueGone
<1>7. \A o \in Ops : \/ status'[o] = status[o]
                     \/ o = a.op /\ status'[o] # "OK" /\ (status[o] = "Cancelled" => status'[o] = "Cancelled")
  BY <1>1, <1>2, TypeParts DEF Updated
<1> QED  BY <1>4, <1>5, <1>6, <1>7, DequeuesStay

\* An op begins.
LEMMA OpBegins ==
    ASSUME TypeOK, NEW o \in Ops, NEW r, thread' = [thread EXCEPT ![o] = r], r.pc # "idle"
    PROVE  \A p \in Ops : thread'[p].pc = "idle" <=> (thread[p].pc = "idle" /\ p # o)
<1>1. thread \in [Threads -> ThreadType]
  BY ThreadFacts
<1>2. \A p \in Ops : thread'[p] = IF p = o THEN r ELSE thread[p]
  BY <1>1 DEF Threads
<1> QED  BY <1>2

LEMMA PcSet ==
    ASSUME TypeOK, NEW o \in Ops, NEW c, c # "idle", thread' = [thread EXCEPT ![o].pc = c]
    PROVE  \A p \in Ops : thread'[p].pc = "idle" <=> (thread[p].pc = "idle" /\ p # o)
<1> DEFINE r == [thread[o] EXCEPT !.pc = c]
<1>1. thread \in [Threads -> ThreadType] /\ thread[o] \in ThreadType
  BY ThreadFacts DEF Threads
<1>2. r.pc = c /\ thread' = [thread EXCEPT ![o] = r]
  BY <1>1 DEF ThreadType
<1> HIDE DEF r
<1> QED  BY <1>2, OpBegins

\* An op that has not begun waits nowhere.
LEMMA IdleWaitsNowhere ==
    ASSUME IInv, NEW o \in Ops, thread[o].pc = "idle"
    PROVE  /\ \A i \in 1..Len(enqueue_attempts_) : enqueue_attempts_[i].op # o
           /\ \A i \in 1..Len(dequeue_attempts_) : dequeue_attempts_[i].op # o
BY DEF IInv, Rights

LEMMA AnsweredAtOnceOInv ==
    ASSUME IInv, OInv, NEW o \in Ops, NotStarted(o), AlreadyCancelled(o) \/ EmptyBatch(o)
    PROVE  OInv'
<1> USE DEF NotStarted, attemptVars
<1>1. TypeOK /\ thread[o].pc = "idle"
  BY DEF IInv
<1>2. /\ UNCHANGED <<program, attemptVars, entered, result>>
      /\ answers' = [answers EXCEPT ![o] = @ + 1] /\ thread' = [thread EXCEPT ![o].pc = "exit"]
      /\ \/ status' = Updated(o, "Cancelled")
         \/ status' = status /\ program[o].n = 0
  BY DEF AlreadyCancelled, EmptyBatch
<1>3. \A p \in Ops : thread'[p].pc = "idle" <=> (thread[p].pc = "idle" /\ p # o)
  BY <1>1, <1>2, PcSet
<1>4. \A p \in Ops : p # o => status'[p] = status[p] /\ answers'[p] = answers[p]
  BY <1>1, <1>2, TypeParts DEF Updated
<1>5. \/ status'[o] # "OK" /\ (status[o] = "Cancelled" => status'[o] = "Cancelled")
      \/ status'[o] = status[o] /\ ~(program[o].n > 0)
  BY <1>1, <1>2, TypeParts DEF Updated
<1>6. EnqueuesKept
  BY <1>2 DEF EnqueuesKept
<1>7. \A i \in 1..Len(dequeue_attempts_) : dequeue_attempts_[i].op # o
  BY <1>1, IdleWaitsNowhere
<1> QED  BY <1>2, <1>3, <1>4, <1>5, <1>6, <1>7, DequeuesStay

\* An op that has not begun waits among the enqueues.
LEMMA NewEnqueueOInv ==
    ASSUME IInv, OInv, NEW o \in Ops, NotStarted(o), program[o].kind \in {"EnqueueMany", "Close"},
           NEW n \in Nat, enqueue_attempts_' = Append(enqueue_attempts_, Attempt(o, n)),
           thread' = [thread EXCEPT ![o].pc = "flush"],
           UNCHANGED <<program, queue, closed_, dequeue_attempts_, status, answerVars, entered>>
    PROVE  OInv'
<1> USE DEF NotStarted, answerVars
<1>1. TypeOK /\ thread[o].pc = "idle" /\ enqueue_attempts_ \in Seq(AttemptType)
  BY TypeParts DEF IInv
<1>2. \A p \in Ops : thread'[p].pc = "idle" <=> (thread[p].pc = "idle" /\ p # o)
  BY <1>1, PcSet
<1>3. PICK a : a = Attempt(o, n) /\ a.op = o
  BY DEF Attempt
<1>4. EnqueuesKept
  <2>1. \A i \in 1..Len(enqueue_attempts_') :
          \/ enqueue_attempts_'[i] = a
          \/ i \in 1..Len(enqueue_attempts_) /\ enqueue_attempts_'[i] = enqueue_attempts_[i]
    BY <1>1, <1>3
  <2> QED  BY <1>1, <1>3, <2>1 DEF EnqueuesKept
<1>5. ~IsDequeue(o)
  BY DEF IsDequeue
<1> QED  BY <1>2, <1>4, <1>5, DequeuesStay

LEMMA NewDequeueOInv ==
    ASSUME IInv, OInv, NEW o \in Ops, NotStarted(o), IsDequeue(o),
           dequeue_attempts_' = Append(dequeue_attempts_, Attempt(o, program[o].n)),
           thread' = [thread EXCEPT ![o].pc = "flush"],
           UNCHANGED <<program, queue, closed_, enqueue_attempts_, status, answerVars, entered>>
    PROVE  OInv'
<1> USE DEF NotStarted, answerVars
<1> DEFINE D == dequeue_attempts_
<1>1. TypeOK /\ thread[o].pc = "idle" /\ D \in Seq(AttemptType) /\ program[o].n \in Nat
  BY TypeParts, CallFacts DEF IInv
<1>2. \A p \in Ops : thread'[p].pc = "idle" <=> (thread[p].pc = "idle" /\ p # o)
  BY <1>1, PcSet
<1>3. PICK a : /\ a = Attempt(o, program[o].n) /\ a.op = o /\ a.left = program[o].n
               /\ a.tuple = << >> /\ a.cancelled = FALSE
  BY DEF Attempt
<1>4. /\ Len(D) \in Nat /\ Len(D') = Len(D) + 1 /\ D'[Len(D) + 1] = a
      /\ \A i \in 1..Len(D) : D'[i] = D[i] /\ i \in 1..Len(D')
      /\ \A i \in 1..Len(D') : i = Len(D) + 1 \/ i \in 1..Len(D)
  <2>1. D' = Append(D, a) /\ D \in Seq(AttemptType)
    BY <1>1, <1>3
  <2> HIDE DEF D
  <2> QED  BY <2>1
<1>5. D' # << >>
  <2>1. Len(D') # 0
    BY <1>4
  <2> QED  BY <2>1
<1>6. EnqueuesKept
  BY DEF EnqueuesKept
<1>7. Batches'
  <2> SUFFICES ASSUME NEW i \in 1..Len(D')
               PROVE  /\ i # 1 => D'[i].tuple = << >>
                      /\ Len(D'[i].tuple) + D'[i].left = program[D'[i].op].n
                      /\ result[D'[i].op] = << >>
                      /\ status[D'[i].op] = IF D'[i].cancelled THEN "Cancelled" ELSE "OK"
    BY DEF Batches
  <2>1. CASE i \in 1..Len(D)
    <3>1. D'[i] = D[i]
      BY <1>4, <2>1
    <3> QED  BY <2>1, <3>1 DEF OInv, Batches
  <2>2. CASE i = Len(D) + 1
    <3>1. D'[i] = a
      BY <1>4, <2>2
    <3>2. Len(a.tuple) + a.left = program[o].n
      BY <1>1, <1>3
    <3>3. result[o] = << >> /\ status[o] = "OK"
      BY <1>1 DEF OInv, Untouched
    <3> QED  BY <1>3, <3>1, <3>2, <3>3
  <2> QED  BY <1>4, <2>1, <2>2
<1>8. Gathered' = Gathered
  <2>1. CASE D = << >>
    <3>1. D'[1] = a
      BY <1>4, <2>1
    <3> QED  BY <1>3, <1>5, <2>1, <3>1 DEF Gathered
  <2>2. CASE D # << >>
    <3>1. 1 \in 1..Len(D)
      BY <1>1, <2>2, DerivesTail
    <3> QED  BY <1>4, <1>5, <2>2, <3>1 DEF Gathered
  <2> QED  BY <2>1, <2>2
<1>9. ASSUME NEW p \in Ops, thread'[p].pc # "idle", status[p] = "OK"
      PROVE  \/ \E i \in 1..Len(D') : D'[i].op = p
             \/ thread[p].pc # "idle" /\ \A i \in 1..Len(D) : D[i].op # p
  <2>1. CASE p = o
    <3>1. Len(D) + 1 \in 1..Len(D')
      BY <1>4
    <3> QED  BY <1>3, <1>4, <2>1, <3>1
  <2>2. CASE p # o
    BY <1>2, <1>4, <1>9, <2>2
  <2> QED  BY <2>1, <2>2
<1> QED  BY <1>2, <1>6, <1>7, <1>8, <1>9, Quiet

\* Cancelling an attempt changes nothing else about it.
LEMMA MarkKeeps ==
    ASSUME NEW A \in Seq(AttemptType), NEW S
    PROVE  \A i \in 1..Len(A) : /\ MarkCancelled(A, S)[i].op = A[i].op
                                /\ MarkCancelled(A, S)[i].left = A[i].left
                                /\ MarkCancelled(A, S)[i].tuple = A[i].tuple
<1>1. DOMAIN A = 1..Len(A) /\ \A i \in 1..Len(A) : A[i] \in AttemptType
  BY AttemptFacts
<1>2. ASSUME NEW a \in AttemptType, NEW c
      PROVE  LET b == [a EXCEPT !.cancelled = c] IN b.op = a.op /\ b.left = a.left /\ b.tuple = a.tuple
  BY DEF AttemptType
<1> SUFFICES ASSUME NEW i \in 1..Len(A)
             PROVE  /\ MarkCancelled(A, S)[i].op = A[i].op
                    /\ MarkCancelled(A, S)[i].left = A[i].left
                    /\ MarkCancelled(A, S)[i].tuple = A[i].tuple
  OBVIOUS
<1>3. A[i] \in AttemptType
  BY <1>1
<1>4. PICK c : c = (A[i].cancelled \/ A[i].op \in S)
  OBVIOUS
<1>5. MarkCancelled(A, S)[i] = [A[i] EXCEPT !.cancelled = c]
  BY <1>1, <1>4 DEF MarkCancelled
<1> QED  BY <1>2, <1>3, <1>5

LEMMA CloseAndCancelOInv == ASSUME IInv, OInv, NEW o \in Ops, CloseAndCancel(o) PROVE OInv'
<1> USE DEF CloseAndCancel, NotStarted, answerVars
<1> DEFINE E == enqueue_attempts_
           D == dequeue_attempts_
<1>0. TypeOK /\ E \in Seq(AttemptType) /\ thread[o].pc = "idle"
  BY TypeParts DEF IInv
<1>1. PICK live : live = LiveOps(E)
  OBVIOUS
<1>2. /\ E' = MarkCancelled(E, ToSet(live))
      /\ status' = [p \in Ops |-> IF p \in ToSet(live) THEN Updated(p, "Cancelled")[p] ELSE status[p]]
      /\ thread' = [thread EXCEPT ![o].todo = live, ![o].pc = AfterCallbacks(live, "flush")]
  BY <1>1
<1>3. \A i, j \in 1..Len(E) : E[i].op = E[j].op => i = j
  BY DEF IInv, Rights
<1>4. /\ live \in Seq(Ops)
      /\ \A k \in 1..Len(live) : \E i \in 1..Len(E) : ~E[i].cancelled /\ live[k] = E[i].op
  BY <1>0, <1>1, <1>3, LiveOpsFacts
<1>5. \A p \in ToSet(live) : \E i \in 1..Len(E) : p = E[i].op
  <2>1. ToSet(live) = {live[k] : k \in 1..Len(live)}
    BY <1>4 DEF ToSet
  <2> QED  BY <1>4, <2>1
<1>6. \A p \in ToSet(live) : /\ p \in Ops /\ p # o /\ thread[p].pc # "idle"
                             /\ \A i \in 1..Len(D) : D[i].op # p
  <2> SUFFICES ASSUME NEW p \in ToSet(live)
               PROVE  /\ p \in Ops /\ p # o /\ thread[p].pc # "idle"
                      /\ \A i \in 1..Len(D) : D[i].op # p
    OBVIOUS
  <2>1. PICK i \in 1..Len(E) : p = E[i].op
    BY <1>5
  <2>2. p \in Ops
    BY <1>0, <2>1, AttemptFacts
  <2>3. thread[p].pc # "idle"
    BY <2>1, <2>2, IdleWaitsNowhere
  <2>4. \A j \in 1..Len(D) : D[j].op # p
    BY <2>1 DEF IInv, Shape, IsDequeue
  <2> QED  BY <1>0, <2>2, <2>3, <2>4
<1>7. \A p \in Ops : thread'[p].pc = "idle" <=> (thread[p].pc = "idle" /\ p # o)
  <2> DEFINE c == AfterCallbacks(live, "flush")
             r == [thread[o] EXCEPT !.todo = live, !.pc = c]
  <2>0. thread \in [Threads -> ThreadType] /\ thread[o] \in ThreadType
    BY <1>0, ThreadFacts DEF Threads
  <2>1. c # "idle"
    BY DEF AfterCallbacks
  <2> HIDE DEF c
  <2>2. r.pc = c /\ thread' = [thread EXCEPT ![o] = r]
    BY <1>2, <2>0, ZenonT(30) DEF ThreadType, c
  <2> HIDE DEF r
  <2> QED  BY <1>0, <2>1, <2>2, OpBegins
<1>8. EnqueuesKept
  <2>1. /\ Len(E') = Len(E)
        /\ \A i \in 1..Len(E) : E'[i].op = E[i].op /\ E'[i].left = E[i].left
    <3>1. E' = MarkCancelled(E, ToSet(live)) /\ E \in Seq(AttemptType)
      BY <1>0, <1>2
    <3> HIDE DEF E
    <3>2. Len(MarkCancelled(E, ToSet(live))) = Len(E)
      BY <3>1, MarkFacts
    <3>3. \A i \in 1..Len(E) : /\ MarkCancelled(E, ToSet(live))[i].op = E[i].op
                              /\ MarkCancelled(E, ToSet(live))[i].left = E[i].left
      BY <3>1, MarkKeeps
    <3> QED  BY <3>1, <3>2, <3>3
  <2> QED  BY <2>1 DEF EnqueuesKept
<1>9. \A p \in Ops : \/ status'[p] = status[p]
                     \/ p \in ToSet(live) /\ status'[p] # "OK" /\ (status[p] = "Cancelled" => status'[p] = "Cancelled")
  <2> SUFFICES ASSUME NEW p \in Ops, p \in ToSet(live)
               PROVE  status'[p] # "OK" /\ (status[p] = "Cancelled" => status'[p] = "Cancelled")
    BY <1>2
  <2>1. status'[p] = Updated(p, "Cancelled")[p]
    BY <1>2
  <2>2. Updated(p, "Cancelled")[p] = IF status[p] = "OK" THEN "Cancelled" ELSE status[p]
    BY <1>0, TypeParts DEF Updated
  <2> QED  BY <2>1, <2>2
<1>10. ~IsDequeue(o)
  BY DEF IsDequeue
<1>11. \A p \in Ops : \/ status'[p] = status[p]
                      \/ /\ status'[p] # "OK" /\ thread'[p].pc # "idle"
                         /\ status[p] = "Cancelled" => status'[p] = "Cancelled"
                         /\ \A i \in 1..Len(D) : D[i].op # p
  BY <1>6, <1>7, <1>9
<1> QED  BY <1>7, <1>8, <1>10, <1>11, DequeuesStay

LEMMA CancelOInv == ASSUME IInv, OInv, NEW s \in Steps, NEW o \in Ops, Cancel(s, o) PROVE OInv'
<1> USE DEF Cancel, answerVars
<1> DEFINE E == enqueue_attempts_
           D == dequeue_attempts_
<1>0. TypeOK /\ E \in Seq(AttemptType) /\ D \in Seq(AttemptType) /\ s \in Threads
  BY TypeParts DEF IInv, Threads
<1>1. PICK live : live = ToSet(LiveOps(Cancellable)) \cap {o}
  OBVIOUS
<1>2. /\ E' = MarkCancelled(E, live) /\ D' = MarkCancelled(D, live)
      /\ status' = IF live = {} THEN status ELSE Updated(o, "Cancelled")
      /\ thread' = IF live = {} THEN thread
                   ELSE [thread EXCEPT ![s].pc = "callbacks", ![s].todo = <<o>>]
  BY <1>1
<1>3. live \subseteq {o} /\ (o \in live => Live(o))
  <2>1. /\ LiveOps(Cancellable) \in Seq(Ops)
        /\ \A k \in 1..Len(LiveOps(Cancellable)) : \E i \in 1..Len(Cancellable) :
             ~Cancellable[i].cancelled /\ LiveOps(Cancellable)[k] = Cancellable[i].op
    BY CancellableFacts, LiveOpsFacts
  <2>2. o \in live => \E k \in 1..Len(LiveOps(Cancellable)) : LiveOps(Cancellable)[k] = o
    BY <1>1, <2>1 DEF ToSet
  <2> HIDE DEF Live
  <2> QED  BY <1>1, <2>1, <2>2, CancellableFacts
<1>4. EnqueuesKept
  <2>1. /\ Len(E') = Len(E)
        /\ \A i \in 1..Len(E) : E'[i].op = E[i].op /\ E'[i].left = E[i].left
    <3>1. E' = MarkCancelled(E, live) /\ E \in Seq(AttemptType)
      BY <1>0, <1>2
    <3> HIDE DEF E
    <3>2. Len(MarkCancelled(E, live)) = Len(E)
      BY <3>1, MarkFacts
    <3>3. \A i \in 1..Len(E) : /\ MarkCancelled(E, live)[i].op = E[i].op
                              /\ MarkCancelled(E, live)[i].left = E[i].left
      BY <3>1, MarkKeeps
    <3> QED  BY <3>1, <3>2, <3>3
  <2> QED  BY <2>1 DEF EnqueuesKept
<1>5. /\ D' \in Seq(AttemptType) /\ Len(D') = Len(D)
      /\ \A i \in 1..Len(D) : /\ D'[i].op = D[i].op /\ D'[i].left = D[i].left /\ D'[i].tuple = D[i].tuple
                              /\ D'[i].cancelled <=> (D[i].cancelled \/ D[i].op \in live)
  <2>1. D' = MarkCancelled(D, live) /\ D \in Seq(AttemptType)
    BY <1>0, <1>2
  <2> HIDE DEF D
  <2>2. /\ MarkCancelled(D, live) \in Seq(AttemptType) /\ Len(MarkCancelled(D, live)) = Len(D)
        /\ \A i \in 1..Len(D) : MarkCancelled(D, live)[i].cancelled <=> (D[i].cancelled \/ D[i].op \in live)
    BY <2>1, MarkFacts
  <2>3. \A i \in 1..Len(D) : /\ MarkCancelled(D, live)[i].op = D[i].op
                            /\ MarkCancelled(D, live)[i].left = D[i].left
                            /\ MarkCancelled(D, live)[i].tuple = D[i].tuple
    BY <2>1, MarkKeeps
  <2> QED  BY <2>1, <2>2, <2>3
<1>6. \A p \in Ops : thread'[p] = thread[p]
  <2>1. thread \in [Threads -> ThreadType]
    BY <1>0, ThreadFacts
  <2>2. \A p \in Ops : p # s /\ p \in Threads
    BY ThreadsAssumption DEF Threads
  <2> QED  BY <1>2, <2>1, <2>2
<1>7. o \in live => thread[o].pc # "idle"
  BY <1>3, LiveFacts
<1>8. /\ o \in live => status'[o] = IF status[o] = "OK" THEN "Cancelled" ELSE status[o]
      /\ \A p \in Ops : p \notin live => status'[p] = status[p]
  <2>1. Updated(o, "Cancelled") \in [Ops -> {"OK", "Cancelled", "OutOfRange"}]
    BY <1>0, UpdatedType
  <2>2. \A p \in Ops : Updated(o, "Cancelled")[p] = IF p = o /\ status[p] = "OK" THEN "Cancelled" ELSE status[p]
    BY <1>0, TypeParts DEF Updated
  <2> QED  BY <1>2, <1>3, <2>2
<1>9. Batches'
  <2> SUFFICES ASSUME NEW i \in 1..Len(D')
               PROVE  /\ i # 1 => D'[i].tuple = << >>
                      /\ Len(D'[i].tuple) + D'[i].left = program[D'[i].op].n
                      /\ result[D'[i].op] = << >>
                      /\ status'[D'[i].op] = IF D'[i].cancelled THEN "Cancelled" ELSE "OK"
    BY DEF Batches
  <2>0. i \in 1..Len(D)
    BY <1>5
  <2>1. /\ i # 1 => D[i].tuple = << >>
        /\ Len(D[i].tuple) + D[i].left = program[D[i].op].n
        /\ result[D[i].op] = << >>
        /\ status[D[i].op] = IF D[i].cancelled THEN "Cancelled" ELSE "OK"
    BY <2>0 DEF OInv, Batches
  <2>2. D[i].op \in Ops
    BY <1>0, <2>0, AttemptFacts
  <2>3. /\ D'[i].op = D[i].op /\ D'[i].left = D[i].left /\ D'[i].tuple = D[i].tuple
        /\ D'[i].cancelled <=> (D[i].cancelled \/ D[i].op \in live)
    BY <1>5, <2>0
  <2>4. CASE D[i].op \notin live
    <3>1. status'[D[i].op] = status[D[i].op]
      BY <1>8, <2>2, <2>4
    <3> QED  BY <2>1, <2>3, <2>4, <3>1
  <2>5. CASE D[i].op \in live
    <3>1. D[i].op = o /\ o \in live
      BY <1>3, <2>5
    <3>2. status'[o] = "Cancelled"
      BY <1>8, <2>1, <3>1
    <3> QED  BY <2>1, <2>3, <2>5, <3>1, <3>2
  <2> QED  BY <2>4, <2>5
<1>10. Gathered' = Gathered
  <2>1. D' = << >> <=> D = << >>
    BY <1>0, <1>5, EmptySeq
  <2>2. D # << >> => 1 \in 1..Len(D)
    BY <1>0, DerivesTail
  <2> QED  BY <1>5, <2>1, <2>2 DEF Gathered
<1>11. \A p \in Ops : thread'[p].pc = "idle" =>
         thread[p].pc = "idle" /\ status'[p] = status[p] /\ answers'[p] = answers[p]
  BY <1>3, <1>6, <1>7, <1>8
<1>12. \A p \in Ops : status[p] = "Cancelled" => status'[p] = "Cancelled"
  BY <1>3, <1>8
<1>13. ASSUME NEW p \in Ops, status'[p] = "OK", thread'[p].pc # "idle"
       PROVE  \/ \E i \in 1..Len(D') : D'[i].op = p
              \/ /\ status[p] = "OK" /\ thread[p].pc # "idle"
                 /\ \A i \in 1..Len(D) : D[i].op # p
  <2>1. status[p] = "OK"
    BY <1>3, <1>8, <1>13
  <2> QED  BY <1>5, <1>6, <1>13, <2>1
<1> QED  BY <1>4, <1>9, <1>10, <1>11, <1>12, <1>13, Quiet

LEMMA CallOInv == ASSUME IInv, OInv, NEW o \in Ops, Call(o) PROVE OInv'
<1>1. program[o].n \in Nat
  BY CallFacts DEF IInv
<1>2. CASE TryEnqueueMany(o)
  <2>1. CASE AlreadyCancelled(o)
    BY <1>2, <2>1, AnsweredAtOnceOInv DEF TryEnqueueMany
  <2>2. CASE Registered(o) /\ enqueue_attempts_' = Append(enqueue_attempts_, Attempt(o, program[o].n))
             /\ UNCHANGED dequeue_attempts_
    BY <1>1, <1>2, <2>2, NewEnqueueOInv DEF TryEnqueueMany, Registered
  <2> QED  BY <1>2, <2>1, <2>2 DEF TryEnqueueMany
<1>3. CASE TryDequeueMany(o)
  <2>1. CASE AlreadyCancelled(o)
    BY <1>3, <2>1, AnsweredAtOnceOInv DEF TryDequeueMany
  <2>2. CASE Registered(o) /\ dequeue_attempts_' = Append(dequeue_attempts_, Attempt(o, program[o].n))
             /\ UNCHANGED enqueue_attempts_
    BY <1>3, <2>2, NewDequeueOInv DEF TryDequeueMany, Registered
  <2> QED  BY <1>3, <2>1, <2>2 DEF TryDequeueMany
<1>4. CASE EmptyBatch(o)
  BY <1>4, AnsweredAtOnceOInv DEF EmptyBatch
<1>5. CASE Close(o)
  BY <1>5, NewEnqueueOInv DEF Close
<1>6. CASE CloseAndCancel(o)
  BY <1>6, CloseAndCancelOInv
<1> QED  BY <1>2, <1>3, <1>4, <1>5, <1>6 DEF Call

-----------------------------------------------------------------------------
(* The steps that move elements.                                           *)

\* The places after a step.
LEMMA PlacesMoved ==
    ASSUME NEW E, NEW T, NEW R, entered' = E, Young' = T, result' = R
    PROVE  /\ Placed(entered, Young, result)' <=> Placed(E, T, R)
           /\ Covered(entered, Young, result)' <=> Covered(E, T, R)
<1>1. Placed(entered, Young, result)' <=> Placed(E, T, R)
  BY DEF Placed
<1>2. Covered(entered, Young, result)' <=> Covered(E, T, R)
  BY DEF Covered
<1> QED  BY <1>1, <1>2

\* The first dequeue is gone.
LEMMA DequeueGone ==
    ASSUME IInv, OInv, dequeue_attempts_ # << >>, dequeue_attempts_' = Tail(dequeue_attempts_),
           UNCHANGED program,
           \A p \in Ops : p # dequeue_attempts_[1].op => status'[p] = status[p] /\ result'[p] = result[p]
    PROVE  /\ Batches' /\ Gathered' = << >>
           /\ \A p \in Ops : p # dequeue_attempts_[1].op =>
                ((\E i \in 1..Len(dequeue_attempts_) : dequeue_attempts_[i].op = p) =>
                   \E i \in 1..Len(dequeue_attempts_') : dequeue_attempts_'[i].op = p)
<1> DEFINE D == dequeue_attempts_
<1>1. TypeOK /\ D \in Seq(AttemptType) /\ Len(D) \in Nat
  BY TypeParts, AttemptFacts DEF IInv
<1>2. /\ D' \in Seq(AttemptType) /\ Len(D') = Len(D) - 1 /\ 1 \in 1..Len(D)
      /\ \A i \in 1..Len(D') : D'[i] = D[i + 1] /\ i + 1 \in 1..Len(D)
  BY <1>1, DerivesTail
<1>3. \A i \in 1..Len(D') : i + 1 # 1 /\ D[i + 1].op \in Ops /\ D[i + 1].op # D[1].op
  <2>1. \A i \in 1..Len(D') : i + 1 # 1
    BY <1>1, <1>2
  <2>2. \A i, j \in 1..Len(D) : D[i].op = D[j].op => i = j
    BY DEF IInv, Rights
  <2> QED  BY <1>1, <1>2, <2>1, <2>2, AttemptFacts
<1>4. \A i \in 1..Len(D) :
        /\ i # 1 => D[i].tuple = << >>
        /\ Len(D[i].tuple) + D[i].left = program[D[i].op].n
        /\ result[D[i].op] = << >>
        /\ status[D[i].op] = IF D[i].cancelled THEN "Cancelled" ELSE "OK"
  BY DEF OInv, Batches
<1>5. \A i \in 1..Len(D') :
        /\ D'[i].tuple = << >>
        /\ Len(D'[i].tuple) + D'[i].left = program[D'[i].op].n
        /\ result'[D'[i].op] = << >>
        /\ status'[D'[i].op] = IF D'[i].cancelled THEN "Cancelled" ELSE "OK"
  <2> SUFFICES ASSUME NEW i \in 1..Len(D')
               PROVE  /\ D'[i].tuple = << >>
                      /\ Len(D'[i].tuple) + D'[i].left = program[D'[i].op].n
                      /\ result'[D'[i].op] = << >>
                      /\ status'[D'[i].op] = IF D'[i].cancelled THEN "Cancelled" ELSE "OK"
    OBVIOUS
  <2>1. PICK j \in 1..Len(D) : j = i + 1
    BY <1>2
  <2>2. D'[i] = D[j] /\ j # 1 /\ D[j].op \in Ops /\ D[j].op # D[1].op
    BY <1>2, <1>3, <2>1
  <2>3. status'[D[j].op] = status[D[j].op] /\ result'[D[j].op] = result[D[j].op]
    BY <2>2
  <2> HIDE DEF D
  <2> QED  BY <1>4, <2>1, <2>2, <2>3
<1>6. Batches'
  BY <1>5 DEF Batches
<1>7. Gathered' = << >>
  <2>1. CASE D' = << >>
    BY <2>1 DEF Gathered
  <2>2. CASE D' # << >>
    <3>1. PICK n \in Nat : n = Len(D') /\ n # 0
      BY <1>2, <2>2, EmptySeq
    <3>2. 1 \in 1..n
      BY <3>1
    <3> QED  BY <1>5, <2>2, <3>1, <3>2 DEF Gathered
  <2> QED  BY <2>1, <2>2
<1>8. ASSUME NEW p \in Ops, p # D[1].op, NEW i \in 1..Len(D), D[i].op = p
      PROVE  \E j \in 1..Len(D') : D'[j].op = p
  <2>1. i # 1
    BY <1>8
  <2>2. i - 1 \in 1..Len(D') /\ (i - 1) + 1 = i
    BY <1>1, <1>2, <2>1
  <2> QED  BY <1>2, <1>8, <2>2
<1> QED  BY <1>6, <1>7, <1>8

\* The first dequeue, and what it has gathered.
LEMMA FirstDequeue ==
    ASSUME IInv, OInv, dequeue_attempts_ # << >>, NEW a, a = Head(dequeue_attempts_)
    PROVE  /\ a = dequeue_attempts_[1] /\ 1 \in 1..Len(dequeue_attempts_)
           /\ a \in AttemptType /\ a.op \in Ops /\ a.left \in Nat /\ a.tuple \in Seq(Element)
           /\ IsDequeue(a.op) /\ thread[a.op].pc # "idle" /\ Gathered = a.tuple
           /\ Len(a.tuple) + a.left = program[a.op].n /\ result[a.op] = << >>
           /\ status[a.op] = IF a.cancelled THEN "Cancelled" ELSE "OK"
<1>1. TypeOK /\ dequeue_attempts_ \in Seq(AttemptType)
  BY TypeParts DEF IInv
<1>2. a = dequeue_attempts_[1] /\ 1 \in 1..Len(dequeue_attempts_)
  BY <1>1, DerivesTail
<1>3. a \in AttemptType /\ a.op \in Ops /\ a.left \in Nat /\ a.tuple \in Seq(Element)
  BY <1>1, <1>2, AttemptFacts
<1>4. IsDequeue(a.op)
  BY <1>2 DEF IInv, Shape
<1>5. thread[a.op].pc # "idle"
  BY <1>2, <1>3, IdleWaitsNowhere
<1>6. Gathered = a.tuple
  BY <1>2 DEF Gathered
<1>7. /\ Len(a.tuple) + a.left = program[a.op].n /\ result[a.op] = << >>
      /\ status[a.op] = IF a.cancelled THEN "Cancelled" ELSE "OK"
  BY <1>2 DEF OInv, Batches
<1> QED  BY <1>2, <1>3, <1>4, <1>5, <1>6, <1>7

\* A cancelled batch is lost; who waits behind it has gathered nothing.
LEMMA SkipCancelledDequeueOInv ==
    ASSUME IInv, OInv, NEW t \in Threads, SkipCancelledDequeue(t) PROVE OInv'
<1> USE DEF SkipCancelledDequeue, answerVars
<1> DEFINE D == dequeue_attempts_
<1>0. TypeOK /\ queue \in Seq(Element) /\ entered \in Seq(Element) /\ result \in [Ops -> Seq(Element)]
  BY TypeParts DEF IInv
<1>1. PICK a : a = Head(D)
  OBVIOUS
<1>2. /\ a = D[1] /\ a.op \in Ops /\ IsDequeue(a.op) /\ Gathered = a.tuple /\ a.tuple \in Seq(Element)
      /\ status[a.op] = "Cancelled" /\ 1 \in 1..Len(D)
  BY <1>1, FirstDequeue
<1>3. /\ Batches' /\ Gathered' = << >>
      /\ \A p \in Ops : p # a.op => ((\E i \in 1..Len(D) : D[i].op = p) => \E i \in 1..Len(D') : D'[i].op = p)
  BY <1>2, DequeueGone
<1>4. Numbered'
  <2>1. EnqueuesKept
    BY DEF EnqueuesKept
  <2> QED  BY <2>1, NumberedKept
<1>5. Untouched'
  BY DEF OInv, Untouched
<1>6. Filled'
  <2> SUFFICES ASSUME NEW p \in Ops, IsDequeue(p), program[p].n > 0, status[p] = "OK",
                      thread[p].pc # "idle", ~(\E i \in 1..Len(D') : D'[i].op = p)
               PROVE  \/ Len(result[p]) = program[p].n
                      \/ program[p].kind = "DequeueUpTo" /\ closed_ /\ Len(result[p]) \in 1..program[p].n
    BY SameTypes DEF Filled
  <2>1. p # a.op
    BY <1>2
  <2>2. ~(\E i \in 1..Len(D) : D[i].op = p)
    BY <1>3, <2>1
  <2> QED  BY <2>2 DEF OInv, Filled
<1>7. WithinCapacityWhileOpen'
  BY DEF OInv, WithinCapacityWhileOpen
<1>8. Young' = queue
  BY <1>0, <1>3 DEF Young
<1>9. Placed(entered, queue, result)
  <2>1. PICK Y : Y = Young /\ Y \in Seq(Element)
    BY <1>0, YoungFacts
  <2>2. PICK m \in Nat, q \in Nat : m = Len(Gathered) /\ q = Len(queue)
    BY <1>0, <1>2
  <2>3. /\ Len(Y) = m + q /\ \A i \in 1..q : Y[m + i] = queue[i]
    BY <1>0, <2>1, <2>2, YoungFacts
  <2>4. m <= Len(Y) /\ Rest(queue, Y, m)
    BY <2>2, <2>3 DEF Rest
  <2>5. Placed(entered, Y, result)
    BY <2>1 DEF OInv
  <2> QED  BY <1>0, <2>1, <2>4, <2>5, PlacedFewer
<1>10. Placed(entered, Young, result)'
  BY <1>8, <1>9 DEF Placed
<1>11. ~NoBatchCancelled'
  BY <1>2, SameTypes DEF NoBatchCancelled, CancelledBatch
<1> QED  BY <1>3, <1>4, <1>5, <1>6, <1>7, <1>10, <1>11 DEF OInv

\* What an enqueue lets in: the next ones of its elements, and no more than there is room for.
LEMMA EnqueuedNowElements ==
    ASSUME TypeOK, NEW a \in AttemptType, a.left <= program[a.op].n, NEW room \in Int
    PROVE  /\ room >= 0 => Len(EnqueuedNow(a, room)) <= room
           /\ \A i \in 1..Len(EnqueuedNow(a, room)) :
                EnqueuedNow(a, room)[i] = <<a.op, program[a.op].n - a.left + i>>
<1> DEFINE m == IF room < a.left THEN room ELSE a.left
           k == IF m < 0 THEN 0 ELSE m
           q == EnqueuedNow(a, room)
<1>1. a.op \in Ops /\ a.left \in Nat
  BY DEF AttemptType
<1>2. program[a.op].n \in Nat
  BY <1>1, CallFacts
<1>3. m \in Int /\ k \in Nat /\ 1..m = 1..k
  <2>1. m \in Int
    BY <1>1
  <2> HIDE DEF m
  <2> QED  BY <1>1, <2>1
<1>4. q = [i \in 1..k |-> <<a.op, program[a.op].n - a.left + i>>]
  BY <1>3 DEF EnqueuedNow
<1>5. room >= 0 => k <= room
  BY <1>1
<1> HIDE DEF m, k
<1>6. Len(q) = k
  BY <1>3, <1>4
<1>7. \A i \in 1..k : q[i] = <<a.op, program[a.op].n - a.left + i>>
  BY <1>4
<1> QED  BY <1>5, <1>6, <1>7

\* The next elements of an op that let in the first ones are new.
LEMMA NewElements ==
    ASSUME TypeOK, Distinct(entered), NEW o \in Ops, NEW d \in Nat, NEW N \in Seq(Element),
           \A k \in 1..Len(entered) : entered[k][1] = o => entered[k][2] <= d,
           \A i \in 1..Len(N) : N[i] = <<o, d + i>>
    PROVE  Distinct(entered \o N)
<1>1. PICK e \in Nat, n \in Nat : e = Len(entered) /\ n = Len(N)
  BY TypeParts
<1>2. PICK F : F = entered \o N
  OBVIOUS
<1>3. /\ Len(F) = e + n
      /\ \A i \in 1..e : F[i] = entered[i]
      /\ \A i \in 1..n : F[e + i] = N[i]
  <2>1. entered \in Seq(Element)
    BY TypeParts
  <2> QED  BY <1>1, <1>2, <2>1, ConcatParts
<1>4. \A i \in 1..n : F[e + i][1] = o /\ F[e + i][2] = d + i
  BY <1>1, <1>3
<1>5. \A i \in 1..e : F[i][1] = o => F[i][2] <= d
  BY <1>1, <1>3
<1>6. \A i \in 1..(e + n) : i \in 1..e \/ \E l \in 1..n : i = e + l
  <2> SUFFICES ASSUME NEW i \in 1..(e + n), i \notin 1..e PROVE \E l \in 1..n : i = e + l
    OBVIOUS
  <2>1. i - e \in 1..n /\ i = e + (i - e)
    OBVIOUS
  <2> QED  BY <2>1
<1>7. ASSUME NEW i \in 1..e, NEW l \in 1..n, F[i] = F[e + l] PROVE FALSE
  <2>1. F[i][1] = o /\ F[i][2] = d + l
    BY <1>4, <1>7
  <2>2. d + l <= d
    BY <1>5, <2>1
  <2> QED  BY <2>2
<1>8. ASSUME NEW i \in 1..n, NEW l \in 1..n, F[e + i] = F[e + l] PROVE i = l
  <2>1. d + i = d + l
    BY <1>4, <1>8
  <2> QED  BY <2>1
<1>9. ASSUME NEW i \in 1..e, NEW l \in 1..e, F[i] = F[l] PROVE i = l
  BY <1>1, <1>3, <1>9 DEF Distinct
<1>10. ASSUME NEW i \in 1..(e + n), NEW l \in 1..(e + n), F[i] = F[l] PROVE i = l
  <2>1. CASE i \in 1..e /\ l \in 1..e
    BY <1>9, <1>10, <2>1
  <2>2. CASE i \in 1..e /\ l \notin 1..e
    BY <1>6, <1>7, <1>10, <2>2
  <2>3. CASE i \notin 1..e /\ l \in 1..e
    BY <1>6, <1>7, <1>10, <2>3
  <2>4. CASE i \notin 1..e /\ l \notin 1..e
    <3>1. PICK j \in 1..n, k \in 1..n : i = e + j /\ l = e + k
      BY <1>6, <2>4
    <3>2. F[e + j] = F[e + k]
      BY <1>10, <3>1
    <3>3. j = k
      BY <1>8, <3>2
    <3> QED  BY <3>1, <3>3
  <2> QED  BY <2>1, <2>2, <2>3, <2>4
<1> QED  BY <1>2, <1>3, <1>10 DEF Distinct

LEMMA RunEnqueueOInv == ASSUME IInv, OInv, NEW t \in Threads, RunEnqueue(t) PROVE OInv'
<1> USE DEF RunEnqueue, InPass, answerVars
<1> DEFINE E == enqueue_attempts_
           D == dequeue_attempts_
<1>0. /\ TypeOK /\ E \in Seq(AttemptType) /\ queue \in Seq(Element) /\ entered \in Seq(Element)
      /\ result \in [Ops -> Seq(Element)] /\ thread[t].pc = "locked"
  BY TypeParts DEF IInv
<1>1. PICK a : a = Head(E)
  OBVIOUS
<1>2. a = E[1] /\ 1 \in 1..Len(E) /\ DOMAIN E = 1..Len(E)
  BY <1>0, <1>1, DerivesTail, AttemptFacts
<1>3. /\ a \in AttemptType /\ a.op \in Ops /\ a.left \in Nat /\ a.left <= program[a.op].n
      /\ ~IsDequeue(a.op) /\ program[a.op].n \in Nat
  BY <1>0, <1>2, AttemptFacts, CallFacts DEF IInv, Shape, IsDequeue
<1>4. thread[a.op].pc # "idle" /\ \A i \in 1..Len(D) : D[i].op # a.op
  BY <1>2, <1>3 DEF IInv, Rights, Shape, IsDequeue
<1>5. Room \in Int /\ Len(queue) \in Nat
  BY <1>0, CapacityAssumption DEF Room
<1>6. PICK now : now = IF closed_ THEN << >> ELSE EnqueuedNow(a, Room)
  OBVIOUS
<1>7. PICK complete \in BOOLEAN : complete <=> (closed_ \/ Len(now) = a.left)
  BY Zenon
<1>8. /\ queue' = queue \o now /\ entered' = entered \o now
      /\ status' = IF closed_ THEN Updated(a.op, "Cancelled") ELSE status
      /\ complete => Complete(t, a.op) /\ E' = Tail(E)
      /\ ~complete => PassDone(t, now # << >>) /\ E' = [E EXCEPT ![1].left = @ - Len(now)]
  BY <1>1, <1>6, <1>7
<1>9. PICK d \in Nat : d = program[a.op].n - a.left
  BY <1>3
<1>10. /\ now \in Seq(Element) /\ Len(now) \in Nat /\ (~closed_ => Len(now) <= a.left)
       /\ \A i \in 1..Len(now) : now[i] = <<a.op, d + i>>
       /\ ~closed_ /\ Room >= 0 => Len(now) <= Room
  <2>1. CASE closed_
    BY <1>6, <2>1
  <2>2. CASE ~closed_
    <3>1. now = EnqueuedNow(a, Room)
      BY <1>6, <2>2
    <3>2. now \in Seq(Element) /\ Len(now) \in Nat /\ Len(now) <= a.left
      BY <1>0, <1>3, <1>5, <3>1, EnqueuedNowFacts
    <3>3. /\ \A i \in 1..Len(now) : now[i] = <<a.op, d + i>>
          /\ Room >= 0 => Len(now) <= Room
      BY <1>0, <1>3, <1>5, <1>9, <3>1, EnqueuedNowElements
    <3> QED  BY <3>2, <3>3
  <2> QED  BY <2>1, <2>2
<1>11. \A o \in Ops : thread'[o].pc = "idle" <=> thread[o].pc = "idle"
  <2>1. PICK r \in ThreadType : thread' = [thread EXCEPT ![t] = r] /\ r.pc = thread[t].pc
    <3>1. CASE complete
      BY <1>0, <1>3, <1>8, <3>1, CompleteFacts
    <3>2. CASE ~complete
      <4>1. (now # << >>) \in BOOLEAN
        OBVIOUS
      <4> QED  BY <1>0, <1>8, <3>2, <4>1, PassDoneFacts
    <3> QED  BY <3>1, <3>2
  <2> QED  BY <1>0, <2>1, ThreadGoesOn
<1>12. \A o \in Ops : o # a.op => status'[o] = status[o]
  BY <1>0, <1>3, <1>8, TypeParts DEF Updated
<1>13. \A k \in 1..Len(entered) : entered[k][1] = a.op => entered[k][2] <= d
  BY <1>2, <1>9 DEF OInv, Numbered
<1>14. /\ Len(entered') = Len(entered) + Len(now) /\ Len(entered) \in Nat
       /\ \A k \in 1..Len(entered) : entered'[k] = entered[k]
       /\ \A i \in 1..Len(now) : entered'[Len(entered) + i] = now[i]
  <2>1. PICK F : F = entered \o now
    OBVIOUS
  <2>2. /\ Len(F) = Len(entered) + Len(now) /\ Len(entered) \in Nat
        /\ \A k \in 1..Len(entered) : F[k] = entered[k]
        /\ \A i \in 1..Len(now) : F[Len(entered) + i] = now[i]
    <3>1. PICK e \in Nat, n \in Nat : e = Len(entered) /\ n = Len(now)
      <4>1. Len(entered) \in Nat
        BY <1>0
      <4>2. Len(now) \in Nat
        BY <1>10
      <4> QED  BY <4>1, <4>2
    <3>2. Len(F) = e + n /\ (\A k \in 1..e : F[k] = entered[k]) /\ \A i \in 1..n : F[e + i] = now[i]
      BY <1>0, <1>10, <2>1, <3>1, ConcatParts, SMTT(30)
    <3> QED  BY <3>1, <3>2
  <2>3. entered' = F
    BY <1>8, <2>1
  <2> QED  BY <2>2, <2>3
<1>15. \A k \in 1..Len(entered') :
         \/ k \in 1..Len(entered) /\ entered'[k] = entered[k]
         \/ \E i \in 1..Len(now) : entered'[k] = <<a.op, d + i>>
  <2> SUFFICES ASSUME NEW k \in 1..Len(entered'), k \notin 1..Len(entered)
               PROVE  \E i \in 1..Len(now) : entered'[k] = <<a.op, d + i>>
    BY <1>14
  <2>1. k - Len(entered) \in 1..Len(now) /\ Len(entered) + (k - Len(entered)) = k
    BY <1>10, <1>14
  <2> QED  BY <1>10, <1>14, <2>1
<1>16. \A i \in 1..Len(E') :
         \/ \E j \in 1..Len(E) : E'[i] = E[j] /\ E[j].op # a.op
         \/ E'[i].op = a.op /\ E'[i].left = a.left - Len(now) /\ Len(now) <= a.left
  <2>1. \A j \in 1..Len(E) : j # 1 => E[j].op # a.op
    BY <1>2 DEF IInv, Rights
  <2>2. CASE complete
    <3>1. E' = Tail(E)
      BY <1>8, <2>2
    <3>2. \A i \in 1..Len(E') : E'[i] = E[i + 1] /\ i + 1 \in 1..Len(E)
      BY <1>0, <3>1, DerivesTail
    <3>3. \A i \in 1..Len(E') : i + 1 # 1
      OBVIOUS
    <3> QED  BY <2>1, <3>2, <3>3
  <2>3. CASE ~complete
    <3>1. PICK b : b = [a EXCEPT !.left = @ - Len(now)]
      OBVIOUS
    <3>2. ~closed_ /\ Len(now) <= a.left /\ a.left - Len(now) \in Nat
      BY <1>3, <1>7, <1>10, <2>3
    <3>3. b \in AttemptType /\ b.op = a.op /\ b.left = a.left - Len(now)
      BY <1>3, <3>1, <3>2 DEF AttemptType
    <3>4. E' = [E EXCEPT ![1] = b] /\ E \in Seq(AttemptType)
      BY <1>0, <1>2, <1>8, <2>3, <3>1
    <3>5. Len(E') = Len(E) /\ \A i \in 1..Len(E) : E'[i] = IF i = 1 THEN b ELSE E[i]
      <4>1. PICK B : B = [E EXCEPT ![1] = b]
        OBVIOUS
      <4> HIDE DEF E
      <4>2. Len(B) = Len(E) /\ \A i \in 1..Len(E) : B[i] = IF i = 1 THEN b ELSE E[i]
        BY <3>3, <3>4, <4>1
      <4> QED  BY <3>4, <4>1, <4>2
    <3> QED  BY <2>1, <3>2, <3>3, <3>5, ZenonT(30)
  <2> QED  BY <2>2, <2>3
<1>17. Numbered'
  <2>1. Distinct(entered')
    <3>1. Distinct(entered)
      BY DEF OInv, Numbered
    <3>2. Distinct(entered \o now)
      BY <1>0, <1>3, <1>10, <1>13, <3>1, NewElements
    <3> QED  BY <1>8, <3>2
  <2>2. ASSUME NEW i \in 1..Len(E'), NEW k \in 1..Len(entered'), entered'[k][1] = E'[i].op
        PROVE  entered'[k][2] <= program[E'[i].op].n - E'[i].left
    <3>1. CASE \E j \in 1..Len(E) : E'[i] = E[j] /\ E[j].op # a.op
      <4>1. PICK j \in 1..Len(E) : E'[i] = E[j] /\ E[j].op # a.op
        BY <3>1
      <4>2. k \in 1..Len(entered) /\ entered'[k] = entered[k]
        <5>1. ~(\E l \in 1..Len(now) : entered'[k] = <<a.op, d + l>>)
          <6> SUFFICES ASSUME NEW l \in 1..Len(now), entered'[k] = <<a.op, d + l>> PROVE FALSE
            OBVIOUS
          <6>1. entered'[k][1] = a.op
            OBVIOUS
          <6> QED  BY <2>2, <4>1, <6>1
        <5> QED  BY <1>15, <5>1
      <4> QED  BY <2>2, <4>1, <4>2 DEF OInv, Numbered
    <3>2. CASE E'[i].op = a.op /\ E'[i].left = a.left - Len(now) /\ Len(now) <= a.left
      <4>1. PICK l \in Nat, n \in Nat, m \in Nat : l = a.left /\ n = program[a.op].n /\ m = Len(now)
        BY <1>3, <1>10
      <4>2. program[E'[i].op].n - E'[i].left = d + m
        <5>1. n - (l - m) = (n - l) + m
          OBVIOUS
        <5> QED  BY <1>9, <3>2, <4>1, <5>1
      <4>3. CASE k \in 1..Len(entered) /\ entered'[k] = entered[k]
        <5>1. entered[k][2] <= d
          BY <1>13, <2>2, <3>2, <4>3
        <5>2. entered[k][2] \in Nat
          BY <1>0, <4>3 DEF Element
        <5>3. entered[k][2] <= d + m
          BY <5>1, <5>2
        <5> QED  BY <4>2, <4>3, <5>3
      <4>4. CASE \E j \in 1..Len(now) : entered'[k] = <<a.op, d + j>>
        <5>1. PICK j \in 1..m : entered'[k] = <<a.op, d + j>>
          BY <4>1, <4>4
        <5>2. entered'[k][2] = d + j /\ d + j <= d + m
          BY <5>1, SMTT(30)
        <5> QED  BY <4>2, <5>2
      <4> QED  BY <1>15, <4>3, <4>4
    <3> QED  BY <1>16, <3>1, <3>2
  <2> QED  BY <2>1, <2>2 DEF Numbered, Distinct
<1>18. Batches'
  <2>1. \A i \in 1..Len(D) : status'[D[i].op] = status[D[i].op]
    <3>1. \A i \in 1..Len(D) : D[i].op \in Ops
      BY <1>0, TypeParts, AttemptFacts
    <3> QED  BY <1>4, <1>12, <3>1
  <2> QED  BY <2>1 DEF OInv, Batches
<1>19. Untouched'
  <2> SUFFICES ASSUME NEW o \in Ops, thread'[o].pc = "idle"
               PROVE  /\ status'[o] = "OK" /\ answers[o] = 0 /\ result[o] = << >>
                      /\ \A k \in 1..Len(entered') : entered'[k][1] # o
    BY DEF Untouched
  <2>1. thread[o].pc = "idle" /\ o # a.op
    BY <1>4, <1>11
  <2>2. /\ status[o] = "OK" /\ answers[o] = 0 /\ result[o] = << >>
        /\ \A k \in 1..Len(entered) : entered[k][1] # o
    BY <2>1 DEF OInv, Untouched
  <2>3. \A k \in 1..Len(entered') : entered'[k][1] # o
    BY <1>15, <2>1, <2>2
  <2> QED  BY <1>12, <2>1, <2>2, <2>3
<1>20. Filled'
  <2>1. \A o \in Ops : IsDequeue(o) => status'[o] = status[o]
    BY <1>3, <1>12
  <2> QED  BY <1>11, <2>1, SameTypes DEF OInv, Filled
<1>21. WithinCapacityWhileOpen'
  <2> SUFFICES ASSUME ~closed_ PROVE Len(queue') <= Capacity
    BY DEF WithinCapacityWhileOpen
  <2>1. PICK q \in Nat, m \in Nat : q = Len(queue) /\ m = Len(now)
    BY <1>5, <1>10
  <2>2. q <= Capacity /\ Capacity \in Nat
    BY <2>1, CapacityAssumption DEF OInv, WithinCapacityWhileOpen
  <2>3. Capacity - q >= 0 /\ Room = Capacity - q
    BY <2>1, <2>2 DEF Room
  <2>4. m <= Capacity - q
    BY <1>10, <2>1, <2>3
  <2>5. Len(queue') = q + m
    <3>1. Len(queue \o now) = q + m
      BY <1>0, <1>10, <2>1, ConcatProperties
    <3> QED  BY <1>8, <3>1
  <2> QED  BY <2>2, <2>4, <2>5
<1>22. /\ Placed(entered, Young, result)'
       /\ NoBatchCancelled' => Covered(entered, Young, result)'
  <2>1. Gathered' = Gathered /\ Gathered \in Seq(Element) /\ Young \in Seq(Element)
    BY <1>0, YoungFacts DEF Gathered
  <2>2. Young' = Young \o now
    <3>1. Young' = Gathered \o (queue \o now)
      BY <1>8, <2>1 DEF Young
    <3>2. (Gathered \o queue) \o now = Gathered \o (queue \o now)
      BY <1>0, <1>10, <2>1, ConcatAssociative, SMTT(30)
    <3> QED  BY <3>1, <3>2 DEF Young
  <2>3. /\ Placed(entered \o now, Young \o now, result)
        /\ Covered(entered, Young, result) => Covered(entered \o now, Young \o now, result)
    BY <1>0, <1>10, <2>1, PlacedMore DEF OInv
  <2>4. PICK F, U : F = entered \o now /\ U = Young \o now
    OBVIOUS
  <2>5. /\ Placed(entered, Young, result)'
        /\ Covered(entered, Young, result) => Covered(entered, Young, result)'
    <3>1. entered' = F /\ Young' = U /\ result' = result
      BY <1>8, <2>2, <2>4
    <3>2. Placed(F, U, result) /\ (Covered(entered, Young, result) => Covered(F, U, result))
      BY <2>3, <2>4
    <3> QED  BY <3>1, <3>2, PlacesMoved
  <2>6. NoBatchCancelled' => NoBatchCancelled
    BY <1>3, <1>12, SameTypes DEF NoBatchCancelled, CancelledBatch
  <2> QED  BY <2>5, <2>6 DEF OInv
<1> QED  BY <1>17, <1>18, <1>19, <1>20, <1>21, <1>22 DEF OInv

\* Every element has its place.
InPlace ==
    /\ Placed(entered, Young, result)
    /\ NoBatchCancelled => Covered(entered, Young, result)

\* The first dequeue is answered: it has its batch or it failed.
LEMMA DequeueAnswered ==
    ASSUME IInv, OInv, dequeue_attempts_ # << >>, NEW a, a = Head(dequeue_attempts_),
           dequeue_attempts_' = Tail(dequeue_attempts_),
           UNCHANGED <<program, closed_, enqueue_attempts_, answers, entered>>,
           \A o \in Ops : thread'[o].pc = "idle" <=> thread[o].pc = "idle",
           \A p \in Ops : p # a.op => status'[p] = status[p] /\ result'[p] = result[p],
           status'[a.op] = "OK" =>
             \/ Len(result'[a.op]) = program[a.op].n
             \/ program[a.op].kind = "DequeueUpTo" /\ closed_ /\ Len(result'[a.op]) \in 1..program[a.op].n,
           closed_ \/ Len(queue') <= Capacity,
           InPlace'
    PROVE  OInv'
<1> DEFINE D == dequeue_attempts_
<1>1. a = D[1] /\ a.op \in Ops /\ thread[a.op].pc # "idle"
  BY FirstDequeue
<1>2. /\ Batches'
      /\ \A p \in Ops : p # a.op => ((\E i \in 1..Len(D) : D[i].op = p) => \E i \in 1..Len(D') : D'[i].op = p)
  BY <1>1, DequeueGone
<1>3. Numbered'
  <2>1. EnqueuesKept
    BY DEF EnqueuesKept
  <2> QED  BY <2>1, NumberedKept
<1>4. Untouched'
  BY <1>1 DEF OInv, Untouched
<1>5. Filled'
  <2> SUFFICES ASSUME NEW p \in Ops, IsDequeue(p), program[p].n > 0, status'[p] = "OK",
                      thread'[p].pc # "idle", ~(\E i \in 1..Len(D') : D'[i].op = p)
               PROVE  \/ Len(result'[p]) = program[p].n
                      \/ program[p].kind = "DequeueUpTo" /\ closed_ /\ Len(result'[p]) \in 1..program[p].n
    BY SameTypes DEF Filled
  <2>1. CASE p = a.op
    BY <2>1
  <2>2. CASE p # a.op
    <3>1. ~(\E i \in 1..Len(D) : D[i].op = p)
      BY <1>2, <2>2
    <3>2. status[p] = "OK" /\ thread[p].pc # "idle" /\ result'[p] = result[p]
      BY <2>2
    <3> QED  BY <3>1, <3>2 DEF OInv, Filled
  <2> QED  BY <2>1, <2>2
<1>6. WithinCapacityWhileOpen'
  BY DEF WithinCapacityWhileOpen
<1> QED  BY <1>2, <1>3, <1>4, <1>5, <1>6 DEF OInv, InPlace

\* It has its batch: the oldest of the elements that were not handed over.
LEMMA BatchHanded ==
    ASSUME IInv, OInv, dequeue_attempts_ # << >>, NEW a, a = Head(dequeue_attempts_),
           dequeue_attempts_' = Tail(dequeue_attempts_),
           UNCHANGED <<program, closed_, enqueue_attempts_, answers, entered, status>>,
           \A o \in Ops : thread'[o].pc = "idle" <=> thread[o].pc = "idle",
           NEW B \in Seq(Element), NEW Q \in Seq(Element), queue' = Q,
           result' = [result EXCEPT ![a.op] = B],
           Len(B) <= Len(Young), Rest(Q, Young, Len(B)), \A k \in 1..Len(B) : B[k] = Young[k],
           \/ Len(B) = program[a.op].n
           \/ program[a.op].kind = "DequeueUpTo" /\ closed_ /\ Len(B) \in 1..program[a.op].n,
           closed_ \/ Len(Q) <= Capacity
    PROVE  OInv'
<1> DEFINE D == dequeue_attempts_
<1>0. TypeOK /\ entered \in Seq(Element) /\ Young \in Seq(Element) /\ result \in [Ops -> Seq(Element)]
  BY TypeParts, YoungFacts DEF IInv
<1>1. a = D[1] /\ a.op \in Ops /\ result[a.op] = << >>
  BY FirstDequeue
<1>2. result'[a.op] = B /\ \A p \in Ops : p # a.op => status'[p] = status[p] /\ result'[p] = result[p]
  BY <1>0, <1>1
<1>3. Gathered' = << >>
  BY <1>1, <1>2, DequeueGone
<1>4. Young' = Q
  BY <1>3 DEF Young
<1>5. PICK R : R = [result EXCEPT ![a.op] = B]
  OBVIOUS
<1>6. /\ Placed(entered, Q, R)
      /\ Covered(entered, Young, result) => Covered(entered, Q, R)
  <2>1. PICK Y : Y = Young
    OBVIOUS
  <2>2. Distinct(entered) /\ Placed(entered, Y, result)
    BY <2>1 DEF OInv, Numbered
  <2>3. Y \in Seq(Element) /\ Len(B) <= Len(Y) /\ Rest(Q, Y, Len(B)) /\ \A k \in 1..Len(B) : B[k] = Y[k]
    BY <1>0, <2>1
  <2>4. /\ Placed(entered, Q, [result EXCEPT ![a.op] = B])
        /\ Covered(entered, Y, result) => Covered(entered, Q, [result EXCEPT ![a.op] = B])
    BY <1>0, <1>1, <2>2, <2>3, PlacedBatch
  <2> QED  BY <1>5, <2>1, <2>4
<1>7. NoBatchCancelled' => NoBatchCancelled
  BY SameTypes DEF NoBatchCancelled, CancelledBatch
<1>8. /\ Placed(entered, Young, result)'
      /\ Covered(entered, Young, result) => Covered(entered, Young, result)'
  <2>1. entered' = entered /\ Young' = Q /\ result' = R
    BY <1>4, <1>5
  <2> QED  BY <1>6, <2>1, PlacesMoved
<1>9. NoBatchCancelled' => Covered(entered, Young, result)'
  BY <1>7, <1>8 DEF OInv
<1>10. /\ \/ Len(result'[a.op]) = program[a.op].n
          \/ program[a.op].kind = "DequeueUpTo" /\ closed_ /\ Len(result'[a.op]) \in 1..program[a.op].n
       /\ closed_ \/ Len(queue') <= Capacity
  BY <1>2
<1>11. UNCHANGED <<program, closed_, enqueue_attempts_, answers, entered>>
  OBVIOUS
<1>12. InPlace'
  BY <1>6, <1>8, <1>9 DEF InPlace
<1> QED  BY <1>2, <1>10, <1>11, <1>12, DequeueAnswered

LEMMA RunDequeueOInv == ASSUME IInv, OInv, NEW t \in Threads, RunDequeue(t) PROVE OInv'
<1> DEFINE D == dequeue_attempts_
<1>0. /\ TypeOK /\ queue \in Seq(Element) /\ entered \in Seq(Element) /\ Young \in Seq(Element)
      /\ result \in [Ops -> Seq(Element)] /\ status \in [Ops -> {"OK", "Cancelled", "OutOfRange"}]
      /\ D \in Seq(AttemptType) /\ program \in Programs
  BY TypeParts, YoungFacts DEF IInv
<1>1. PICK a : a = Head(D)
  OBVIOUS
<1>2. /\ D # << >> /\ ~a.cancelled
      /\ mu = t /\ thread[t].pc = "locked" /\ thread[t].pass = "dequeue"
      /\ UNCHANGED <<program, closed_, enqueue_attempts_, answers, entered>>
      /\ IF closed_ /\ Len(queue) < a.left THEN RunDequeueClosed(t, a) ELSE RunDequeueOpen(t, a)
  BY <1>1 DEF RunDequeue, InPass
<1>3. /\ a = D[1] /\ 1 \in 1..Len(D) /\ a \in AttemptType /\ a.op \in Ops /\ a.left \in Nat
      /\ a.tuple \in Seq(Element) /\ thread[a.op].pc # "idle" /\ Gathered = a.tuple
      /\ Len(a.tuple) + a.left = program[a.op].n /\ result[a.op] = << >> /\ status[a.op] = "OK"
  BY <1>1, <1>2, FirstDequeue
<1>4. closed_ => enqueue_attempts_ = << >>
  BY <1>2 DEF IInv, Rounds
<1>5. PICK m \in Nat, q \in Nat, l \in Nat, n \in Nat :
        m = Len(a.tuple) /\ q = Len(queue) /\ l = a.left /\ n = program[a.op].n
  <2>1. Len(a.tuple) \in Nat /\ Len(queue) \in Nat
    BY <1>0, <1>3
  <2>2. program[a.op].n \in Nat
    BY <1>0, <1>3, CallFacts
  <2> QED  BY <1>3, <2>1, <2>2
<1>6. /\ m + l = n /\ Len(Young) = m + q
      /\ \A i \in 1..m : Young[i] = a.tuple[i]
      /\ \A i \in 1..q : Young[m + i] = queue[i]
  <2>1. m + l = n
    BY <1>3, <1>5
  <2> QED  BY <1>0, <1>3, <1>5, <2>1, YoungFacts
<1>7. ASSUME Complete(t, a.op) \/ \E progress \in BOOLEAN : PassDone(t, progress)
      PROVE  \A o \in Ops : thread'[o].pc = "idle" <=> thread[o].pc = "idle"
  <2>1. PICK r \in ThreadType : thread' = [thread EXCEPT ![t] = r] /\ r.pc = thread[t].pc
    <3>1. CASE Complete(t, a.op)
      BY <1>0, <1>3, <3>1, CompleteFacts
    <3>2. CASE \E progress \in BOOLEAN : PassDone(t, progress)
      <4>1. PICK progress \in BOOLEAN : PassDone(t, progress)
        BY <3>2
      <4> QED  BY <1>0, <4>1, PassDoneFacts
    <3> QED  BY <1>7, <3>1, <3>2
  <2> QED  BY <1>0, <1>2, <2>1, ThreadGoesOn
<1>8. CASE closed_ /\ Len(queue) < a.left
  <2>1. PICK Y : Y = Restored(a)
    OBVIOUS
  <2>2. Y = Young
    BY <1>3, <2>1 DEF Young, Restored
  <2> DEFINE small == program[a.op].kind = "DequeueUpTo"
             yields == small /\ Restored(a) = << >> /\ enqueue_attempts_ # << >>
             some == small /\ Restored(a) # << >>
  <2>3. /\ queue' = IF some THEN << >> ELSE Restored(a)
        /\ result' = IF some THEN [result EXCEPT ![a.op] = Restored(a)] ELSE result
        /\ status' = IF some \/ yields THEN status ELSE Updated(a.op, "OutOfRange")
        /\ IF yields THEN PassDone(t, TRUE) ELSE Complete(t, a.op)
        /\ D' = IF yields THEN D ELSE Tail(D)
    BY <1>2, <1>8 DEF RunDequeueClosed
  <2>4. ~yields
    BY <1>4, <1>8
  <2> HIDE DEF yields
  <2>5. Complete(t, a.op) /\ D' = Tail(D)
    BY <2>3, <2>4
  <2>6. \A o \in Ops : thread'[o].pc = "idle" <=> thread[o].pc = "idle"
    BY <1>7, <2>5
  <2>7. CASE some
    <3>1. /\ queue' = << >> /\ result' = [result EXCEPT ![a.op] = Y] /\ status' = status
      BY <2>1, <2>3, <2>7
    <3>2. Y \in Seq(Element) /\ Len(Y) = m + q /\ Y # << >>
      BY <1>0, <1>6, <2>1, <2>2, <2>7
    <3>3. m + q \in 1..n
      <4>1. q < l /\ m + q # 0
        BY <1>5, <1>8, <3>2, EmptySeq
      <4> QED  BY <1>5, <1>6, <4>1
    <3>4. program[a.op].kind = "DequeueUpTo" /\ closed_ /\ Len(Y) \in 1..program[a.op].n
      BY <1>5, <1>8, <2>7, <3>2, <3>3
    <3>5. Rest(<< >>, Young, Len(Y)) /\ Len(Y) <= Len(Young) /\ \A k \in 1..Len(Y) : Y[k] = Young[k]
      <4>1. Len(Y) - Len(Y) = 0 /\ Len(Y) <= Len(Y)
        BY <3>2
      <4>2. Len(<< >>) = 0 /\ \A i \in 1..Len(<< >>) : FALSE
        OBVIOUS
      <4> QED  BY <2>2, <4>1, <4>2 DEF Rest
    <3>6. PICK Q \in Seq(Element) : Q = << >>
      <4>1. << >> \in Seq(Element)
        OBVIOUS
      <4> QED  BY <4>1
    <3>7. queue' = Q /\ Rest(Q, Young, Len(Y)) /\ (closed_ \/ Len(Q) <= Capacity)
      BY <1>8, <3>1, <3>5, <3>6
    <3>8. UNCHANGED <<program, closed_, enqueue_attempts_, answers, entered, status>>
      BY <1>2, <3>1
    <3> QED  BY <1>1, <1>2, <2>5, <2>6, <3>1, <3>2, <3>4, <3>5, <3>7, <3>8, BatchHanded
  <2>8. CASE ~some
    <3>1. queue' = Young /\ result' = result /\ status' = Updated(a.op, "OutOfRange")
      BY <2>1, <2>2, <2>3, <2>4, <2>8
    <3>2. status'[a.op] = "OutOfRange" /\ \A p \in Ops : p # a.op => status'[p] = status[p] /\ result'[p] = result[p]
      BY <1>0, <1>3, <3>1 DEF Updated
    <3>3. Gathered' = << >>
      BY <1>2, <1>3, <2>5, <3>2, DequeueGone
    <3>4. Young' = Young
      BY <1>0, <3>1, <3>3 DEF Young
    <3>5. \A o \in Ops : status[o] = "Cancelled" => status'[o] = "Cancelled"
      BY <1>3, <3>2
    <3>6. InPlace'
      BY <1>2, <3>1, <3>4, <3>5, PlacesKept DEF InPlace
    <3>7. status'[a.op] # "OK" /\ (closed_ \/ Len(queue') <= Capacity)
      BY <1>8, <3>2
    <3> QED  BY <1>1, <1>2, <2>5, <2>6, <3>2, <3>6, <3>7, DequeueAnswered
  <2> QED  BY <2>7, <2>8
<1>9. CASE ~(closed_ /\ Len(queue) < a.left)
  <2>1. PICK k \in Nat : k = (IF q < l THEN q ELSE l)
    OBVIOUS
  <2>2. k <= q /\ k <= l /\ (k # l => k = q /\ ~closed_) /\ (k < l => k = q)
    BY <1>5, <1>9, <2>1
  <2>3. PICK B : B = a.tuple \o SubSeq(queue, 1, k)
    OBVIOUS
  <2>4. PICK Q : Q = SubSeq(queue, k + 1, q)
    OBVIOUS
  <2>5. /\ queue' = Q /\ status' = status
        /\ k = l => /\ Complete(t, a.op) /\ D' = Tail(D) /\ result' = [result EXCEPT ![a.op] = B]
        /\ k # l => /\ PassDone(t, k > 0) /\ result' = result
                    /\ D' = [D EXCEPT ![1].left = @ - k, ![1].tuple = B]
    BY <1>2, <1>5, <1>9, <2>1, <2>3, <2>4 DEF RunDequeueOpen
  <2>6. /\ SubSeq(queue, 1, k) \in Seq(Element) /\ Len(SubSeq(queue, 1, k)) = k
        /\ \A i \in 1..k : SubSeq(queue, 1, k)[i] = queue[i]
    BY <1>0, <1>5, <2>2, SubSeqProperties
  <2>7. /\ B \in Seq(Element) /\ Len(B) = m + k
        /\ \A i \in 1..m : B[i] = a.tuple[i]
        /\ \A i \in 1..k : B[m + i] = queue[i]
    <3>1. PICK S \in Seq(Element) :
            S = SubSeq(queue, 1, k) /\ Len(S) = k /\ \A i \in 1..k : S[i] = queue[i]
      BY <2>6
    <3>2. PICK A \in Seq(Element) : A = a.tuple /\ Len(A) = m
      BY <1>3, <1>5
    <3>3. B = A \o S
      BY <2>3, <3>1, <3>2
    <3>4. /\ B \in Seq(Element) /\ Len(B) = m + k
          /\ \A i \in 1..m : B[i] = A[i]
          /\ \A i \in 1..k : B[m + i] = S[i]
      <4>1. m = Len(A) /\ k = Len(S)
        BY <3>1, <3>2
      <4> QED  BY <3>3, <4>1, ConcatParts
    <3>5. \A i \in 1..m : B[i] = a.tuple[i]
      BY <3>2, <3>4
    <3>6. \A i \in 1..k : B[m + i] = queue[i]
      BY <3>1, <3>4
    <3> QED  BY <3>4, <3>5, <3>6
  <2>8. /\ Q \in Seq(Element) /\ Len(Q) = q - k
        /\ \A i \in 1..(q - k) : Q[i] = queue[k + i]
    BY <1>0, <1>5, <2>2, <2>4, SubSeqProperties, SMTT(30)
  <2>9. closed_ \/ Len(Q) <= Capacity
    <3>1. closed_ \/ q <= Capacity
      BY <1>5 DEF OInv, WithinCapacityWhileOpen
    <3> QED  BY <2>2, <2>8, <3>1, CapacityAssumption
  <2>10. CASE k = l
    <3>1. Len(B) = n /\ Len(B) <= Len(Young)
      BY <1>6, <2>2, <2>7, <2>10
    <3>2. \A i \in 1..Len(B) : B[i] = Young[i]
      <4> SUFFICES ASSUME NEW i \in 1..(m + k) PROVE B[i] = Young[i]
        BY <2>7
      <4>1. CASE i \in 1..m
        BY <1>6, <2>7, <4>1
      <4>2. CASE i \notin 1..m
        <5>1. PICK j \in 1..k : i = m + j
          <6>1. i - m \in 1..k /\ i = m + (i - m)
            BY <4>2
          <6> QED  BY <6>1
        <5>2. j \in 1..q
          BY <2>2
        <5> QED  BY <1>6, <2>7, <5>1, <5>2
      <4> QED  BY <4>1, <4>2
    <3>3. Rest(Q, Young, Len(B))
      <4>1. Len(Q) = Len(Young) - Len(B)
        BY <1>6, <2>2, <2>7, <2>8
      <4>2. ASSUME NEW i \in 1..(q - k) PROVE Q[i] = Young[(m + k) + i]
        <5>1. k + i \in 1..q /\ (m + k) + i = m + (k + i)
          BY <2>2
        <5>2. Young[m + (k + i)] = queue[k + i]
          BY <1>6, <5>1
        <5> QED  BY <2>8, <5>1, <5>2
      <4> QED  BY <2>7, <2>8, <4>1, <4>2 DEF Rest
    <3>4. Complete(t, a.op) /\ D' = Tail(D) /\ result' = [result EXCEPT ![a.op] = B]
      BY <2>5, <2>10
    <3>5. \A o \in Ops : thread'[o].pc = "idle" <=> thread[o].pc = "idle"
      BY <1>7, <3>4
    <3>6. UNCHANGED <<program, closed_, enqueue_attempts_, answers, entered, status>>
      BY <1>2, <2>5
    <3>7. Len(B) = program[a.op].n
      BY <1>5, <3>1
    <3> QED  BY <1>1, <1>2, <2>5, <2>7, <2>8, <2>9, <3>1, <3>2, <3>3, <3>4, <3>5, <3>6, <3>7, BatchHanded
  <2>11. CASE k # l
    <3>1. k = q /\ PassDone(t, k > 0) /\ result' = result /\ ~closed_
      BY <2>2, <2>5, <2>11
    <3>2. B = Young /\ Q = << >>
      <4>1. SubSeq(queue, 1, q) = queue
        BY <1>0, <1>5
      <4>2. Len(Q) = 0
        BY <2>8, <3>1
      <4> QED  BY <1>3, <2>3, <2>8, <3>1, <4>1, <4>2, EmptySeq DEF Young
    <3>3. PICK b : b = [a EXCEPT !.left = @ - k, !.tuple = B]
      OBVIOUS
    <3>4. b.op = a.op /\ b.left = l - k /\ b.tuple = B /\ b.cancelled = a.cancelled
      BY <1>3, <1>5, <3>3 DEF AttemptType
    <3>5. D' = [D EXCEPT ![1] = b]
      BY <1>3, <2>5, <2>11, <3>3
    <3>6. Len(D') = Len(D) /\ D'[1] = b /\ \A i \in 1..Len(D) : i # 1 => D'[i] = D[i]
      <4> HIDE DEF D
      <4> QED  BY <1>0, <1>3, <3>5
    <3>7. Young' = Young
      <4>1. Gathered' = B
        <5>1. D' # << >>
          BY <1>0, <1>3, <3>6
        <5> QED  BY <3>4, <3>6, <5>1 DEF Gathered
      <4>2. Young' = B \o << >>
        BY <2>5, <3>2, <4>1 DEF Young
      <4> QED  BY <2>7, <3>2, <4>2
    <3>8. InPlace'
      BY <1>2, <2>5, <3>1, <3>7, PlacesKept DEF InPlace
    <3>9. Batches'
      <4>1. \A i \in 1..Len(D) : i # 1 =>
              /\ D'[i].tuple = << >> /\ Len(D'[i].tuple) + D'[i].left = program[D'[i].op].n
              /\ result[D'[i].op] = << >>
              /\ status[D'[i].op] = IF D'[i].cancelled THEN "Cancelled" ELSE "OK"
        BY <3>6 DEF OInv, Batches
      <4>2. Len(b.tuple) + b.left = program[b.op].n
        <5>1. (m + k) + (l - k) = m + l
          BY <2>2
        <5> QED  BY <1>5, <1>6, <2>7, <3>4, <5>1
      <4>3. result[b.op] = << >> /\ status[b.op] = IF b.cancelled THEN "Cancelled" ELSE "OK"
        BY <1>2, <1>3, <3>4
      <4> QED  BY <1>2, <2>5, <3>1, <3>6, <4>1, <4>2, <4>3 DEF Batches
    <3>10. \A o \in Ops : thread'[o].pc = "idle" <=> thread[o].pc = "idle"
      <4>1. (k > 0) \in BOOLEAN
        OBVIOUS
      <4> QED  BY <1>7, <3>1, <4>1
    <3>11. Numbered'
      <4>1. EnqueuesKept
        BY <1>2 DEF EnqueuesKept
      <4> QED  BY <1>2, <4>1, NumberedKept
    <3>12. Untouched'
      BY <1>2, <2>5, <3>1, <3>10 DEF OInv, Untouched
    <3>13. Filled'
      <4>1. \A i \in 1..Len(D) : D'[i].op = D[i].op
        BY <1>3, <3>4, <3>6
      <4> QED  BY <1>2, <2>5, <3>1, <3>6, <3>10, <4>1, SameTypes DEF OInv, Filled
    <3>14. WithinCapacityWhileOpen'
      BY <1>2, <2>5, <2>9 DEF WithinCapacityWhileOpen
    <3> QED  BY <3>8, <3>9, <3>11, <3>12, <3>13, <3>14 DEF OInv, InPlace
  <2> QED  BY <2>10, <2>11
<1> QED  BY <1>8, <1>9

LEMMA InitOInv == Init => OInv
<1> SUFFICES ASSUME Init PROVE OInv
  OBVIOUS
<1> USE DEF Init
<1>1. Len(entered) = 0 /\ Len(enqueue_attempts_) = 0 /\ Len(dequeue_attempts_) = 0 /\ Len(queue) = 0
  OBVIOUS
<1>2. \A o \in Ops : thread[o].pc = "idle" /\ result[o] = << >> /\ Len(result[o]) = 0
  BY DEF IdleThread, Threads
<1>3. Numbered /\ Batches
  BY <1>1 DEF Numbered, Distinct, Batches
<1>4. Untouched /\ Filled
  BY <1>1, <1>2 DEF Untouched, Filled
<1>5. WithinCapacityWhileOpen
  BY <1>1, CapacityAssumption DEF WithinCapacityWhileOpen
<1>6. Young = << >> /\ Len(Young) = 0
  BY DEF Young, Gathered
<1>7. PICK T, E : T = Young /\ E = entered /\ Len(T) = 0 /\ Len(E) = 0
  BY <1>1, <1>6
<1>8. Placed(E, T, result) /\ Covered(E, T, result)
  BY <1>2, <1>7 DEF Placed, Covered
<1> QED  BY <1>3, <1>4, <1>5, <1>7, <1>8 DEF OInv

LEMMA StepOInv == IInv /\ OInv /\ [Next]_vars => OInv'
<1> SUFFICES ASSUME IInv, OInv, [Next]_vars PROVE OInv'
  OBVIOUS
<1>1. CASE \E o \in Ops : Call(o)
  BY <1>1, CallOInv
<1>2. ASSUME NEW s \in Steps, StartCancel(s) \/ Cancelling(s) PROVE OInv'
  <2>1. CASE StartCancel(s) \/ EndCancel(s)
    BY <2>1, NothingMoves DEF StartCancel, EndCancel, answerVars
  <2> QED  BY <1>2, <2>1, CancelOInv DEF Cancelling
<1>3. ASSUME NEW t \in Threads, Run(t) PROVE OInv'
  BY <1>3, RunCallbackOInv, BeginFlushOInv, NoAttemptOInv, SkipCancelledEnqueueOInv,
     SkipCancelledDequeueOInv, RunCloseOInv, RunEnqueueOInv, RunDequeueOInv, EndRoundOInv,
     CleanUpOInv, CleanUpDoneOInv
     DEF Run
<1>4. CASE UNCHANGED vars
  BY <1>4, NothingMoves DEF vars, answerVars
<1> QED  BY <1>1, <1>2, <1>3, <1>4 DEF Next

LEMMA OInvInvariant == Spec => []OInv
<1>1. IInv /\ OInv /\ [Next]_vars => OInv'
  BY StepOInv
<1> QED  BY <1>1, InitOInv, IInvInvariant, PTL DEF Spec

\* What comes out of the queue is what went in: a batch that TryDequeueMany (fifo_queue.cc)
\* hands over is full and a run of the order of entering, no element is handed over twice or
\* lost unless its dequeue was cancelled, and the queue keeps to capacity_ while it is open;
\* for any number of ops and any interleaving of enqueues, dequeues, Close and Cancel
\* (queue_base.cc), the restoring of a partial batch when the queue is closed included.
THEOREM ElementsStayInOrder == Spec => []ElementsInOrder
<1>1. IInv /\ OInv => ElementsInOrder
  BY OrderFollows
<1> QED  BY <1>1, IInvInvariant, OInvInvariant, PTL
=============================================================================
