------------------------------- MODULE Executor -------------------------------
(***************************************************************************)
(* The executor of a dataflow graph with conditionals and loops: pending   *)
(* and dead counts of nodes, frames and their iterations, and the threads  *)
(* that process ready nodes.                                               *)
(*                                                                         *)
(* A value is either there or dead.  A node that is taken up is carried    *)
(* through PropagateOutputs in one step per section of code under a frame  *)
(* lock; the nodes it makes ready are scheduled with the last of them.     *)
(***************************************************************************)
EXTENDS Integers, Sequences, SequencesExt, FiniteSets, FiniteSetsExt

CONSTANTS
  Nodes,
  Kind,       \* Kind[n]: what sort of op n is
  Edges,      \* [src, slot, dst], slot is Control or an output of src
  Loop,       \* Loop[n]: the frame_name of an Enter node
  Invariant,  \* Enter nodes with is_constant
  Parallel,   \* Parallel[l]: parallel_iterations of loop l
  MaxTrips,   \* bound: how often a loop's condition holds
  MayFail     \* nodes whose kernel may fail

Kinds == {"Op", "Switch", "Merge", "Enter", "Exit", "NextIteration", "ControlTrigger"}
Control == -1

EnterNodes == {n \in Nodes : Kind[n] = "Enter"}
IsControl(e) == e.slot = Control
InEdges == [n \in Nodes |-> {e \in Edges : e.dst = n}]
OutEdges == [n \in Nodes |-> {e \in Edges : e.src = n}]
NumInputs == [n \in Nodes |-> Cardinality({e \in InEdges[n] : ~IsControl(e)})]

ASSUME GraphAssumption ==
  /\ Kind \in [Nodes -> Kinds]
  /\ Edges \subseteq [src : Nodes, slot : {Control, 0, 1}, dst : Nodes]
  /\ \A e, g \in Edges : (e.src = g.src /\ e.dst = g.dst) => e = g
  /\ DOMAIN Loop = EnterNodes /\ Invariant \subseteq EnterNodes
  /\ Parallel \in [{Loop[n] : n \in EnterNodes} -> Nat \ {0}]
  /\ MaxTrips \in Nat /\ MayFail \subseteq Nodes

VARIABLES
  taken,      \* the value of the conditions outside of loops
  trips,      \* the number of times a loop's condition holds
  frames,     \* outstanding_frames_
  ready,      \* tagged nodes that are scheduled
  threads,    \* tagged nodes in PropagateOutputs, with what they have made ready
  num_outstanding_ops_,
  status_,
  finished,   \* how often Finish was called
  live        \* history: how often each node was run with all its inputs

vars == <<taken, trips, frames, ready, threads, num_outstanding_ops_, status_, finished, live>>

-----------------------------------------------------------------------------
(* Frames and iterations                                                   *)

\* The name of a frame: the iterations and loops that lead to it.
Root == << >>
Child(fid, iter, n) == Append(fid, <<iter, Loop[n]>>)
Parent(fid) == Front(fid)
ParentIter(fid) == Last(fid)[1]

Null == [id |-> -1]

InitialPending ==
  [n \in Nodes |->
     IF Kind[n] = "Merge" THEN 1 + 2 * Cardinality({e \in InEdges[n] : IsControl(e)})
     ELSE Cardinality(InEdges[n])]

Zero == [n \in Nodes |-> 0]

\* times counts how often a node was made ready in the iteration.
IterationState(id) ==
  [id |-> id, ops |-> 0, frames |-> 0,
   pending |-> InitialPending, dead |-> Zero, times |-> Zero]

\* A circular buffer of "size" iterations, the first of them live.
FrameState(parallel, size, inputs) ==
  [max |-> parallel, count |-> 0, outstanding |-> 1, inputs |-> inputs,
   iterations |-> [i \in 0..(size - 1) |-> IF i = 0 THEN IterationState(0) ELSE Null],
   nexts |-> << >>, invs |-> << >>, deadExits |-> {}]

RootFrame == FrameState(1, 1, 0)

LoopFrame(l) ==
  FrameState(Parallel[l], Parallel[l] + 1, Cardinality({n \in EnterNodes : Loop[n] = l}))

Slot(f, i) == i % Cardinality(DOMAIN f.iterations)
GetIteration(f, i) == f.iterations[Slot(f, i)]
SetIteration(f, i, s) == [f EXCEPT !.iterations[Slot(f, i)] = s]

Tagged(n, fid, i, dead) == [node |-> n, frame |-> fid, iter |-> i, dead |-> dead]

\* What an edge that carries a value or not does to the counts of its destination:
\* the new counts, whether the destination is ready and whether it is dead.
MergeControl(it, n) ==
  LET p == it.pending[n] - 2
      d == it.dead[n] = NumInputs[n]
  IN [p |-> p, d |-> it.dead[n], ready |-> p = 0 \/ (p = 1 /\ d), dead |-> d]

MergeLive(it, n) ==
  LET p == it.pending[n]
  IN [p |-> p - (p % 2), d |-> it.dead[n], ready |-> p = 1, dead |-> FALSE]

MergeDead(it, n, fromEnter) ==
  LET p == it.pending[n]
      k == IF p > 0 THEN it.dead[n] + 1 ELSE it.dead[n]
      d == k = NumInputs[n] \/ fromEnter
  IN [p |-> p, d |-> k, ready |-> p = 1 /\ d, dead |-> d]

Other(it, n, dead) ==
  LET p == it.pending[n] - 1
      k == IF dead THEN it.dead[n] + 1 ELSE it.dead[n]
  IN [p |-> p, d |-> k, ready |-> p = 0, dead |-> k > 0]

\* Faulty: a Merge waits for all its inputs like any other node.
ArrivedNoMerge(it, e, isDead, value, fromEnter) ==
  Other(it, e.dst, isDead \/ (~IsControl(e) /\ ~value))

Arrived(it, e, isDead, value, fromEnter) ==
  IF Kind[e.dst] # "Merge" THEN Other(it, e.dst, isDead \/ (~IsControl(e) /\ ~value))
  ELSE IF IsControl(e) THEN MergeControl(it, e.dst)
  ELSE IF value THEN MergeLive(it, e.dst)
  ELSE MergeDead(it, e.dst, fromEnter)

\* The iteration it after the edges out of n, which carry the values of its outputs.
Counted(it, n, a(_)) ==
  LET dsts == {e.dst : e \in OutEdges[n]}
      now == [d \in dsts |-> a(CHOOSE e \in OutEdges[n] : e.dst = d)]
      up(d) == d \in dsts /\ now[d].ready
  IN [iteration |-> [it EXCEPT
        !.pending = [d \in Nodes |-> IF d \in dsts THEN now[d].p ELSE @[d]],
        !.dead = [d \in Nodes |-> IF d \in dsts THEN now[d].d ELSE @[d]],
        !.times = [d \in Nodes |-> IF up(d) THEN @[d] + 1 ELSE @[d]],
        !.ops = @ + Cardinality({d \in dsts : up(d)})],
      ready |-> {<<d, now[d].dead>> : d \in {x \in dsts : up(x)}}]

\* s is a frame with the nodes made ready so far; values are the outputs that are there.
ActivateNodes(s, fid, n, isDead, iter, values) ==
  LET it == GetIteration(s.f, iter)
      c == Counted(it, n, LAMBDA e : Arrived(it, e, isDead, e.slot \in values, Kind[n] = "Enter"))
  IN [f |-> SetIteration(s.f, iter, c.iteration),
      ready |-> s.ready \cup
        {Tagged(x[1], fid, iter, x[2] /\ Kind[x[1]] # "ControlTrigger") : x \in c.ready}]

\* F of v, with v evaluated first.
With(v, F(_)) == CHOOSE y \in {F(x) : x \in {v}} : TRUE

\* The values in roots, <<node, value or not>>, go to the successors in iteration iter.
RECURSIVE ActivateAll(_, _, _, _)
ActivateAll(s, fid, roots, iter) ==
  IF roots = << >> THEN s
  ELSE With(ActivateNodes(s, fid, Head(roots)[1], ~Head(roots)[2], iter,
                          IF Head(roots)[2] THEN {0} ELSE {}),
            LAMBDA r : ActivateAll(r, fid, Tail(roots), iter))

\* A loop invariant goes to all iterations up to the current one.
RECURSIVE ActivateInv(_, _, _, _)
ActivateInv(s, fid, root, i) ==
  IF i > s.f.count THEN s
  ELSE With(ActivateAll(s, fid, <<root>>, i), LAMBDA r : ActivateInv(r, fid, root, i + 1))

AddLoopInv(s, fid, n, value) ==
  ActivateInv([s EXCEPT !.f.invs = Append(@, <<n, value>>)], fid, <<n, value>>, 0)

IncrementIteration(s, fid) ==
  LET i == s.f.count + 1
      f == [SetIteration(s.f, i, IterationState(i)) EXCEPT
              !.count = i, !.outstanding = @ + 1, !.deadExits = {}, !.nexts = << >>]
  IN ActivateAll([f |-> f, ready |-> s.ready], fid, s.f.nexts \o s.f.invs, i)

\* Faulty: an iteration does not wait for the loops started in it.
IsIterationDoneOps(f, i) ==
  /\ GetIteration(f, i).ops = 0
  /\ IF i = 0 THEN f.inputs = 0 ELSE GetIteration(f, i - 1) = Null

IsIterationDone(f, i) ==
  LET it == GetIteration(f, i)
  IN it.ops = 0 /\ it.frames = 0
       /\ IF i = 0 THEN f.inputs = 0 ELSE GetIteration(f, i - 1) = Null

\* Iterations from i on that are done are deleted; one that was put off may start.
RECURSIVE CleanupIterations(_, _, _)
CleanupIterations(s, fid, i) ==
  IF i > s.f.count \/ ~IsIterationDone(s.f, i) THEN s
  ELSE LET f == [SetIteration(s.f, i, Null) EXCEPT !.outstanding = @ - 1]
           t == [f |-> f, ready |-> s.ready]
       IN With(IF f.nexts # << >> THEN IncrementIteration(t, fid) ELSE t,
               LAMBDA r : CleanupIterations(r, fid, i + 1))

IsFrameDone(f) == f.inputs = 0 /\ f.outstanding = 0

DecrementOps(s, fid, i) ==
  With(s, LAMBDA r :
    CleanupIterations([r EXCEPT !.f.iterations[Slot(r.f, i)].ops = @ - 1], fid, i))

-----------------------------------------------------------------------------
(* Threads                                                                 *)

\* A thread: its tagged node, what is next for it, the frame and iteration that is
\* about, and the nodes made ready so far.
Thread(t, at, fid, iter, made) ==
  [tag |-> t, at |-> at, frame |-> fid, iter |-> iter, made |-> made]

Sources == {n \in Nodes : InEdges[n] = {}}

Init ==
  /\ taken \in BOOLEAN /\ trips \in 0..MaxTrips
  /\ frames = [x \in {Root} |->
                [RootFrame EXCEPT !.iterations[0].ops = Cardinality(Sources)]]
  /\ ready = {Tagged(n, Root, 0, FALSE) : n \in Sources}
  /\ threads = {}
  /\ num_outstanding_ops_ = Cardinality(Sources)
  /\ status_ = "OK" /\ finished = 0
  /\ live = [n \in Nodes |-> 0]

\* Faulty: a node that fails is not counted down.
NodeDoneIfOk(made, ok) ==
  /\ num_outstanding_ops_' =
       IF ok THEN num_outstanding_ops_ + Cardinality(made) - 1 ELSE num_outstanding_ops_
  /\ finished' = IF num_outstanding_ops_' = 0 THEN finished + 1 ELSE finished
  /\ status_' = IF ok THEN status_ ELSE "Error"

\* NodeDone: the count of outstanding ops, and Finish when it is zero.
NodeDone(made, ok) ==
  /\ num_outstanding_ops_' =
       IF ok THEN num_outstanding_ops_ + Cardinality(made) - 1 ELSE num_outstanding_ops_ - 1
  /\ finished' = IF num_outstanding_ops_' = 0 THEN finished + 1 ELSE finished
  /\ status_' = IF ok THEN status_ ELSE "Error"

\* The rest of PropagateOutputs for thread th, after a section that left its frame fid
\* as f: the frame is deleted if it is done, otherwise the node is done.
After(th, fid, f, made) ==
  IF IsFrameDone(f)
  THEN /\ threads' = (threads \ {th}) \cup {Thread(th.tag, "delete", fid, 0, made)}
       /\ UNCHANGED <<ready, num_outstanding_ops_, status_, finished>>
  ELSE /\ threads' = threads \ {th}
       /\ ready' = ready \cup made
       /\ NodeDone(made, TRUE)

\* The outputs of a node that is run: a Switch has one of two.
Condition(t) == IF t.frame = Root THEN taken ELSE t.iter < trips

Outputs(t) ==
  IF t.dead THEN {}
  ELSE IF Kind[t.node] = "Switch" THEN {IF Condition(t) THEN 1 ELSE 0}
  ELSE {0}

Ran(t) == live' = IF t.dead THEN live ELSE [live EXCEPT ![t.node] = @ + 1]

\* The node is taken up by a thread and its kernel fails.
KernelFails(t) ==
  /\ t.node \in MayFail /\ ~t.dead
  /\ ready' = ready \ {t}
  /\ NodeDone({}, FALSE)
  /\ UNCHANGED <<taken, trips, frames, threads, live>>

InputArrived(f, t) == [f EXCEPT !.inputs = @ - 1]

\* Enter: the value goes to iteration 0 of the child frame, which is made if need be.
ProcessEnter(t) ==
  LET n == t.node
      c == Child(t.frame, t.iter, n)
      isNew == c \notin DOMAIN frames
      child == [f |-> IF isNew THEN LoopFrame(Loop[n]) ELSE frames[c], ready |-> {}]
      at == Slot(frames[t.frame], t.iter)
      parent == [frames[t.frame] EXCEPT !.iterations[at].frames = IF isNew THEN @ + 1 ELSE @]
  IN /\ Kind[n] = "Enter"
     /\ \E r \in {IF n \in Invariant THEN AddLoopInv(child, c, n, ~t.dead)
                  ELSE ActivateNodes(child, c, n, t.dead, 0, Outputs(t))} :
          /\ frames' = [x \in DOMAIN frames \cup {c} |->
                          IF x = c THEN InputArrived(r.f, t)
                          ELSE IF x = t.frame THEN parent ELSE frames[x]]
          /\ threads' = threads \cup {Thread(t, "decrement", t.frame, t.iter, r.ready)}
     /\ ready' = ready \ {t}
     /\ Ran(t)
     /\ UNCHANGED <<taken, trips, num_outstanding_ops_, status_, finished>>

LiveExit(t) == Kind[t.node] = "Exit" /\ ~t.dead

\* A live Exit: the value goes to the iteration of the parent frame.
ProcessExit(t) ==
  LET p == Parent(t.frame)
      s == [f |-> frames[p], ready |-> {}]
  IN /\ LiveExit(t)
     /\ \E r \in {ActivateNodes(s, p, t.node, FALSE, ParentIter(t.frame), Outputs(t))} :
          /\ frames' = [frames EXCEPT ![p] = r.f]
          /\ threads' = threads \cup {Thread(t, "decrement", t.frame, t.iter, r.ready)}
     /\ ready' = ready \ {t}
     /\ Ran(t)
     /\ UNCHANGED <<taken, trips, num_outstanding_ops_, status_, finished>>

\* A dead Exit is remembered only in the last iteration there is.
Remembered(f, t) ==
  IF t.iter = f.count THEN [f EXCEPT !.deadExits = @ \cup {t.node}] ELSE f

\* A NextIteration that would start one iteration too many is put off.
PutOff(f, t) == t.iter = f.count /\ f.outstanding = f.max

Next_(s, t) ==
  IF t.dead THEN s
  ELSE IF PutOff(s.f, t) THEN [s EXCEPT !.f.nexts = Append(@, <<t.node, TRUE>>)]
  ELSE ActivateNodes(IF t.iter = s.f.count THEN IncrementIteration(s, t.frame) ELSE s,
                     t.frame, t.node, FALSE, t.iter + 1, Outputs(t))

\* The section of all other nodes: within one frame, under its lock.
Propagated(t) ==
  LET s == [f |-> frames[t.frame], ready |-> {}]
  IN CASE Kind[t.node] = "Exit" -> [s EXCEPT !.f = Remembered(@, t)]
       [] Kind[t.node] = "NextIteration" -> Next_(s, t)
       [] OTHER -> ActivateNodes(s, t.frame, t.node, t.dead, t.iter, Outputs(t))

ProcessOther(t) ==
  /\ Kind[t.node] # "Enter" /\ ~LiveExit(t)
  /\ \E r \in {DecrementOps(Propagated(t), t.frame, t.iter)} :
       /\ frames' = [frames EXCEPT ![t.frame] = r.f]
       /\ IF IsFrameDone(r.f)
          THEN /\ ready' = ready \ {t}
               /\ threads' = threads \cup {Thread(t, "delete", t.frame, 0, r.ready)}
               /\ UNCHANGED <<num_outstanding_ops_, status_, finished>>
          ELSE /\ ready' = (ready \ {t}) \cup r.ready
               /\ NodeDone(r.ready, TRUE)
               /\ UNCHANGED threads
  /\ Ran(t)
  /\ UNCHANGED <<taken, trips>>

\* DecrementOutstandingOps of an Enter or a live Exit.
Decrement(th) ==
  /\ th.at = "decrement"
  /\ \E r \in {DecrementOps([f |-> frames[th.frame], ready |-> th.made], th.frame, th.iter)} :
       /\ frames' = [frames EXCEPT ![th.frame] = r.f]
       /\ After(th, th.frame, r.f, r.ready)
  /\ UNCHANGED <<taken, trips, live>>

\* The dead exits go to iteration iter of the parent p.
RECURSIVE PropagateDead(_, _, _, _)
PropagateDead(s, p, exits, iter) ==
  IF exits = << >> THEN s
  ELSE LET it == GetIteration(s.f, iter)
           c == Counted(it, Head(exits), LAMBDA e : Arrived(it, e, TRUE, FALSE, FALSE))
       IN With([f |-> SetIteration(s.f, iter, c.iteration),
                ready |-> s.ready \cup {Tagged(x[1], p, iter, x[2]) : x \in c.ready}],
               LAMBDA r : PropagateDead(r, p, Tail(exits), iter))

DeadExits(f) == SetToSeq(f.deadExits)

\* DeleteFrame; then the parent is looked at.
DeleteFrame(th) ==
  LET fid == th.frame
      p == Parent(fid)
  IN /\ th.at = "delete"
     /\ IF fid = Root
        THEN /\ frames' = [x \in DOMAIN frames \ {Root} |-> frames[x]]
             /\ threads' = threads \ {th}
             /\ ready' = ready \cup th.made
             /\ NodeDone(th.made, TRUE)
        ELSE \E r \in {PropagateDead([f |-> frames[p], ready |-> th.made], p,
                                     DeadExits(frames[fid]), ParentIter(fid))} :
             /\ frames' = [x \in DOMAIN frames \ {fid} |-> IF x = p THEN r.f ELSE frames[x]]
             /\ threads' = (threads \ {th})
                  \cup {Thread(th.tag, "parent", p, ParentIter(fid), r.ready)}
             /\ UNCHANGED <<ready, num_outstanding_ops_, status_, finished>>
     /\ UNCHANGED <<taken, trips, live>>

\* CleanupFramesIterations of the parent.
CleanupParent(th) ==
  LET f == [frames[th.frame] EXCEPT !.iterations[Slot(frames[th.frame], th.iter)].frames = @ - 1]
  IN /\ th.at = "parent"
     /\ \E r \in {CleanupIterations([f |-> f, ready |-> th.made], th.frame, th.iter)} :
          /\ frames' = [frames EXCEPT ![th.frame] = r.f]
          /\ After(th, th.frame, r.f, r.ready)
     /\ UNCHANGED <<taken, trips, live>>

Next ==
  \/ \E t \in ready : KernelFails(t) \/ ProcessEnter(t) \/ ProcessExit(t) \/ ProcessOther(t)
  \/ \E th \in threads : Decrement(th) \/ DeleteFrame(th) \/ CleanupParent(th)

\* The thread pool runs what is scheduled.
Spec == Init /\ [][Next]_vars /\ WF_vars(Next)

-----------------------------------------------------------------------------
(* Properties                                                              *)

FrameIds == DOMAIN frames
Tags == ready \cup UNION {th.made : th \in threads}
LiveIterations(f) == {i \in DOMAIN f.iterations : f.iterations[i] # Null}
IterationIds(f) == {f.iterations[i].id : i \in LiveIterations(f)}

TaggedType == [node : Nodes, frame : Seq(Nat \X {Loop[n] : n \in EnterNodes}), iter : Nat,
               dead : BOOLEAN]

TypeOK ==
  /\ taken \in BOOLEAN /\ trips \in 0..MaxTrips
  /\ ready \subseteq TaggedType
  /\ \A th \in threads : /\ th.tag \in TaggedType /\ th.made \subseteq TaggedType
                         /\ th.at \in {"decrement", "delete", "parent"}
  /\ \A x \in FrameIds : LET f == frames[x] IN
       /\ f.inputs \in Nat /\ f.outstanding \in Nat /\ f.count \in Nat
       /\ \A i \in LiveIterations(f) : LET it == f.iterations[i] IN
            /\ it.ops \in Nat /\ it.frames \in Nat
            /\ it.pending \in [Nodes -> Nat] /\ it.dead \in [Nodes -> Nat]
  /\ num_outstanding_ops_ \in Nat /\ finished \in Nat
  /\ status_ \in {"OK", "Error"}
  /\ live \in [Nodes -> Nat]

\* The circular buffer of a frame holds the iterations that are not done, without gaps,
\* each in its own place, and never more than max_parallel_iterations of them.
IterationsInOrder ==
  \A x \in FrameIds : LET f == frames[x] IN
    /\ f.outstanding <= f.max
    /\ IterationIds(f) = (f.count - f.outstanding + 1)..f.count
    /\ \A i \in LiveIterations(f) : Slot(f, f.iterations[i].id) = i

\* A node that is ready or being processed has its frame and its iteration: neither is
\* deleted under it, and its place has not been taken by a later one.
TagsAreAlive ==
  /\ \A t \in Tags : t.frame \in FrameIds /\ t.iter \in IterationIds(frames[t.frame])
  /\ \A th \in threads : th.at # "delete" =>
       th.frame \in FrameIds /\ th.iter \in IterationIds(frames[th.frame])
  /\ \A x \in FrameIds : x # Root =>
       Parent(x) \in FrameIds /\ ParentIter(x) \in IterationIds(frames[Parent(x)])

\* outstanding_ops and outstanding_frame_count of every iteration, and the count of the
\* whole step, agree with what is going on.
CountsExact ==
  status_ = "OK" =>
  /\ num_outstanding_ops_ = Cardinality(ready) + Cardinality(threads)
  /\ \A x \in FrameIds : \A i \in IterationIds(frames[x]) :
       LET it == GetIteration(frames[x], i) IN
       /\ it.ops = Cardinality({t \in Tags : t.frame = x /\ t.iter = i})
                   + Cardinality({th \in threads : th.at = "decrement" /\ th.frame = x /\ th.iter = i})
       /\ it.frames = Cardinality({y \in FrameIds : y # Root /\ Parent(y) = x /\ ParentIter(y) = i})
                      + Cardinality({th \in threads : th.at = "parent" /\ th.frame = x /\ th.iter = i})

\* Between the lock sections of PropagateOutputs frames, iterations and counts fit what
\* is going on: CleanupIterations and DeleteFrame delete nothing under a node that uses
\* it, and nothing is counted that is not there.
FramesConsistent ==
  TypeOK /\ IterationsInOrder /\ TagsAreAlive /\ CountsExact

\* No node is run twice in an iteration: not by a second live input of a Merge, nor by
\* a dead exit that arrives after a live one.
RunsOnce ==
  \A x \in FrameIds : \A i \in LiveIterations(frames[x]) :
    \A n \in Nodes : frames[x].iterations[i].times[n] <= 1

\* Finish is called once, when nothing is scheduled or running any more; if no kernel
\* failed, all frames were deleted by then: none is left waiting for an input, an
\* iteration or an exit that does not come.
FinishedClean ==
  /\ finished <= 1
  /\ finished = 1 => ready = {} /\ threads = {} /\ (status_ = "OK" => FrameIds = {})

\* The step always ends, also after a kernel has failed and with loops that are not
\* entered at all.
Finishes == <>(finished = 1)
=============================================================================
