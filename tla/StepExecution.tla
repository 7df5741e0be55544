---------------------------- MODULE StepExecution ----------------------------
(***************************************************************************)
(* One step of a distributed session: the master's RunGraph calls, the     *)
(* executors of the workers, the step's rendezvous on every worker, the    *)
(* RecvTensor calls between them, and how an error or a cancellation       *)
(* spreads until everybody has given up.                                   *)
(*                                                                         *)
(* A call is known to two sides: the client, whose CallOptions may cancel  *)
(* it, and the server, which is told of the cancellation on its own and    *)
(* reacts only while the handler has a cancel callback set.                *)
(*                                                                         *)
(* The graph of a worker has units (devices).  A unit runs one kernel, the *)
(* Recv ops of the keys it is the destination of, and the Send op of a key *)
(* when its kernel and the Recvs that the key needs have succeeded.        *)
(***************************************************************************)
EXTENDS Naturals, Sequences, SequencesExt

CONSTANTS
  Order,     \* partitions_: the workers in the order of their RunGraph calls
  Units,     \* the units of all graphs
  WorkerOf,  \* WorkerOf[u]: the worker of unit u
  Keys,      \* rendezvous keys
  Fetches,   \* the keys whose tensors the master fetches
  Src, Dst,  \* Src[k], Dst[k]: the units of key k (Dst of a fetch is not used)
  Needs,     \* Needs[k]: the keys to be received before k is sent
  Blocking,  \* units whose kernel may wait, like a dequeue, until it is cancelled
  Fed,       \* workers whose RunGraph request carries feeds
  MayMiss    \* workers that may not know the graph handle

Workers == ToSet(Order)
SrcWorker(k) == WorkerOf[Src[k]]
DstWorker(k) == WorkerOf[Dst[k]]
Received == Keys \ Fetches
Remote == {k \in Received : SrcWorker(k) # DstWorker(k)}
Rpcs == Workers \cup Remote

ASSUME GraphAssumption ==
  /\ Order \in Seq(Workers) /\ IsInjective(Order)
  /\ WorkerOf \in [Units -> Workers]
  /\ Fetches \subseteq Keys /\ Src \in [Keys -> Units] /\ Dst \in [Keys -> Units]
  /\ Needs \in [Keys -> SUBSET Received]
  /\ \A k \in Keys : \A n \in Needs[k] : Dst[n] = Src[k]
  /\ Blocking \subseteq Units /\ Fed \subseteq Workers /\ MayMiss \subseteq Workers
  /\ Workers \cap Keys = {}

VARIABLES
  pc,       \* where RunPartitions is: "issue", "wait", "ok" or "error"
  issued,   \* the number of RunGraph calls issued
  status,   \* status_ of RunManyGraphs
  hooked,   \* the session's manager took the callback that cancels the calls
  closed,   \* the session's cancellation manager has been cancelled
  asked,    \* the client has cancelled its RunStep call
  rpc,      \* rpc[r]: a RunGraph call (a worker) or a RecvTensor call (a key)
  rdv,      \* rdv[w]: the step's rendezvous in the table of worker w
  item,     \* item[k]: the item of k in the local rendezvous of its source
  recv,     \* recv[k]: the Recv op of k
  bad,      \* bad[k]: the RpcRecvTensorCall of k has been aborted
  send,     \* send[k]: the Send op of k
  kernel,   \* kernel[u]: the kernel of u
  cm,       \* cm[w]: the cancellation manager of the RunGraph call is cancelled
  delayed,  \* delayed[w]: an AbortStep waits for its second to pass
  outputs,  \* outputs[w]: the fetched tensors in the RunGraph response
  cleanup   \* cleanup[w]: the CleanupGraph request for w

masterVars == <<pc, issued, status, hooked, closed, asked>>
rdvVars == <<rdv, item, recv, bad>>
opVars == <<send, kernel, cm>>
vars == <<masterVars, rpc, rdvVars, opVars, delayed, outputs, cleanup>>

\* client: the caller's side; tried: the caller has called TryCancel; server: the
\* request is under way, its handler is busy, has replied, or it never arrives;
\* told: the server has been notified of the cancellation.
NewRpc == [client |-> "idle", tried |-> FALSE, server |-> "none", told |-> FALSE,
           reply |-> "none"]

Init ==
  /\ pc = "issue" /\ issued = 0 /\ status = "ok"
  /\ hooked = FALSE /\ closed = FALSE /\ asked = FALSE
  /\ rpc = [r \in Rpcs |-> NewRpc]
  /\ rdv = [w \in Workers |-> "none"]
  /\ item = [k \in Keys |-> "none"]
  /\ recv = [k \in Received |-> "ready"]
  /\ bad = [k \in Remote |-> FALSE]
  /\ send = [k \in Keys |-> "ready"]
  /\ kernel = [u \in Units |-> "running"]
  /\ cm = [w \in Workers |-> FALSE]
  /\ delayed = [w \in Workers |-> FALSE]
  /\ outputs = [w \in Workers |-> "none"]
  /\ cleanup = [w \in Workers |-> "none"]

-----------------------------------------------------------------------------
(* Calls, seen from both sides                                             *)

Issued(r) == [NewRpc EXCEPT !.client = "pending", !.server = "sent"]

\* CallOptions::StartCancel: cancel_func_ is there while the call is pending.
StartCancel(c) == IF c.client = "pending" THEN [c EXCEPT !.tried = TRUE] ELSE c

Replied(c, s) == [c EXCEPT !.server = "replied", !.reply = s]

\* What the client of call r may be told: the reply, or that it cancelled the call.
Completion(r) ==
  IF rpc[r].client # "pending" THEN {}
  ELSE (IF rpc[r].server = "replied" THEN {rpc[r].reply} ELSE {})
       \cup (IF rpc[r].tried THEN {"error"} ELSE {})

Completed(r) == [rpc EXCEPT ![r].client = "done"]

\* A request that is cancelled may never reach its handler.
LoseRequest(r) ==
  /\ rpc[r].server = "sent" /\ rpc[r].tried
  /\ rpc' = [rpc EXCEPT ![r].server = "lost"]
  /\ UNCHANGED <<masterVars, rdvVars, opVars, delayed, outputs, cleanup>>

-----------------------------------------------------------------------------
(* The rendezvous of the step                                              *)

FindOrCreate(w) == IF rdv[w] = "none" THEN [rdv EXCEPT ![w] = "live"] ELSE rdv

\* RpcRecvTensorCalls in active_ of the rendezvous of w.
Active(w) == {k \in Remote : /\ DstWorker(k) = w /\ ~bad[k]
                             /\ recv[k] \in {"registered", "called"}}

\* Faulty: the table is not cleared.
AbortItemsKept(w) == item

\* What becomes of the items, of the waiters and of the calls when the rendezvous of w
\* is aborted, given the op results rc and the calls cl.
AbortItems(w) == [k \in Keys |-> IF SrcWorker(k) = w THEN "none" ELSE item[k]]

AbortWaiters(w, rc) ==
  [k \in Received |-> IF rc[k] = "waiting" /\ SrcWorker(k) = w THEN "failed" ELSE rc[k]]

AbortCalls(w, cl) ==
  [r \in Rpcs |->
     IF r \in Workers THEN cl[r]
     ELSE IF SrcWorker(r) = w /\ cl[r].server = "busy" THEN Replied(cl[r], "error")
     ELSE IF r \in Active(w) THEN StartCancel(cl[r]) ELSE cl[r]]

\* BaseRemoteRendezvous::StartAbort.
StartAbort(w, rc, cl) ==
  IF rdv[w] = "aborted"
  THEN recv' = rc /\ rpc' = cl /\ UNCHANGED <<rdv, item, bad>>
  ELSE /\ rdv' = [rdv EXCEPT ![w] = "aborted"]
       /\ item' = AbortItems(w)
       /\ recv' = AbortWaiters(w, rc)
       /\ rpc' = AbortCalls(w, cl)
       /\ bad' = [k \in Remote |-> bad[k] \/ k \in Active(w)]

\* The second of AbortStep is over.
DelayedAbort(w) ==
  /\ delayed[w]
  /\ delayed' = [delayed EXCEPT ![w] = FALSE]
  /\ StartAbort(w, recv, rpc)
  /\ UNCHANGED <<masterVars, opVars, outputs, cleanup>>

\* AbortStep finds or creates the rendezvous now and aborts it later.
AbortStep(w) ==
  /\ rdv' = FindOrCreate(w)
  /\ delayed' = [delayed EXCEPT ![w] = TRUE]

-----------------------------------------------------------------------------
(* The master                                                              *)

\* UpdateStatusLocked, given the calls as they are now: the first error cancels all.
UpdateStatus(s, cl) ==
  IF s = "error" /\ status = "ok"
  THEN /\ status' = "error"
       /\ rpc' = [r \in Rpcs |-> IF r \in Workers THEN StartCancel(cl[r]) ELSE cl[r]]
  ELSE rpc' = cl /\ UNCHANGED status

Issue ==
  /\ pc = "issue" /\ issued < Len(Order)
  /\ issued' = issued + 1
  /\ rpc' = [rpc EXCEPT ![Order[issued + 1]] = Issued(Order[issued + 1])]
  /\ UNCHANGED <<pc, status, hooked, closed, asked, rdvVars, opVars, delayed, outputs, cleanup>>

\* Faulty: the answer of RegisterCallback is read the wrong way round.
HookInverted ==
  /\ pc = "issue" /\ issued = Len(Order)
  /\ pc' = "wait" /\ hooked' = ~closed
  /\ IF ~closed THEN UpdateStatus("error", rpc) ELSE UNCHANGED <<status, rpc>>
  /\ UNCHANGED <<issued, closed, asked, rdvVars, opVars, delayed, outputs, cleanup>>

\* The calls can be cancelled from now on; if the session was closed they are now.
Hook ==
  /\ pc = "issue" /\ issued = Len(Order)
  /\ pc' = "wait" /\ hooked' = ~closed
  /\ IF closed THEN UpdateStatus("error", rpc) ELSE UNCHANGED <<status, rpc>>
  /\ UNCHANGED <<issued, closed, asked, rdvVars, opVars, delayed, outputs, cleanup>>

\* RunManyGraphs::WhenDone of the call to w.
RunGraphDone(w) ==
  /\ \E s \in Completion(w) : UpdateStatus(s, Completed(w))
  /\ UNCHANGED <<pc, issued, hooked, closed, asked, rdvVars, opVars, delayed, outputs, cleanup>>

AllDone == \A w \in Workers : rpc[w].client = "done"

\* Faulty: the status of the calls is not looked at.
StepStatusIgnored == IF hooked THEN "ok" ELSE "error"

StepStatus == IF status = "ok" /\ hooked THEN "ok" ELSE "error"

\* Wait() returns; only a step that succeeded is cleaned up.
StepReturns ==
  /\ pc = "wait" /\ AllDone
  /\ pc' = StepStatus
  /\ cleanup' = IF StepStatus = "ok" THEN [w \in Workers |-> "sent"] ELSE cleanup
  /\ UNCHANGED <<issued, status, hooked, closed, asked, rpc, rdvVars, opVars, delayed, outputs>>

\* Bound: the step is interrupted from outside once.
NotInterrupted == ~closed /\ ~asked

CloseSession ==
  /\ NotInterrupted /\ closed' = TRUE
  /\ IF pc = "wait" /\ hooked THEN UpdateStatus("error", rpc) ELSE UNCHANGED <<status, rpc>>
  /\ UNCHANGED <<pc, issued, hooked, asked, rdvVars, opVars, delayed, outputs, cleanup>>

\* The client cancels RunStep: without effect before SetCancelCallback.
CancelRunStep ==
  /\ NotInterrupted /\ asked' = TRUE
  /\ IF pc = "wait" THEN UpdateStatus("error", rpc) ELSE UNCHANGED <<status, rpc>>
  /\ UNCHANGED <<pc, issued, hooked, closed, rdvVars, opVars, delayed, outputs, cleanup>>

-----------------------------------------------------------------------------
(* The worker service and the graph manager                                *)

RejectGraph(w) == rpc' = [rpc EXCEPT ![w] = Replied(rpc[w], "error")]

\* DoRunGraph up to the executors.  The cancel callback is set first, but the request
\* was received, and perhaps cancelled, before.
RunGraph(w) ==
  /\ rpc[w].server = "sent"
  /\ \/ /\ w \in MayMiss
        /\ RejectGraph(w) /\ UNCHANGED rdv
     \/ /\ rdv' = FindOrCreate(w)
        /\ IF w \in Fed /\ rdv[w] = "aborted" THEN RejectGraph(w)
           ELSE rpc' = [rpc EXCEPT ![w].server = "busy"]
  /\ UNCHANGED <<masterVars, item, recv, bad, opVars, delayed, outputs, cleanup>>

\* Faulty: only the kernels are cancelled.
RunGraphCancelledNoAbort(w) ==
  /\ rpc[w].tried /\ ~rpc[w].told /\ rpc[w].server \in {"sent", "busy"}
  /\ rpc' = [rpc EXCEPT ![w].told = TRUE]
  /\ cm' = [cm EXCEPT ![w] = rpc[w].server = "busy"]
  /\ UNCHANGED <<masterVars, rdvVars, send, kernel, delayed, outputs, cleanup>>

\* The server is told that RunGraph was cancelled.
RunGraphCancelled(w) ==
  /\ rpc[w].tried /\ ~rpc[w].told /\ rpc[w].server \in {"sent", "busy"}
  /\ rpc' = [rpc EXCEPT ![w].told = TRUE]
  /\ IF rpc[w].server = "busy"
     THEN cm' = [cm EXCEPT ![w] = TRUE] /\ AbortStep(w)
     ELSE UNCHANGED <<cm, rdv, delayed>>
  /\ UNCHANGED <<masterVars, item, recv, bad, send, kernel, outputs, cleanup>>

\* The same for RecvTensor, at the worker that holds the tensor.
RecvTensorCancelled(k) ==
  /\ rpc[k].tried /\ ~rpc[k].told /\ rpc[k].server \in {"sent", "busy"}
  /\ rpc' = [rpc EXCEPT ![k].told = TRUE]
  /\ IF rpc[k].server = "busy" THEN AbortStep(SrcWorker(k)) ELSE UNCHANGED <<rdv, delayed>>
  /\ UNCHANGED <<masterVars, item, recv, bad, opVars, outputs, cleanup>>

\* DoRecvTensorRaw: the item, or a waiter for it.
RecvTensor(k) ==
  LET w == SrcWorker(k) IN
  /\ rpc[k].server = "sent"
  /\ rdv' = FindOrCreate(w)
  /\ \/ /\ rdv[w] = "aborted"
        /\ rpc' = [rpc EXCEPT ![k] = Replied(rpc[k], "error")] /\ UNCHANGED item
     \/ /\ rdv[w] # "aborted" /\ item[k] = "value"
        /\ rpc' = [rpc EXCEPT ![k] = Replied(rpc[k], "ok")]
        /\ item' = [item EXCEPT ![k] = "received"]
     \/ /\ rdv[w] # "aborted" /\ item[k] = "none"
        /\ rpc' = [rpc EXCEPT ![k].server = "busy"]
        /\ item' = [item EXCEPT ![k] = "waiter"]
  /\ UNCHANGED <<masterVars, recv, bad, opVars, delayed, outputs, cleanup>>

CleanupGraph(w) ==
  /\ cleanup[w] = "sent" /\ cleanup' = [cleanup EXCEPT ![w] = "done"]
  /\ rdv' = [rdv EXCEPT ![w] = "none"]
  /\ item' = AbortItems(w)
  /\ recv' = AbortWaiters(w, recv)
  /\ rpc' = AbortCalls(w, rpc)
  /\ bad' = [k \in Remote |-> bad[k] \/ k \in Active(w)]
  /\ UNCHANGED <<masterVars, opVars, delayed, outputs>>

-----------------------------------------------------------------------------
(* The executors                                                           *)

Runs(u) == rpc[WorkerOf[u]].server = "busy"

\* A Recv op looks up or asks for its tensor.
RecvAsync(k) ==
  LET w == DstWorker(k) IN
  /\ Runs(Dst[k]) /\ recv[k] = "ready"
  /\ \/ /\ k \in Remote      \* RegisterCall
        /\ recv' = [recv EXCEPT ![k] = "registered"]
        /\ bad' = [bad EXCEPT ![k] = rdv[w] = "aborted"]
        /\ UNCHANGED item
     \/ /\ k \notin Remote /\ rdv[w] = "aborted"
        /\ recv' = [recv EXCEPT ![k] = "failed"] /\ UNCHANGED <<item, bad>>
     \/ /\ k \notin Remote /\ rdv[w] # "aborted" /\ item[k] = "value"
        /\ recv' = [recv EXCEPT ![k] = "ok"]
        /\ item' = [item EXCEPT ![k] = "received"] /\ UNCHANGED bad
     \/ /\ k \notin Remote /\ rdv[w] # "aborted" /\ item[k] = "none"
        /\ recv' = [recv EXCEPT ![k] = "waiting"]
        /\ item' = [item EXCEPT ![k] = "waiter"] /\ UNCHANGED bad
  /\ UNCHANGED <<masterVars, rpc, rdv, opVars, delayed, outputs, cleanup>>

\* StartRTCall: issued whether or not the call was aborted meanwhile.
StartRTCall(k) ==
  /\ recv[k] = "registered"
  /\ recv' = [recv EXCEPT ![k] = "called"]
  /\ rpc' = [rpc EXCEPT ![k] = Issued(k)]
  /\ UNCHANGED <<masterVars, rdv, item, bad, opVars, delayed, outputs, cleanup>>

\* What the op gets: its tensor only if the call succeeded and was not aborted.
RecvResult(k, s) == IF s = "ok" /\ ~bad[k] THEN "ok" ELSE "failed"

\* An op has failed (NodeDone): the rendezvous of its worker is aborted.
RecvTensorDone(k) ==
  /\ recv[k] = "called"
  /\ \E s \in Completion(k) :
       LET r == [recv EXCEPT ![k] = RecvResult(k, s)] IN
       IF r[k] = "failed" THEN StartAbort(DstWorker(k), r, Completed(k))
       ELSE recv' = r /\ rpc' = Completed(k) /\ UNCHANGED <<rdv, item, bad>>
  /\ UNCHANGED <<masterVars, opVars, delayed, outputs, cleanup>>

KernelOk(u) ==
  /\ Runs(u) /\ kernel[u] = "running"
  /\ kernel' = [kernel EXCEPT ![u] = "ok"]
  /\ UNCHANGED <<masterVars, rpc, rdvVars, send, cm, delayed, outputs, cleanup>>

KernelFails(u, why) ==
  /\ Runs(u) /\ kernel[u] = "running"
  /\ kernel' = [kernel EXCEPT ![u] = why]
  /\ StartAbort(WorkerOf[u], recv, rpc)
  /\ UNCHANGED <<masterVars, send, cm, delayed, outputs, cleanup>>

KernelCancelled(u) == u \in Blocking /\ cm[WorkerOf[u]] /\ KernelFails(u, "cancelled")

\* The inputs of the Send op of k are there.
CanSend(k) == kernel[Src[k]] = "ok" /\ \A n \in Needs[k] : recv[n] = "ok"

\* LocalRendezvousImpl::Send hands the tensor to the waiter or leaves it in the table.
Send(k) ==
  LET w == SrcWorker(k) IN
  /\ Runs(Src[k]) /\ send[k] = "ready" /\ CanSend(k)
  /\ \/ /\ rdv[w] = "aborted"
        /\ send' = [send EXCEPT ![k] = "failed"]
        /\ UNCHANGED <<rpc, item, recv>>
     \/ /\ rdv[w] # "aborted"
        /\ send' = [send EXCEPT ![k] = "ok"]
        /\ item' = [item EXCEPT ![k] = IF @ = "waiter" THEN "received" ELSE "value"]
        /\ rpc' = IF item[k] = "waiter" /\ k \in Remote
                  THEN [rpc EXCEPT ![k] = Replied(rpc[k], "ok")] ELSE rpc
        /\ recv' = IF item[k] = "waiter" /\ k \notin Remote
                   THEN [recv EXCEPT ![k] = "ok"] ELSE recv
  /\ UNCHANGED <<masterVars, rdv, bad, kernel, cm, delayed, outputs, cleanup>>

RecvEnded(k) == recv[k] \in {"ok", "failed"}

\* Faulty: ops whose inputs failed are waited for.
UnitDoneAllSends(u) ==
  /\ kernel[u] # "running"
  /\ \A k \in Received : Dst[k] = u => RecvEnded(k)
  /\ \A k \in Keys : Src[k] = u => send[k] # "ready"

\* num_outstanding_ops_ of unit u is zero.
UnitDone(u) ==
  /\ kernel[u] # "running"
  /\ \A k \in Received : Dst[k] = u => RecvEnded(k)
  /\ \A k \in Keys : (Src[k] = u /\ CanSend(k)) => send[k] # "ready"

UnitsOf(w) == {u \in Units : WorkerOf[u] = w}

\* The status the ExecutorBarrier passes on.
BarrierStatus(w) ==
  IF /\ \A u \in UnitsOf(w) : kernel[u] = "ok"
     /\ \A k \in Received : DstWorker(k) = w => recv[k] = "ok"
     /\ \A k \in Keys : SrcWorker(k) = w => send[k] = "ok"
  THEN "ok" ELSE "error"

FetchesOf(w) == {k \in Fetches : SrcWorker(k) = w}

\* The last executor is done: RecvOutputs, whose status is dropped, and the response.
RunGraphReturns(w) ==
  LET s == BarrierStatus(w) IN
  /\ rpc[w].server = "busy"
  /\ \A u \in UnitsOf(w) : UnitDone(u)
  /\ rpc' = [rpc EXCEPT ![w] = Replied(rpc[w], s)]
  /\ IF s = "ok"
     THEN /\ rdv' = FindOrCreate(w)
          /\ outputs' = [outputs EXCEPT ![w] =
                           IF \A k \in FetchesOf(w) : item[k] = "value" THEN "full" ELSE "empty"]
          /\ item' = [k \in Keys |-> IF k \in FetchesOf(w) /\ item[k] = "value"
                                     THEN "received" ELSE item[k]]
     ELSE UNCHANGED <<rdv, outputs, item>>
  /\ UNCHANGED <<masterVars, recv, bad, opVars, delayed, cleanup>>

-----------------------------------------------------------------------------
Master == Issue \/ Hook \/ StepReturns \/ \E w \in Workers : RunGraphDone(w)

Service(w) ==
  RunGraph(w) \/ RunGraphCancelled(w) \/ RunGraphReturns(w) \/ DelayedAbort(w) \/ CleanupGraph(w)

Transfer(k) == RecvTensor(k) \/ RecvTensorCancelled(k) \/ StartRTCall(k) \/ RecvTensorDone(k)

\* A kernel that does not wait for others comes to its end.
Kernel(u) == KernelCancelled(u) \/ (u \notin Blocking /\ (KernelOk(u) \/ KernelFails(u, "failed")))

Work ==
  \/ Master
  \/ \E w \in Workers : Service(w)
  \/ \E k \in Remote : Transfer(k)
  \/ \E k \in Received : RecvAsync(k)
  \/ \E k \in Keys : Send(k)
  \/ \E u \in Units : Kernel(u)

Next ==
  \/ Work
  \/ CloseSession \/ CancelRunStep
  \/ \E r \in Rpcs : LoseRequest(r)
  \/ \E u \in Blocking : KernelOk(u) \/ KernelFails(u, "failed")

\* Every step of Work is taken at most once per call, op or unit, so that something is
\* done as long as something can be done means that each gets its turn.
Spec == Init /\ [][Next]_vars /\ WF_vars(Work)

-----------------------------------------------------------------------------
(* Properties                                                              *)

RpcType ==
  [client : {"idle", "pending", "done"}, tried : BOOLEAN,
   server : {"none", "sent", "lost", "busy", "replied"}, told : BOOLEAN,
   reply : {"none", "ok", "error"}]

TypeOK ==
  /\ pc \in {"issue", "wait", "ok", "error"}
  /\ issued \in 0..Len(Order)
  /\ status \in {"ok", "error"}
  /\ hooked \in BOOLEAN /\ closed \in BOOLEAN /\ asked \in BOOLEAN
  /\ rpc \in [Rpcs -> RpcType]
  /\ rdv \in [Workers -> {"none", "live", "aborted"}]
  /\ item \in [Keys -> {"none", "value", "waiter", "received"}]
  /\ recv \in [Received -> {"ready", "waiting", "registered", "called", "ok", "failed"}]
  /\ bad \in [Remote -> BOOLEAN]
  /\ send \in [Keys -> {"ready", "ok", "failed"}]
  /\ kernel \in [Units -> {"running", "ok", "failed", "cancelled"}]
  /\ cm \in [Workers -> BOOLEAN]
  /\ delayed \in [Workers -> BOOLEAN]
  /\ outputs \in [Workers -> {"none", "full", "empty"}]
  /\ cleanup \in [Workers -> {"none", "sent", "done"}]

\* A step that the master reports as successful has run all of the graph: every op of
\* every worker succeeded and every fetch is in a response, although a worker does not
\* look at the status of RecvOutputs and a delayed abort may come at any time.
OkMeansComplete ==
  pc = "ok" =>
    /\ \A w \in Workers : outputs[w] = "full"
    /\ \A u \in Units : kernel[u] = "ok"
    /\ \A k \in Received : recv[k] = "ok"
    /\ \A k \in Keys : send[k] = "ok"

\* When the CleanupGraph requests go out nothing of the step is under way any more that
\* could find its rendezvous gone, or create it again: no handler, no request, no
\* waiter, no delayed abort.  A successful step leaves no rendezvous behind.
OkLeavesNothing ==
  pc = "ok" =>
    /\ \A r \in Rpcs : rpc[r].client = "done" /\ rpc[r].server = "replied"
    /\ \A w \in Workers : ~delayed[w] /\ (cleanup[w] = "done" => rdv[w] = "none")
    /\ \A k \in Keys : item[k] # "waiter"

\* When RunPartitions returns OK the whole graph has run, and no call, waiter or delayed
\* abort of the step is left that CleanupGraph could meet.
OkMeansOver == OkMeansComplete /\ OkLeavesNothing

\* Something that justifies giving up the step.
RootCause ==
  \/ closed \/ asked
  \/ \E u \in Units : kernel[u] = "failed"
  \/ \E w \in MayMiss : rpc[w].reply = "error" /\ outputs[w] = "none"

\* No rendezvous is aborted, no op fails and no call is cancelled unless a kernel or a
\* worker failed or somebody cancelled the step: the aborts that calls set off in each
\* other always lead back to a cause.
NoSpuriousAbort ==
  \/ RootCause
  \/ /\ status = "ok"
     /\ \A w \in Workers : rdv[w] # "aborted" /\ ~cm[w] /\ ~delayed[w]
     /\ \A k \in Received : recv[k] # "failed"
     /\ \A k \in Keys : send[k] # "failed"
     /\ \A r \in Rpcs : ~rpc[r].tried

\* Who waits in the local rendezvous is known to it: a handler that is busy, or a Recv
\* op that waits, has its waiter in the table, and an aborted rendezvous keeps none.
\* Nobody waits where no Send and no abort will look.
WaitersAreRegistered ==
  /\ \A k \in Remote : (rpc[k].server = "busy") <=> (item[k] = "waiter")
  /\ \A k \in Received \ Remote : (recv[k] = "waiting") <=> (item[k] = "waiter")
  /\ \A k \in Keys : item[k] = "waiter" => rdv[SrcWorker(k)] = "live"

\* The state is well formed, and nobody waits unheard in the rendezvous of a worker,
\* whatever sends, receives, aborts and cleanups have come in which order.
RendezvousConsistent == TypeOK /\ WaitersAreRegistered

Ended == pc \in {"ok", "error"}

\* RunManyGraphs cancels before the call is issued; StartAbort before StartRTCall.
CallCancelLost == \E w \in Workers : status = "error" /\ rpc[w].client = "pending" /\ ~rpc[w].tried
RecvAbortLost == \E k \in Remote : bad[k] /\ rpc[k].client = "pending" /\ ~rpc[k].tried

\* A handler was told of the cancellation before it had set its callback.
NoticeLost == \E r \in Rpcs : rpc[r].told /\ rpc[r].server = "busy" /\
                (IF r \in Workers THEN ~cm[r] ELSE rdv[SrcWorker(r)] = "live")

\* A kernel waits in a worker whose RunGraph call nobody has cancelled.
KernelWaits == \E u \in Blocking : kernel[u] = "running" /\ Runs(u) /\ ~cm[WorkerOf[u]]

\* The step ends for the client, with the result or with an error, unless for good a
\* cancellation is lost because it came before the call it was meant for could take
\* it, or a kernel waits while no error reaches the master.
StepEnds == <>Ended \/ <>[]CallCancelLost \/ <>[]KernelWaits

Quiet == \A r \in Rpcs : rpc[r].server \notin {"sent", "busy"}

\* After a step has ended, the workers come to rest as well: executors finish and
\* every tensor that was asked for is sent or refused, unless an abort came before its
\* RecvTensor call was issued or a notice before its handler had set the callback.
WorkersComeToRest ==
  (Ended ~> Quiet) \/ <>[](RecvAbortLost \/ NoticeLost)
=============================================================================
