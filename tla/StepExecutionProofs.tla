------------------------ MODULE StepExecutionProofs ------------------------
(***************************************************************************)
(* Proofs about one step of a distributed session, for any graph: any      *)
(* workers, units, keys and fetches, kernels that fail or block, feeds and *)
(* workers that do not know their graph.                                   *)
(*                                                                         *)
(* Three facts carry the proofs.  The two sides of a call never disagree   *)
(* about how far it is (CallsMatch).  Whatever disturbs the step leaves a  *)
(* failed op or an error in status_ behind that stays (FailureLeavesTrace), *)
(* so a master that sees neither knows that no rendezvous was aborted.     *)
(* And an abort that spreads can be traced back to what started it         *)
(* (TracedBack).                                                           *)
(***************************************************************************)
EXTENDS StepExecution, TLAPS

\* A call that is not issued has no handler, and a handler replies once.
CallOK(c) ==
  /\ c.client = "idle" <=> c.server = "none"
  /\ c.reply = "none" <=> c.server # "replied"
  /\ c.tried => c.client # "idle"

\* Both sides of every call, and the op that waits for it, know how far it is.
CallsMatch ==
  /\ \A r \in Rpcs : CallOK(rpc[r])
  /\ \A k \in Remote :
       /\ rpc[k].client = "idle" <=> recv[k] \in {"ready", "registered"}
       /\ recv[k] # "waiting"
       /\ recv[k] = "ok" => rpc[k].client = "done" /\ rpc[k].server = "replied"
  /\ \A i \in 1..Len(Order) : i > issued => rpc[Order[i]].client = "idle"

\* The rendezvous of a worker is there as long as its executors run; they alone send
\* and fill the response; fetches have no waiter; only a successful step is cleaned up.
RendezvousHeld ==
  /\ \A w \in Workers : rpc[w].server = "busy" => rdv[w] # "none"
  /\ \A k \in Keys : send[k] # "ready" => rpc[SrcWorker(k)].server \in {"busy", "replied"}
  /\ \A w \in Workers : outputs[w] # "none" => rpc[w].server = "replied"
  /\ \A k \in Fetches : item[k] # "waiter"
  /\ \A w \in Workers : cleanup[w] # "none" => pc = "ok"

Failure ==
  \/ status = "error"
  \/ \E u \in Units : kernel[u] \in {"failed", "cancelled"}
  \/ \E k \in Received : recv[k] = "failed"
  \/ \E k \in Keys : send[k] = "failed"

Undisturbed ==
  /\ \A w \in Workers : rdv[w] # "aborted" /\ ~cm[w] /\ ~delayed[w]
  /\ \A r \in Rpcs : ~rpc[r].tried
  /\ \A k \in Remote : ~bad[k]

\* What disturbs a step leaves a failed op or an error in status_ behind.
FailureLeavesTrace == Failure \/ Undisturbed

\* A worker that has answered OK has run its part of the graph, and its fetches are
\* in the answer unless something failed elsewhere.
OkReplies ==
  /\ \A w \in Workers : rpc[w].reply = "ok" =>
       /\ \A u \in Units : WorkerOf[u] = w => kernel[u] = "ok"
       /\ \A k \in Received : DstWorker(k) = w => recv[k] = "ok"
       /\ \A k \in Keys : SrcWorker(k) = w => send[k] = "ok"
       /\ Failure \/ outputs[w] = "full"
  /\ status = "ok" =>
       \A w \in Workers : rpc[w].client = "done" => rpc[w].reply = "ok"
  /\ Failure \/ \A k \in Fetches :
       send[k] = "ok" /\ rpc[SrcWorker(k)].server = "busy" => item[k] = "value"

\* The master returns OK only when all calls have returned OK.
OkReturns ==
  pc = "ok" =>
    /\ status = "ok" /\ AllDone
    /\ \A w \in Workers : cleanup[w] = "done" => rdv[w] = "none"

Clean ==
  /\ status = "ok"
  /\ \A w \in Workers : rdv[w] # "aborted" /\ ~cm[w] /\ ~delayed[w]
  /\ \A k \in Received : recv[k] # "failed"
  /\ \A k \in Keys : send[k] # "failed"
  /\ \A u \in Units : kernel[u] # "cancelled"
  /\ \A r \in Rpcs : ~rpc[r].tried /\ rpc[r].reply # "error"
  /\ \A k \in Remote : ~bad[k]

\* Every abort, failure and cancellation has a cause.
TracedBack == RootCause \/ Clean

\* The inductive invariant.
IInv ==
  /\ TypeOK /\ CallsMatch /\ WaitersAreRegistered /\ RendezvousHeld
  /\ FailureLeavesTrace /\ OkReplies /\ OkReturns /\ TracedBack

-----------------------------------------------------------------------------
(* The graph and the operations on calls.                                  *)

LEMMA GraphFacts ==
  /\ Remote \subseteq Received /\ Received \subseteq Keys /\ Fetches \subseteq Keys
  /\ Workers \subseteq Rpcs /\ Remote \subseteq Rpcs /\ Rpcs = Workers \cup Remote
  /\ \A k \in Keys : k \notin Workers
  /\ \A k \in Keys : SrcWorker(k) \in Workers /\ DstWorker(k) \in Workers
  /\ \A u \in Units : WorkerOf[u] \in Workers
  /\ \A k \in Keys : Src[k] \in Units /\ Dst[k] \in Units
  /\ \A k \in Remote : SrcWorker(k) # DstWorker(k)
  /\ \A k \in Received \ Remote : SrcWorker(k) = DstWorker(k)
  /\ Len(Order) \in Nat
  /\ \A i \in 1..Len(Order) : Order[i] \in Workers
  /\ \A i, j \in 1..Len(Order) : Order[i] = Order[j] => i = j
  /\ \A w \in Workers : \E i \in 1..Len(Order) : w = Order[i]
<1> USE GraphAssumption
<1>1. /\ Remote \subseteq Received /\ Received \subseteq Keys /\ Fetches \subseteq Keys
      /\ Workers \subseteq Rpcs /\ Remote \subseteq Rpcs /\ Rpcs = Workers \cup Remote
      /\ \A k \in Keys : k \notin Workers
      /\ \A k \in Remote : SrcWorker(k) # DstWorker(k)
      /\ \A k \in Received \ Remote : SrcWorker(k) = DstWorker(k)
  BY DEF Remote, Received, Rpcs
<1>2. /\ \A u \in Units : WorkerOf[u] \in Workers
      /\ \A k \in Keys : Src[k] \in Units /\ Dst[k] \in Units
  BY DEF SrcWorker
<1>3. \A k \in Keys : SrcWorker(k) \in Workers /\ DstWorker(k) \in Workers
  BY <1>2 DEF SrcWorker, DstWorker
<1>4. /\ Len(Order) \in Nat
      /\ DOMAIN Order = 1..Len(Order)
      /\ \A i \in 1..Len(Order) : Order[i] \in Workers
  OBVIOUS
<1>5. \A i, j \in 1..Len(Order) : Order[i] = Order[j] => i = j
  BY <1>4 DEF IsInjective
<1>6. \A w \in Workers : \E i \in 1..Len(Order) : w = Order[i]
  BY <1>4 DEF Workers, ToSet
<1> QED BY <1>1, <1>2, <1>3, <1>4, <1>5, <1>6

LEMMA TypeInit == Init => TypeOK
<1> SUFFICES ASSUME Init PROVE TypeOK
  OBVIOUS
<1>1. NewRpc \in RpcType
  BY DEF NewRpc, RpcType
<1>2. rpc \in [Rpcs -> RpcType]
  BY <1>1 DEF Init
<1>3. /\ hooked \in BOOLEAN /\ closed \in BOOLEAN /\ asked \in BOOLEAN
      /\ bad \in [Remote -> BOOLEAN]
      /\ cm \in [Workers -> BOOLEAN] /\ delayed \in [Workers -> BOOLEAN]
  BY Zenon DEF Init
<1>4. issued \in 0..Len(Order)
  BY GraphFacts DEF Init
<1> QED BY <1>2, <1>3, <1>4, Zenon DEF Init, TypeOK


\* The operations on a call, field by field.
LEMMA CallFields ==
  ASSUME NEW c \in RpcType
  PROVE  /\ c.client \in {"idle", "pending", "done"} /\ c.tried \in BOOLEAN
         /\ c.server \in {"none", "sent", "lost", "busy", "replied"} /\ c.told \in BOOLEAN
         /\ c.reply \in {"none", "ok", "error"}
BY DEF RpcType

LEMMA IssuedFields ==
  ASSUME NEW r
  PROVE  /\ Issued(r) \in RpcType
         /\ Issued(r).client = "pending" /\ Issued(r).server = "sent"
         /\ ~Issued(r).tried /\ Issued(r).reply = "none"
BY DEF Issued, NewRpc, RpcType

LEMMA StartCancelFields ==
  ASSUME NEW c \in RpcType
  PROVE  /\ StartCancel(c) \in RpcType
         /\ StartCancel(c).client = c.client /\ StartCancel(c).server = c.server
         /\ StartCancel(c).reply = c.reply
         /\ StartCancel(c).tried <=> (c.tried \/ c.client = "pending")
BY DEF RpcType, StartCancel

LEMMA RepliedFields ==
  ASSUME NEW c \in RpcType, NEW s \in {"ok", "error"}
  PROVE  /\ Replied(c, s) \in RpcType
         /\ Replied(c, s).client = c.client /\ Replied(c, s).server = "replied"
         /\ Replied(c, s).reply = s
         /\ Replied(c, s).tried = c.tried
BY DEF RpcType, Replied

LEMMA ServerFields ==
  ASSUME NEW c \in RpcType, NEW s \in {"lost", "busy"}
  PROVE  /\ [c EXCEPT !.server = s] \in RpcType
         /\ [c EXCEPT !.server = s].client = c.client /\ [c EXCEPT !.server = s].server = s
         /\ [c EXCEPT !.server = s].reply = c.reply
         /\ [c EXCEPT !.server = s].tried = c.tried
BY DEF RpcType

LEMMA ToldFields ==
  ASSUME NEW c \in RpcType
  PROVE  /\ [c EXCEPT !.told = TRUE] \in RpcType
         /\ [c EXCEPT !.told = TRUE].client = c.client
         /\ [c EXCEPT !.told = TRUE].server = c.server
         /\ [c EXCEPT !.told = TRUE].reply = c.reply
         /\ [c EXCEPT !.told = TRUE].tried = c.tried
BY DEF RpcType

LEMMA DoneFields ==
  ASSUME NEW c \in RpcType
  PROVE  /\ [c EXCEPT !.client = "done"] \in RpcType
         /\ [c EXCEPT !.client = "done"].client = "done"
         /\ [c EXCEPT !.client = "done"].server = c.server
         /\ [c EXCEPT !.client = "done"].reply = c.reply
         /\ [c EXCEPT !.client = "done"].tried = c.tried
BY DEF RpcType

\* One call changes.
LEMMA OneCall ==
  ASSUME rpc \in [Rpcs -> RpcType], NEW r \in Rpcs, NEW c \in RpcType,
         rpc' = [rpc EXCEPT ![r] = c]
  PROVE  /\ rpc' \in [Rpcs -> RpcType] /\ rpc'[r] = c
         /\ \A q \in Rpcs : q # r => rpc'[q] = rpc[q]
OBVIOUS

-----------------------------------------------------------------------------
(* The initial states.                                                     *)

LEMMA InitIInv == Init => IInv
<1> SUFFICES ASSUME Init PROVE IInv
  OBVIOUS
<1>1. \A r \in Rpcs : /\ rpc[r].client = "idle" /\ rpc[r].server = "none"
                      /\ ~rpc[r].tried /\ rpc[r].reply = "none"
  BY DEF Init, NewRpc
<1>2. CallsMatch
  BY <1>1, GraphFacts DEF Init, CallsMatch, CallOK
<1>3. WaitersAreRegistered
  BY <1>1, GraphFacts DEF Init, WaitersAreRegistered
<1>4. RendezvousHeld
  BY <1>1, GraphFacts DEF Init, RendezvousHeld
<1>5. FailureLeavesTrace
  BY <1>1 DEF Init, FailureLeavesTrace, Undisturbed
<1>6. OkReplies
  BY <1>1, GraphFacts DEF Init, OkReplies
<1>7. OkReturns
  BY DEF Init, OkReturns
<1>8. TracedBack
  BY <1>1 DEF Init, TracedBack, Clean
<1> QED  BY TypeInit, <1>2, <1>3, <1>4, <1>5, <1>6, <1>7, <1>8 DEF IInv

-----------------------------------------------------------------------------
(* The master.                                                             *)

LEMMA IssueKeeps == ASSUME IInv, Issue PROVE IInv'
<1> USE DEF masterVars, rdvVars, opVars
<1> DEFINE w == Order[issued + 1]
<1>0. /\ rpc \in [Rpcs -> RpcType] /\ issued \in 0..Len(Order) /\ issued + 1 \in 1..Len(Order)
      /\ w \in Workers /\ w \in Rpcs
  BY GraphFacts DEF IInv, TypeOK, Issue
<1>1. /\ rpc' \in [Rpcs -> RpcType]
      /\ rpc'[w].client = "pending" /\ rpc'[w].server = "sent" /\ ~rpc'[w].tried
      /\ rpc'[w].reply = "none"
      /\ \A q \in Rpcs : q # w => rpc'[q] = rpc[q]
  BY <1>0, OneCall, IssuedFields DEF Issue
<1>2. rpc[w].client = "idle" /\ rpc[w].server = "none" /\ rpc[w].reply = "none"
  BY <1>0 DEF IInv, CallsMatch, CallOK
<1>3. TypeOK'
  BY <1>0, <1>1 DEF Issue, IInv, TypeOK
<1>4. CallsMatch'
  BY <1>0, <1>1, GraphFacts DEF Issue, IInv, CallsMatch, CallOK
<1>5. WaitersAreRegistered'
  BY <1>0, <1>1, GraphFacts DEF Issue, IInv, WaitersAreRegistered
<1>6. RendezvousHeld'
  BY <1>0, <1>1, <1>2, GraphFacts DEF Issue, IInv, RendezvousHeld
<1>7. FailureLeavesTrace'
  BY <1>0, <1>1 DEF Issue, IInv, FailureLeavesTrace, Failure, Undisturbed
<1>8. OkReplies'
  BY <1>0, <1>1, <1>2, GraphFacts DEF Issue, IInv, OkReplies, Failure
<1>9. OkReturns'
  BY DEF Issue, IInv, OkReturns
<1>10. TracedBack'
  BY <1>0, <1>1, <1>2 DEF Issue, IInv, TracedBack, Clean, RootCause
<1> QED  BY <1>3, <1>4, <1>5, <1>6, <1>7, <1>8, <1>9, <1>10 DEF IInv

\* The effect of UpdateStatusLocked: cancelled calls are those of workers, and only
\* with an error in status_.
LEMMA UpdateStatusEffect ==
  ASSUME TypeOK, NEW cl \in [Rpcs -> RpcType], NEW s, UpdateStatus(s, cl)
  PROVE  /\ rpc' \in [Rpcs -> RpcType] /\ status' \in {"ok", "error"}
         /\ status = "error" \/ s = "error" <=> status' = "error"
         /\ \A r \in Rpcs :
              /\ rpc'[r].client = cl[r].client /\ rpc'[r].server = cl[r].server
              /\ rpc'[r].reply = cl[r].reply
              /\ rpc'[r].tried => cl[r].tried \/ (status' = "error" /\ cl[r].client # "idle")
<1>1. CASE s = "error" /\ status = "ok"
  BY <1>1, StartCancelFields DEF UpdateStatus
<1>2. CASE ~(s = "error" /\ status = "ok")
  BY <1>2 DEF UpdateStatus, TypeOK
<1> QED  BY <1>1, <1>2

\* A step in which the master learns of an error at most, pc and cleanup unchanged
\* or pc going from "issue" to "wait".
LEMMA StatusKeeps ==
  ASSUME IInv, TypeOK', NEW s, UpdateStatus(s, rpc),
         s = "error" => (pc # "ok" /\ (closed' \/ asked')),
         pc' = pc \/ (pc' = "wait" /\ pc = "issue"),
         closed => closed', asked => asked',
         UNCHANGED <<issued, rdvVars, opVars, delayed, outputs, cleanup>>
  PROVE  IInv'
<1> USE DEF rdvVars, opVars
<1>0. rpc \in [Rpcs -> RpcType] /\ TypeOK
  BY DEF IInv, TypeOK
<1>1. /\ status = "error" \/ s = "error" <=> status' = "error"
      /\ status' \in {"ok", "error"}
      /\ \A r \in Rpcs :
           /\ rpc'[r].client = rpc[r].client /\ rpc'[r].server = rpc[r].server
           /\ rpc'[r].reply = rpc[r].reply
           /\ rpc'[r].tried => rpc[r].tried \/ (status' = "error" /\ rpc[r].client # "idle")
  BY <1>0, UpdateStatusEffect
<1>4. CallsMatch'
  BY <1>1, GraphFacts DEF IInv, CallsMatch, CallOK
<1>5. WaitersAreRegistered'
  BY <1>1, GraphFacts DEF IInv, WaitersAreRegistered
<1>6. RendezvousHeld'
  BY <1>1, GraphFacts DEF IInv, RendezvousHeld, OkReturns
<1>7. FailureLeavesTrace'
  BY <1>1 DEF IInv, FailureLeavesTrace, Failure, Undisturbed
<1>8. OkReplies'
  <2>1. Failure => Failure'
    BY <1>1 DEF Failure
  <2>2. status' = "ok" => status = "ok"
    BY <1>0, <1>1 DEF TypeOK
  <2> QED  BY <1>1, <2>1, <2>2, GraphFacts DEF IInv, OkReplies
<1>9. OkReturns'
  BY <1>0, <1>1, GraphFacts DEF IInv, OkReturns, AllDone, TypeOK
<1>10. TracedBack'
  BY <1>0, <1>1, GraphAssumption, GraphFacts DEF IInv, TracedBack, Clean, RootCause, TypeOK
<1> QED  BY <1>4, <1>5, <1>6, <1>7, <1>8, <1>9, <1>10 DEF IInv

LEMMA HookKeeps == ASSUME IInv, Hook PROVE IInv'
<1> USE DEF masterVars, rdvVars, opVars
<1>0. rpc \in [Rpcs -> RpcType] /\ TypeOK
  BY DEF IInv, TypeOK
<1>1. PICK s \in {"ok", "error"} : UpdateStatus(s, rpc) /\ (s = "error" <=> closed)
  <2>1. CASE closed
    BY <2>1 DEF Hook
  <2>2. CASE ~closed
    BY <2>2 DEF Hook, UpdateStatus
  <2> QED  BY <2>1, <2>2
<1>2. hooked' \in BOOLEAN
  BY Zenon DEF Hook
<1>3. TypeOK'
  BY <1>0, <1>1, <1>2, UpdateStatusEffect DEF Hook, TypeOK
<1> QED  BY <1>1, <1>3, StatusKeeps DEF Hook

LEMMA CloseSessionKeeps == ASSUME IInv, CloseSession PROVE IInv'
<1> USE DEF masterVars, rdvVars, opVars
<1>0. rpc \in [Rpcs -> RpcType] /\ TypeOK
  BY DEF IInv, TypeOK
<1>1. PICK s \in {"ok", "error"} : UpdateStatus(s, rpc) /\ (s = "error" => pc = "wait")
  <2>1. CASE pc = "wait" /\ hooked
    BY <2>1 DEF CloseSession
  <2>2. CASE ~(pc = "wait" /\ hooked)
    BY <2>2 DEF CloseSession, UpdateStatus
  <2> QED  BY <2>1, <2>2
<1>2. closed' \in BOOLEAN
  BY Zenon DEF CloseSession
<1>3. TypeOK'
  BY <1>0, <1>1, <1>2, UpdateStatusEffect DEF CloseSession, TypeOK
<1> QED  BY <1>1, <1>3, StatusKeeps DEF CloseSession

LEMMA CancelRunStepKeeps == ASSUME IInv, CancelRunStep PROVE IInv'
<1> USE DEF masterVars, rdvVars, opVars
<1>0. rpc \in [Rpcs -> RpcType] /\ TypeOK
  BY DEF IInv, TypeOK
<1>1. PICK s \in {"ok", "error"} : UpdateStatus(s, rpc) /\ (s = "error" => pc = "wait")
  <2>1. CASE pc = "wait"
    BY <2>1 DEF CancelRunStep
  <2>2. CASE pc # "wait"
    BY <2>2 DEF CancelRunStep, UpdateStatus
  <2> QED  BY <2>1, <2>2
<1>2. asked' \in BOOLEAN
  BY Zenon DEF CancelRunStep
<1>3. TypeOK'
  BY <1>0, <1>1, <1>2, UpdateStatusEffect DEF CancelRunStep, TypeOK
<1> QED  BY <1>1, <1>3, StatusKeeps DEF CancelRunStep

LEMMA RunGraphDoneKeeps == ASSUME IInv, NEW w \in Workers, RunGraphDone(w) PROVE IInv'
<1> USE DEF masterVars, rdvVars, opVars
<1>0. rpc \in [Rpcs -> RpcType] /\ TypeOK /\ w \in Rpcs
  BY GraphFacts DEF IInv, TypeOK
<1>1. PICK s \in Completion(w) : UpdateStatus(s, Completed(w))
  BY DEF RunGraphDone
<1>2. /\ rpc[w].client = "pending"
      /\ s = "error" => rpc[w].tried \/ rpc[w].reply = "error"
      /\ s # "error" => rpc[w].server = "replied" /\ rpc[w].reply = "ok"
  BY <1>0, <1>1, CallFields DEF Completion, IInv, CallsMatch, CallOK
<1>3. /\ Completed(w) \in [Rpcs -> RpcType]
      /\ \A r \in Rpcs :
           /\ Completed(w)[r].client = IF r = w THEN "done" ELSE rpc[r].client
           /\ Completed(w)[r].server = rpc[r].server /\ Completed(w)[r].reply = rpc[r].reply
           /\ Completed(w)[r].tried = rpc[r].tried
  BY <1>0, DoneFields DEF Completed
<1>4. /\ rpc' \in [Rpcs -> RpcType] /\ status' \in {"ok", "error"}
      /\ status = "error" \/ s = "error" <=> status' = "error"
      /\ \A r \in Rpcs :
           /\ rpc'[r].client = IF r = w THEN "done" ELSE rpc[r].client
           /\ rpc'[r].server = rpc[r].server /\ rpc'[r].reply = rpc[r].reply
           /\ rpc'[r].tried => rpc[r].tried \/ (status' = "error" /\ rpc[r].client # "idle")
  BY <1>0, <1>1, <1>2, <1>3, UpdateStatusEffect
<1>5. TypeOK'
  BY <1>0, <1>4 DEF RunGraphDone, TypeOK
<1>6. CallsMatch'
  BY <1>0, <1>2, <1>4, GraphFacts DEF RunGraphDone, IInv, CallsMatch, CallOK
<1>7. WaitersAreRegistered'
  BY <1>4, GraphFacts DEF RunGraphDone, IInv, WaitersAreRegistered
<1>8. RendezvousHeld'
  BY <1>4, GraphFacts DEF RunGraphDone, IInv, RendezvousHeld
<1>9. FailureLeavesTrace'
  BY <1>4 DEF RunGraphDone, IInv, FailureLeavesTrace, Failure, Undisturbed
<1>10. OkReplies'
  <2>1. Failure => Failure'
    BY <1>4 DEF Failure, RunGraphDone
  <2>2. status' = "ok" => status = "ok" /\ rpc[w].reply = "ok"
    BY <1>0, <1>2, <1>4 DEF TypeOK
  <2> QED  BY <1>2, <1>4, <2>1, <2>2, GraphFacts DEF RunGraphDone, IInv, OkReplies
<1>11. OkReturns'
  BY <1>0, <1>2, <1>4, GraphFacts DEF RunGraphDone, IInv, OkReturns, AllDone, TypeOK
<1>12. TracedBack'
  <2>1. RootCause => RootCause'
    BY <1>4, GraphAssumption, GraphFacts DEF RunGraphDone, RootCause
  <2>2. Clean => status' = "ok"
    BY <1>0, <1>2, <1>4 DEF Clean
  <2>3. Clean => Clean'
    BY <1>4, <2>2 DEF RunGraphDone, Clean
  <2> QED  BY <2>1, <2>3 DEF IInv, TracedBack
<1> QED  BY <1>5, <1>6, <1>7, <1>8, <1>9, <1>10, <1>11, <1>12 DEF IInv

LEMMA StepReturnsKeeps == ASSUME IInv, StepReturns PROVE IInv'
<1> USE DEF masterVars, rdvVars, opVars
<1>1. TypeOK'
  BY GraphFacts DEF StepReturns, StepStatus, IInv, TypeOK
<1>2. CallsMatch' /\ WaitersAreRegistered'
  BY DEF StepReturns, IInv, CallsMatch, CallOK, WaitersAreRegistered
<1>3. RendezvousHeld'
  BY DEF StepReturns, StepStatus, IInv, RendezvousHeld
<1>4. FailureLeavesTrace' /\ OkReplies'
  BY DEF StepReturns, IInv, FailureLeavesTrace, Failure, Undisturbed, OkReplies
<1>5. OkReturns'
  BY DEF StepReturns, StepStatus, IInv, OkReturns, AllDone
<1>6. TracedBack'
  BY DEF StepReturns, IInv, TracedBack, Clean, RootCause
<1> QED  BY <1>1, <1>2, <1>3, <1>4, <1>5, <1>6 DEF IInv

-----------------------------------------------------------------------------
(* A successful step.                                                      *)

\* When the master has returned OK the graph has run, and nothing of it is left.
LEMMA OkFacts ==
  ASSUME IInv, pc = "ok"
  PROVE  OkMeansComplete /\ OkLeavesNothing /\ ~Failure /\ Undisturbed
<1>1. status = "ok" /\ \A w \in Workers : rpc[w].client = "done" /\ rpc[w].reply = "ok"
  BY DEF IInv, OkReturns, OkReplies, AllDone
<1>2. /\ \A u \in Units : kernel[u] = "ok"
      /\ \A k \in Received : recv[k] = "ok"
      /\ \A k \in Keys : send[k] = "ok"
  <2>1. \A u \in Units : kernel[u] = "ok"
    BY <1>1, GraphFacts DEF IInv, OkReplies
  <2>2. \A k \in Received : recv[k] = "ok"
    BY <1>1, GraphFacts DEF IInv, OkReplies
  <2>3. \A k \in Keys : send[k] = "ok"
    BY <1>1, GraphFacts DEF IInv, OkReplies
  <2> QED  BY <2>1, <2>2, <2>3
<1>3. ~Failure
  BY <1>1, <1>2 DEF Failure
<1>4. OkMeansComplete
  BY <1>1, <1>2, <1>3 DEF OkMeansComplete, IInv, OkReplies
<1>5. Undisturbed
  BY <1>3 DEF IInv, FailureLeavesTrace
<1>6. \A r \in Rpcs : rpc[r].client = "done" /\ rpc[r].server = "replied"
  BY <1>1, <1>2, GraphFacts DEF IInv, CallsMatch, CallOK
<1>7. \A k \in Keys : item[k] # "waiter"
  BY <1>2, <1>6, GraphFacts DEF IInv, WaitersAreRegistered, RendezvousHeld, Received
<1>8. OkLeavesNothing
  BY <1>5, <1>6, <1>7 DEF OkLeavesNothing, Undisturbed, IInv, OkReturns
<1> QED  BY <1>3, <1>4, <1>5, <1>8

\* So no handler starts, replies or is told of anything.
LEMMA NotOver ==
  ASSUME IInv, NEW r \in Rpcs, rpc[r].server # "replied"
  PROVE  pc # "ok"
BY OkFacts DEF OkLeavesNothing

-----------------------------------------------------------------------------
(* Aborting a rendezvous.                                                  *)

LEMMA StartAbortEffect ==
  ASSUME TypeOK, NEW w \in Workers,
         NEW rc \in [Received -> {"ready", "waiting", "registered", "called", "ok", "failed"}],
         NEW cl \in [Rpcs -> RpcType], StartAbort(w, rc, cl)
  PROVE  /\ rpc' \in [Rpcs -> RpcType]
         /\ rdv' \in [Workers -> {"none", "live", "aborted"}]
         /\ item' \in [Keys -> {"none", "value", "waiter", "received"}]
         /\ recv' \in [Received -> {"ready", "waiting", "registered", "called", "ok", "failed"}]
         /\ bad' \in [Remote -> BOOLEAN]
         /\ rdv'[w] = "aborted" /\ \A v \in Workers : v # w => rdv'[v] = rdv[v]
         /\ rdv[w] # "aborted" =>
              /\ \A k \in Keys : item'[k] = IF SrcWorker(k) = w THEN "none" ELSE item[k]
              /\ \A k \in Received :
                   recv'[k] = IF rc[k] = "waiting" /\ SrcWorker(k) = w THEN "failed" ELSE rc[k]
         /\ rdv[w] = "aborted" => item' = item /\ recv' = rc
         /\ \A r \in Rpcs :
              /\ rpc'[r].client = cl[r].client
              /\ rpc'[r].tried => cl[r].tried \/ cl[r].client # "idle"
         /\ \A r \in Workers : rpc'[r] = cl[r]
         /\ \A r \in Remote :
              IF rdv[w] # "aborted" /\ SrcWorker(r) = w /\ cl[r].server = "busy"
              THEN rpc'[r].server = "replied" /\ rpc'[r].reply = "error"
              ELSE rpc'[r].server = cl[r].server /\ rpc'[r].reply = cl[r].reply
<1>1. CASE rdv[w] = "aborted"
  BY <1>1, GraphFacts DEF StartAbort, TypeOK
<1>2. CASE rdv[w] # "aborted"
  <2>1. bad' \in [Remote -> BOOLEAN]
    BY <1>2, Zenon DEF StartAbort
  <2>2. /\ rpc' = AbortCalls(w, cl)
        /\ rpc' \in [Rpcs -> RpcType]
    BY <1>2, StartCancelFields, RepliedFields DEF StartAbort, AbortCalls
  <2>3. \A r \in Workers : rpc'[r] = cl[r]
    BY <2>2, GraphFacts DEF AbortCalls
  <2>4. \A r \in Remote :
           /\ rpc'[r].client = cl[r].client
           /\ rpc'[r].tried => cl[r].tried \/ cl[r].client # "idle"
           /\ IF SrcWorker(r) = w /\ cl[r].server = "busy"
              THEN rpc'[r].server = "replied" /\ rpc'[r].reply = "error"
              ELSE rpc'[r].server = cl[r].server /\ rpc'[r].reply = cl[r].reply
    BY <2>2, GraphFacts, StartCancelFields, RepliedFields DEF AbortCalls
  <2>5. /\ recv' \in [Received -> {"ready", "waiting", "registered", "called", "ok", "failed"}]
        /\ \A k \in Received :
             recv'[k] = IF rc[k] = "waiting" /\ SrcWorker(k) = w THEN "failed" ELSE rc[k]
    BY <1>2 DEF StartAbort, AbortWaiters
  <2>6. /\ item' \in [Keys -> {"none", "value", "waiter", "received"}]
        /\ \A k \in Keys : item'[k] = IF SrcWorker(k) = w THEN "none" ELSE item[k]
    BY <1>2 DEF StartAbort, AbortItems, TypeOK
  <2>7. /\ rdv' \in [Workers -> {"none", "live", "aborted"}]
        /\ rdv'[w] = "aborted" /\ \A v \in Workers : v # w => rdv'[v] = rdv[v]
    BY <1>2 DEF StartAbort, TypeOK
  <2> QED  BY <1>2, <2>1, <2>2, <2>3, <2>4, <2>5, <2>6, <2>7, GraphFacts
<1> QED  BY <1>1, <1>2

\* An abort by a failure that leaves a trace and has a cause.  At the same time one
\* Recv op may fail, its call being over, or a kernel that was running.
LEMMA AbortKeeps ==
  ASSUME IInv, TypeOK', pc # "ok", Failure', RootCause', NEW w \in Workers,
         NEW rc \in [Received -> {"ready", "waiting", "registered", "called", "ok", "failed"}],
         NEW cl \in [Rpcs -> RpcType], StartAbort(w, rc, cl),
         \A k \in Received : rc[k] = recv[k] \/ (k \in Remote /\ recv[k] = "called" /\ rc[k] = "failed"),
         \A r \in Workers : cl[r] = rpc[r],
         \A r \in Rpcs : /\ cl[r].client = rpc[r].client
                            \/ (rpc[r].client = "pending" /\ cl[r].client = "done")
                         /\ cl[r].server = rpc[r].server /\ cl[r].reply = rpc[r].reply
                         /\ cl[r].tried = rpc[r].tried,
         \A u \in Units : kernel[u] = "ok" => kernel'[u] = "ok",
         UNCHANGED <<masterVars, send, outputs, cleanup>>
  PROVE  IInv'
<1> USE DEF masterVars
<1>0. TypeOK /\ rpc \in [Rpcs -> RpcType]
  BY DEF IInv, TypeOK
<1> DEFINE Hit(r) == rdv[w] # "aborted" /\ SrcWorker(r) = w /\ rpc[r].server = "busy"
<1>1. /\ rdv'[w] = "aborted" /\ \A v \in Workers : v # w => rdv'[v] = rdv[v]
      /\ \A r \in Rpcs : rpc'[r].client = rpc[r].client
                         \/ (rpc[r].client = "pending" /\ rpc'[r].client = "done")
      /\ \A r \in Rpcs : rpc'[r].tried => rpc'[r].client # "idle"
      /\ \A r \in Workers : rpc'[r] = rpc[r]
      /\ \A r \in Remote :
           IF Hit(r) THEN rpc'[r].server = "replied" /\ rpc'[r].reply = "error"
           ELSE rpc'[r].server = rpc[r].server /\ rpc'[r].reply = rpc[r].reply
  <2>1. \A r \in Rpcs : rpc[r].tried => rpc[r].client # "idle"
    BY DEF IInv, CallsMatch, CallOK
  <2>2. /\ rdv'[w] = "aborted" /\ \A v \in Workers : v # w => rdv'[v] = rdv[v]
        /\ \A r \in Rpcs :
             /\ rpc'[r].client = cl[r].client
             /\ rpc'[r].tried => cl[r].tried \/ cl[r].client # "idle"
        /\ \A r \in Workers : rpc'[r] = cl[r]
    BY <1>0, StartAbortEffect
  <2>3. \A r \in Remote :
          IF rdv[w] # "aborted" /\ SrcWorker(r) = w /\ cl[r].server = "busy"
          THEN rpc'[r].server = "replied" /\ rpc'[r].reply = "error"
          ELSE rpc'[r].server = cl[r].server /\ rpc'[r].reply = cl[r].reply
    BY <1>0, StartAbortEffect
  <2>4. \A r \in Remote :
          IF Hit(r) THEN rpc'[r].server = "replied" /\ rpc'[r].reply = "error"
          ELSE rpc'[r].server = rpc[r].server /\ rpc'[r].reply = rpc[r].reply
    BY <2>3, GraphFacts
  <2> QED  BY <2>1, <2>2, <2>4, GraphFacts, SMTT(30)
<1>2. /\ \A k \in Received : recv'[k] = rc[k] \/ (rc[k] = "waiting" /\ recv'[k] = "failed")
      /\ \A k \in Keys : item'[k] = item[k] \/ item'[k] = "none"
  BY <1>0, StartAbortEffect
<1>3. CallsMatch'
  <2>1. \A r \in Rpcs : CallOK(rpc'[r])
    BY <1>1, GraphFacts DEF IInv, CallsMatch, CallOK
  <2>2. \A k \in Remote :
           /\ rpc'[k].client = "idle" <=> recv'[k] \in {"ready", "registered"}
           /\ recv'[k] # "waiting"
           /\ recv'[k] = "ok" => rpc'[k].client = "done" /\ rpc'[k].server = "replied"
    BY <1>1, <1>2, GraphFacts DEF IInv, CallsMatch
  <2>3. \A i \in 1..Len(Order) : i > issued => rpc'[Order[i]].client = "idle"
    BY <1>1, GraphFacts DEF IInv, CallsMatch
  <2> QED  BY <2>1, <2>2, <2>3 DEF CallsMatch
<1>4. WaitersAreRegistered'
  <2>1. CASE rdv[w] = "aborted"
    <3>1. item' = item /\ recv' = rc
      BY <1>0, <2>1, StartAbortEffect
    <3>2. \A k \in Remote : (rpc'[k].server = "busy") <=> (item'[k] = "waiter")
      BY <2>1, <3>1, <1>1, GraphFacts DEF IInv, WaitersAreRegistered
    <3>3. \A k \in Received \ Remote : (recv'[k] = "waiting") <=> (item'[k] = "waiter")
      BY <2>1, <3>1, <1>1, GraphFacts DEF IInv, WaitersAreRegistered
    <3>4. \A k \in Keys : item'[k] = "waiter" => rdv'[SrcWorker(k)] = "live"
      BY <2>1, <3>1, <1>1, GraphFacts DEF IInv, WaitersAreRegistered
    <3> QED  BY <3>2, <3>3, <3>4 DEF WaitersAreRegistered
  <2>2. CASE rdv[w] # "aborted"
    <3>1. /\ \A k \in Keys : item'[k] = IF SrcWorker(k) = w THEN "none" ELSE item[k]
          /\ \A k \in Received :
               recv'[k] = IF rc[k] = "waiting" /\ SrcWorker(k) = w THEN "failed" ELSE rc[k]
      BY <1>0, <2>2, StartAbortEffect
    <3>2. \A k \in Remote : (rpc'[k].server = "busy") <=> (item'[k] = "waiter")
      BY <2>2, <3>1, <1>1, GraphFacts DEF IInv, WaitersAreRegistered
    <3>3. \A k \in Received \ Remote : (recv'[k] = "waiting") <=> (item'[k] = "waiter")
      BY <2>2, <3>1, <1>1, GraphFacts DEF IInv, WaitersAreRegistered
    <3>4. \A k \in Keys : item'[k] = "waiter" => rdv'[SrcWorker(k)] = "live"
      BY <2>2, <3>1, <1>1, GraphFacts DEF IInv, WaitersAreRegistered
    <3> QED  BY <3>2, <3>3, <3>4 DEF WaitersAreRegistered
  <2> QED  BY <2>1, <2>2
<1>5. RendezvousHeld'
  BY <1>1, <1>2, GraphFacts DEF IInv, RendezvousHeld
<1>6. FailureLeavesTrace' /\ OkReturns' /\ TracedBack'
  BY DEF FailureLeavesTrace, OkReturns, TracedBack
<1>7. OkReplies'
  <2>1. \A k \in Received : recv[k] = "ok" => recv'[k] = "ok"
    BY <1>2
  <2> QED  BY <2>1, <1>1, GraphFacts DEF IInv, OkReplies
<1> QED  BY <1>3, <1>4, <1>5, <1>6, <1>7 DEF IInv

LEMMA DelayedAbortKeeps == ASSUME IInv, NEW w \in Workers, DelayedAbort(w) PROVE IInv'
<1> USE DEF masterVars, rdvVars, opVars
<1>0. /\ TypeOK /\ rpc \in [Rpcs -> RpcType]
      /\ recv \in [Received -> {"ready", "waiting", "registered", "called", "ok", "failed"}]
      /\ StartAbort(w, recv, rpc) /\ delayed[w]
  BY DEF IInv, TypeOK, DelayedAbort
<1>1. TypeOK'
  <2>1. delayed' \in [Workers -> BOOLEAN]
    BY <1>0 DEF DelayedAbort, TypeOK
  <2> QED  BY <1>0, <2>1, StartAbortEffect, Zenon DEF DelayedAbort, TypeOK
<1>2. Failure /\ RootCause /\ pc # "ok"
  <2>1. ~Undisturbed /\ ~Clean
    BY <1>0 DEF Undisturbed, Clean
  <2> QED  BY <2>1, OkFacts DEF IInv, FailureLeavesTrace, TracedBack
<1>3. Failure' /\ RootCause'
  <2>1. \A k \in Received : recv[k] = "failed" => recv'[k] = "failed"
    BY <1>0, StartAbortEffect
  <2>2. \A v \in Workers : rpc'[v] = rpc[v]
    BY <1>0, StartAbortEffect
  <2> QED  BY <1>2, <2>1, <2>2, GraphAssumption DEF DelayedAbort, Failure, RootCause
<1> QED  BY <1>0, <1>1, <1>2, <1>3, AbortKeeps DEF DelayedAbort

LEMMA KernelFailsKeeps ==
  ASSUME IInv, NEW u \in Units, NEW why \in {"failed", "cancelled"}, KernelFails(u, why),
         why = "failed" \/ cm[WorkerOf[u]]
  PROVE  IInv'
<1> USE DEF masterVars, rdvVars, opVars
<1> DEFINE w == WorkerOf[u]
<1>0. /\ TypeOK /\ rpc \in [Rpcs -> RpcType]
      /\ recv \in [Received -> {"ready", "waiting", "registered", "called", "ok", "failed"}]
      /\ StartAbort(w, recv, rpc) /\ w \in Workers /\ w \in Rpcs
      /\ rpc[w].server = "busy" /\ kernel[u] = "running" /\ kernel'[u] = why
      /\ \A v \in Units : v # u => kernel'[v] = kernel[v]
  BY GraphFacts DEF IInv, TypeOK, KernelFails, Runs
<1>1. TypeOK'
  <2>1. kernel' \in [Units -> {"running", "ok", "failed", "cancelled"}]
    BY <1>0 DEF KernelFails, TypeOK
  <2> QED  BY <1>0, <2>1, StartAbortEffect, Zenon DEF KernelFails, TypeOK
<1>2. pc # "ok"
  BY <1>0, NotOver
<1>3. Failure'
  BY <1>0 DEF Failure
<1>4. RootCause'
  <2>1. CASE why = "failed"
    BY <1>0, <2>1 DEF RootCause
  <2>2. CASE cm[w]
    <3>1. RootCause
      BY <1>0, <2>2 DEF IInv, TracedBack, Clean
    <3>2. \A v \in Workers : rpc'[v] = rpc[v]
      BY <1>0, StartAbortEffect
    <3>3. \A v \in Units : kernel[v] = "failed" => kernel'[v] = "failed"
      BY <1>0
    <3> QED  BY <3>1, <3>2, <3>3, GraphAssumption DEF KernelFails, RootCause
  <2> QED  BY <2>1, <2>2
<1>5. \A v \in Units : kernel[v] = "ok" => kernel'[v] = "ok"
  BY <1>0
<1> QED  BY <1>0, <1>1, <1>2, <1>3, <1>4, <1>5, AbortKeeps DEF KernelFails

-----------------------------------------------------------------------------
(* Steps that go on with the work: they disturb nothing that was not       *)
(* disturbed before, and no RunGraph call is issued, answered or over.     *)

LEMMA CalmKeeps ==
  ASSUME IInv, TypeOK', CallsMatch', WaitersAreRegistered', pc # "ok",
         UNCHANGED <<masterVars, outputs, cleanup>>,
         \A w \in Workers :
           /\ rpc'[w].client = rpc[w].client /\ rpc'[w].reply = rpc[w].reply
           /\ rpc'[w].server = rpc[w].server
              \/ (rpc[w].server = "sent" /\ rpc'[w].server = "lost"),
         \A w \in Workers : rdv'[w] = rdv[w] \/ rdv'[w] # "none",
         \A u \in Units : kernel'[u] = kernel[u] \/ kernel[u] = "running",
         \A k \in Received : recv'[k] = recv[k] \/ recv[k] \notin {"ok", "failed"},
         \A k \in Keys : send'[k] = send[k]
                         \/ (send[k] = "ready" /\ rpc[SrcWorker(k)].server = "busy"),
         \A k \in Fetches : /\ item'[k] # "waiter"
                            /\ item[k] = "value" => item'[k] = "value"
                            /\ send'[k] = "ok" => send[k] = "ok" \/ item'[k] = "value",
         Undisturbed => Undisturbed' \/ Failure', Clean => Clean' \/ RootCause'
  PROVE  IInv'
<1> USE DEF masterVars
<1>1. RendezvousHeld'
  <2>1. \A w \in Workers : rpc'[w].server = "busy" => rdv'[w] # "none"
    BY DEF IInv, RendezvousHeld
  <2>2. \A k \in Keys : send'[k] # "ready" => rpc'[SrcWorker(k)].server \in {"busy", "replied"}
    BY GraphFacts DEF IInv, RendezvousHeld
  <2>3. \A w \in Workers : outputs'[w] # "none" => rpc'[w].server = "replied"
    BY DEF IInv, RendezvousHeld
  <2>4. \A w \in Workers : cleanup'[w] # "none" => pc' = "ok"
    BY DEF IInv, RendezvousHeld
  <2> QED  BY <2>1, <2>2, <2>3, <2>4 DEF RendezvousHeld
<1>2. Failure => Failure'
  BY DEF Failure
<1>3. FailureLeavesTrace'
  BY <1>2 DEF IInv, FailureLeavesTrace
<1>4. OkReplies'
  <2>1. \A w \in Workers : rpc[w].reply = "ok" =>
          /\ \A u \in Units : WorkerOf[u] = w => kernel'[u] = "ok"
          /\ \A k \in Received : DstWorker(k) = w => recv'[k] = "ok"
          /\ \A k \in Keys : SrcWorker(k) = w => send'[k] = "ok"
    BY DEF IInv, OkReplies
  <2>2. \A w \in Workers : rpc[w].reply = "ok" => Failure' \/ outputs'[w] = "full"
    BY <1>2 DEF IInv, OkReplies
  <2>3. status' = "ok" => \A w \in Workers : rpc'[w].client = "done" => rpc'[w].reply = "ok"
    BY DEF IInv, OkReplies
  <2>4. Failure' \/ \A k \in Fetches :
          send'[k] = "ok" /\ rpc'[SrcWorker(k)].server = "busy" => item'[k] = "value"
    BY <1>2, GraphFacts DEF IInv, OkReplies
  <2> QED  BY <2>1, <2>2, <2>3, <2>4 DEF OkReplies
<1>5. OkReturns'
  BY DEF OkReturns
<1>6. TracedBack'
  <2>1. RootCause => RootCause'
    BY GraphAssumption DEF RootCause
  <2> QED  BY <2>1 DEF IInv, TracedBack
<1> QED  BY <1>1, <1>3, <1>4, <1>5, <1>6 DEF IInv

LEMMA RecvTensorDoneKeeps == ASSUME IInv, NEW k \in Remote, RecvTensorDone(k) PROVE IInv'
<1> USE DEF masterVars, rdvVars, opVars
<1> DEFINE w == DstWorker(k)
<1>0. /\ TypeOK /\ rpc \in [Rpcs -> RpcType] /\ k \in Rpcs /\ k \in Received /\ k \in Keys
      /\ recv \in [Received -> {"ready", "waiting", "registered", "called", "ok", "failed"}]
      /\ w \in Workers /\ recv[k] = "called" /\ k \notin Workers
  BY GraphFacts DEF IInv, TypeOK, RecvTensorDone
<1>1. PICK s \in Completion(k) :
        IF RecvResult(k, s) = "failed"
        THEN StartAbort(w, [recv EXCEPT ![k] = RecvResult(k, s)], Completed(k))
        ELSE /\ recv' = [recv EXCEPT ![k] = RecvResult(k, s)] /\ rpc' = Completed(k)
             /\ UNCHANGED <<rdv, item, bad>>
  BY <1>0 DEF RecvTensorDone
<1>2. /\ rpc[k].client = "pending"
      /\ s = "ok" => rpc[k].server = "replied" /\ rpc[k].reply = "ok"
      /\ s # "ok" => rpc[k].tried \/ rpc[k].reply = "error"
  BY <1>0, CallFields DEF Completion, IInv, CallsMatch, CallOK
<1>3. PICK cl \in [Rpcs -> RpcType] :
        /\ cl = Completed(k)
        /\ \A r \in Rpcs :
             /\ cl[r].client = IF r = k THEN "done" ELSE rpc[r].client
             /\ cl[r].server = rpc[r].server /\ cl[r].reply = rpc[r].reply
             /\ cl[r].tried = rpc[r].tried
        /\ \A r \in Rpcs : r # k => cl[r] = rpc[r]
  <2>1. /\ Completed(k) \in [Rpcs -> RpcType]
        /\ \A r \in Rpcs :
             /\ Completed(k)[r].client = IF r = k THEN "done" ELSE rpc[r].client
             /\ Completed(k)[r].server = rpc[r].server /\ Completed(k)[r].reply = rpc[r].reply
             /\ Completed(k)[r].tried = rpc[r].tried
        /\ \A r \in Rpcs : r # k => Completed(k)[r] = rpc[r]
    BY <1>0, DoneFields DEF Completed
  <2> QED  BY <2>1
<1>4. pc # "ok"
  BY <1>0, <1>2, OkFacts DEF OkLeavesNothing
<1>5. CASE RecvResult(k, s) = "failed"
  <2>1. PICK rc \in [Received -> {"ready", "waiting", "registered", "called", "ok", "failed"}] :
          /\ StartAbort(w, rc, cl)
          /\ rc[k] = "failed" /\ \A l \in Received : l # k => rc[l] = recv[l]
    <3> DEFINE q == [recv EXCEPT ![k] = "failed"]
    <3>1. q \in [Received -> {"ready", "waiting", "registered", "called", "ok", "failed"}]
      BY <1>0
    <3>2. q[k] = "failed" /\ \A l \in Received : l # k => q[l] = recv[l]
      BY <1>0
    <3>3. StartAbort(w, q, cl)
      BY <1>1, <1>3, <1>5
    <3> HIDE DEF q
    <3> QED  BY <3>1, <3>2, <3>3
  <2>a. /\ rpc' \in [Rpcs -> RpcType]
        /\ rdv' \in [Workers -> {"none", "live", "aborted"}]
        /\ item' \in [Keys -> {"none", "value", "waiter", "received"}]
        /\ recv' \in [Received -> {"ready", "waiting", "registered", "called", "ok", "failed"}]
        /\ bad' \in [Remote -> BOOLEAN]
        /\ \A r \in Workers : rpc'[r] = cl[r]
        /\ recv'[k] = "failed"
    BY <1>0, <2>1, StartAbortEffect
  <2>2. TypeOK'
    BY <1>0, <2>a, Zenon DEF RecvTensorDone, TypeOK
  <2>3. Failure'
    BY <1>0, <2>a DEF Failure
  <2>5. \A r \in Workers : cl[r] = rpc[r]
    BY <1>0, <1>3, GraphFacts
  <2>4. RootCause'
    <3>1. RootCause
      BY <1>0, <1>2, <1>5 DEF RecvResult, IInv, TracedBack, Clean
    <3>2. \A v \in Workers : rpc'[v] = rpc[v]
      BY <2>a, <2>5
    <3> QED  BY <3>1, <3>2, GraphAssumption DEF RecvTensorDone, RootCause
  <2>6. \A l \in Received : rc[l] = recv[l] \/ (l \in Remote /\ recv[l] = "called" /\ rc[l] = "failed")
    BY <1>0, <2>1
  <2>7. \A r \in Rpcs : /\ cl[r].client = rpc[r].client
                           \/ (rpc[r].client = "pending" /\ cl[r].client = "done")
                        /\ cl[r].server = rpc[r].server /\ cl[r].reply = rpc[r].reply
                        /\ cl[r].tried = rpc[r].tried
    BY <1>2, <1>3
  <2>8. UNCHANGED <<masterVars, send, outputs, cleanup, kernel>>
    BY DEF RecvTensorDone
  <2> QED  BY <1>0, <1>4, <2>1, <2>2, <2>3, <2>4, <2>5, <2>6, <2>7, <2>8, AbortKeeps
<1>6. CASE RecvResult(k, s) # "failed"
  <2>1. s = "ok" /\ RecvResult(k, s) = "ok"
    BY <1>6 DEF RecvResult
  <2>2. /\ recv' \in [Received -> {"ready", "waiting", "registered", "called", "ok", "failed"}]
        /\ recv'[k] = "ok" /\ \A l \in Received : l # k => recv'[l] = recv[l]
        /\ rpc' = cl /\ UNCHANGED <<rdv, item, bad>>
    BY <1>0, <1>1, <1>3, <1>6, <2>1
  <2>a. \A r \in Rpcs :
             /\ rpc'[r].client = IF r = k THEN "done" ELSE rpc[r].client
             /\ rpc'[r].server = rpc[r].server /\ rpc'[r].reply = rpc[r].reply
             /\ rpc'[r].tried = rpc[r].tried
    BY <1>3, <2>2
  <2>b. UNCHANGED <<masterVars, opVars, delayed, outputs, cleanup>>
    BY DEF RecvTensorDone
  <2>3. TypeOK'
    BY <1>0, <2>2, <2>b, Zenon DEF TypeOK
  <2>4. CallsMatch'
    <3>1. \A r \in Rpcs : CallOK(rpc'[r])
      BY <1>2, <2>a DEF IInv, CallsMatch, CallOK
    <3>2. \A l \in Remote :
           /\ rpc'[l].client = "idle" <=> recv'[l] \in {"ready", "registered"}
           /\ recv'[l] # "waiting"
           /\ recv'[l] = "ok" => rpc'[l].client = "done" /\ rpc'[l].server = "replied"
      BY <1>2, <2>1, <2>2, <2>a, GraphFacts DEF IInv, CallsMatch
    <3>3. \A i \in 1..Len(Order) : i > issued => rpc'[Order[i]].client = "idle"
      BY <1>0, <2>a, GraphFacts DEF IInv, CallsMatch
    <3> QED  BY <3>1, <3>2, <3>3, <2>b DEF CallsMatch
  <2>5. WaitersAreRegistered'
    BY <1>0, <2>a, <2>2, GraphFacts DEF IInv, WaitersAreRegistered
  <2>6. Undisturbed => Undisturbed'
    BY <2>a, <2>2, <2>b DEF Undisturbed
  <2>7. Clean => Clean'
    BY <2>a, <2>2, <2>b DEF Clean
  <2>8. \A v \in Workers : /\ rpc'[v].client = rpc[v].client /\ rpc'[v].reply = rpc[v].reply
                           /\ rpc'[v].server = rpc[v].server
    BY <1>0, <2>a, GraphFacts
  <2>9. \A l \in Fetches : item'[l] = item[l] /\ item[l] # "waiter"
    BY <2>2 DEF IInv, RendezvousHeld
  <2>10. \A l \in Received : recv'[l] = recv[l] \/ recv[l] \notin {"ok", "failed"}
    BY <1>0, <2>2
  <2> QED  BY <1>4, <2>2, <2>b, <2>3, <2>4, <2>5, <2>6, <2>7, <2>8, <2>9, <2>10, CalmKeeps
<1> QED  BY <1>5, <1>6

\* CleanupGraph finds nothing to abort.
LEMMA CleanupGraphKeeps == ASSUME IInv, NEW w \in Workers, CleanupGraph(w) PROVE IInv'
<1> USE DEF masterVars, rdvVars, opVars
<1>0. /\ TypeOK /\ rpc \in [Rpcs -> RpcType] /\ pc = "ok" /\ ~Failure /\ Undisturbed
      /\ \A k \in Received : recv[k] = "ok"
      /\ \A r \in Rpcs : rpc[r].client = "done" /\ rpc[r].server = "replied"
      /\ \A k \in Keys : item[k] # "waiter"
  <2>1. TypeOK /\ rpc \in [Rpcs -> RpcType] /\ pc = "ok"
    BY DEF CleanupGraph, IInv, TypeOK, RendezvousHeld
  <2> QED  BY <2>1, OkFacts DEF OkMeansComplete, OkLeavesNothing
<1>1. Active(w) = {}
  BY <1>0, GraphFacts DEF Active
<1>2. \A r \in Rpcs : rpc'[r] = rpc[r]
  BY <1>0, <1>1, GraphFacts DEF CleanupGraph, AbortCalls
<1>3. rpc' \in [Rpcs -> RpcType]
  BY <1>0, <1>2 DEF CleanupGraph, AbortCalls
<1>4. /\ recv' \in [Received -> {"ready", "waiting", "registered", "called", "ok", "failed"}]
      /\ \A k \in Received : recv'[k] = recv[k]
  BY <1>0, GraphFacts DEF CleanupGraph, AbortWaiters, TypeOK
<1>5. /\ item' \in [Keys -> {"none", "value", "waiter", "received"}]
      /\ \A k \in Keys : item'[k] # "waiter"
  BY <1>0 DEF CleanupGraph, AbortItems, TypeOK
<1>6. bad' \in [Remote -> BOOLEAN] /\ \A k \in Remote : ~bad'[k]
  <2>1. bad' \in [Remote -> BOOLEAN]
    BY Zenon DEF CleanupGraph
  <2>2. \A k \in Remote : ~bad'[k]
    BY <1>0, <1>1 DEF CleanupGraph, Undisturbed
  <2> QED  BY <2>1, <2>2
<1>7. /\ rdv' \in [Workers -> {"none", "live", "aborted"}]
      /\ rdv'[w] = "none" /\ \A v \in Workers : v # w => rdv'[v] = rdv[v]
      /\ cleanup' \in [Workers -> {"none", "sent", "done"}]
      /\ cleanup'[w] = "done" /\ \A v \in Workers : v # w => cleanup'[v] = cleanup[v]
  BY <1>0 DEF CleanupGraph, TypeOK
<1>8. TypeOK'
  BY <1>0, <1>3, <1>4, <1>5, <1>6, <1>7 DEF CleanupGraph, TypeOK
<1>9. CallsMatch'
  <2>1. \A r \in Rpcs : CallOK(rpc'[r])
    BY <1>2 DEF IInv, CallsMatch, CallOK
  <2>2. \A k \in Remote :
           /\ rpc'[k].client = "idle" <=> recv'[k] \in {"ready", "registered"}
           /\ recv'[k] # "waiting"
           /\ recv'[k] = "ok" => rpc'[k].client = "done" /\ rpc'[k].server = "replied"
    BY <1>2, <1>4, GraphFacts DEF IInv, CallsMatch
  <2>3. \A i \in 1..Len(Order) : i > issued' => rpc'[Order[i]].client = "idle"
    BY <1>2, GraphFacts DEF CleanupGraph, IInv, CallsMatch
  <2> QED  BY <2>1, <2>2, <2>3 DEF CallsMatch
<1>10. WaitersAreRegistered'
  BY <1>0, <1>2, <1>4, <1>5, GraphFacts DEF WaitersAreRegistered
<1>11. RendezvousHeld'
  BY <1>0, <1>2, <1>5, GraphFacts DEF CleanupGraph, IInv, RendezvousHeld
<1>12. FailureLeavesTrace'
  BY <1>0, <1>2, <1>6, <1>7 DEF CleanupGraph, FailureLeavesTrace, Undisturbed
<1>13. ~Failure'
  BY <1>0, <1>4 DEF CleanupGraph, Failure
<1>14. OkReplies'
  <2>1. /\ \A u \in Units : kernel[u] = "ok"
        /\ \A k \in Keys : send[k] = "ok"
        /\ \A v \in Workers : outputs[v] = "full"
    BY <1>0, OkFacts DEF OkMeansComplete
  <2>2. \A v \in Workers : rpc'[v].reply = "ok" =>
          /\ \A u \in Units : WorkerOf[u] = v => kernel'[u] = "ok"
          /\ \A k \in Received : DstWorker(k) = v => recv'[k] = "ok"
          /\ \A k \in Keys : SrcWorker(k) = v => send'[k] = "ok"
          /\ outputs'[v] = "full"
    BY <1>0, <1>4, <2>1 DEF CleanupGraph
  <2>3. status' = "ok" => \A v \in Workers : rpc'[v].client = "done" => rpc'[v].reply = "ok"
    BY <1>2, GraphFacts DEF CleanupGraph, IInv, OkReplies
  <2>4. \A k \in Keys : rpc'[SrcWorker(k)].server # "busy"
    BY <1>0, <1>2, GraphFacts
  <2> QED  BY <2>2, <2>3, <2>4, GraphFacts DEF OkReplies
<1>15. OkReturns'
  BY <1>0, <1>2, <1>7, GraphFacts DEF CleanupGraph, IInv, OkReturns, AllDone
<1>16. TracedBack'
  <2>1. RootCause => RootCause'
    BY <1>2, GraphAssumption, GraphFacts DEF CleanupGraph, RootCause
  <2>2. Clean => Clean'
    BY <1>2, <1>4, <1>6, <1>7 DEF CleanupGraph, Clean
  <2> QED  BY <2>1, <2>2 DEF IInv, TracedBack
<1> QED  BY <1>8, <1>9, <1>10, <1>11, <1>12, <1>14, <1>15, <1>16 DEF IInv

-----------------------------------------------------------------------------
(* Calls and ops that go on.                                               *)

LEMMA LoseRequestKeeps == ASSUME IInv, NEW r \in Rpcs, LoseRequest(r) PROVE IInv'
<1> USE DEF masterVars, rdvVars, opVars
<1>0. TypeOK /\ rpc \in [Rpcs -> RpcType] /\ rpc[r] \in RpcType /\ rpc[r].server = "sent"
  BY DEF IInv, TypeOK, LoseRequest
<1>1. /\ rpc' \in [Rpcs -> RpcType]
      /\ \A q \in Rpcs : /\ rpc'[q].client = rpc[q].client /\ rpc'[q].tried = rpc[q].tried
                         /\ rpc'[q].reply = rpc[q].reply
      /\ rpc'[r].server = "lost" /\ \A q \in Rpcs : q # r => rpc'[q].server = rpc[q].server
  <2> DEFINE c == [rpc[r] EXCEPT !.server = "lost"]
  <2>1. rpc' = [rpc EXCEPT ![r] = c]
    BY DEF LoseRequest
  <2>2. /\ c \in RpcType /\ c.client = rpc[r].client /\ c.server = "lost"
        /\ c.reply = rpc[r].reply /\ c.tried = rpc[r].tried
    BY <1>0, ServerFields
  <2> HIDE DEF c
  <2> QED  BY <1>0, <2>1, <2>2, OneCall
<1>2. UNCHANGED <<masterVars, rdvVars, opVars, delayed, outputs, cleanup>>
  BY DEF LoseRequest
<1>3. TypeOK'
  BY <1>0, <1>1, <1>2, Zenon DEF TypeOK
<1>4. CallsMatch'
  <2>1. \A q \in Rpcs : CallOK(rpc'[q])
    BY <1>0, <1>1 DEF IInv, CallsMatch, CallOK
  <2>2. \A k \in Remote :
           /\ rpc'[k].client = "idle" <=> recv'[k] \in {"ready", "registered"}
           /\ recv'[k] # "waiting"
           /\ recv'[k] = "ok" => rpc'[k].client = "done" /\ rpc'[k].server = "replied"
    BY <1>0, <1>1, <1>2, GraphFacts DEF IInv, CallsMatch
  <2>3. \A i \in 1..Len(Order) : i > issued' => rpc'[Order[i]].client = "idle"
    BY <1>1, <1>2, GraphFacts DEF IInv, CallsMatch
  <2> QED  BY <2>1, <2>2, <2>3 DEF CallsMatch
<1>5. WaitersAreRegistered'
  BY <1>0, <1>1, <1>2, GraphFacts DEF IInv, WaitersAreRegistered
<1>6. Undisturbed => Undisturbed'
  BY <1>1, <1>2 DEF Undisturbed
<1>7. Clean => Clean'
  BY <1>1, <1>2 DEF Clean
<1>8. \A w \in Workers :
           /\ rpc'[w].client = rpc[w].client /\ rpc'[w].reply = rpc[w].reply
           /\ rpc'[w].server = rpc[w].server
              \/ (rpc[w].server = "sent" /\ rpc'[w].server = "lost")
  BY <1>0, <1>1, GraphFacts
<1>9. pc # "ok"
  BY <1>0, NotOver
<1>10. \A l \in Fetches : item'[l] = item[l] /\ item[l] # "waiter"
  BY <1>2 DEF IInv, RendezvousHeld
<1> QED  BY <1>2, <1>3, <1>4, <1>5, <1>6, <1>7, <1>8, <1>9, <1>10, CalmKeeps

\* FindOrCreate makes a missing rendezvous and leaves the others alone.
LEMMA FindOrCreateEffect ==
  ASSUME TypeOK, NEW w \in Workers
  PROVE  /\ FindOrCreate(w) \in [Workers -> {"none", "live", "aborted"}]
         /\ \A v \in Workers : FindOrCreate(w)[v] = rdv[v]
                               \/ (FindOrCreate(w)[v] = "live" /\ rdv[v] = "none")
         /\ FindOrCreate(w)[w] # "none"
<1>0. rdv \in [Workers -> {"none", "live", "aborted"}]
  BY DEF TypeOK
<1>1. CASE rdv[w] = "none"
  BY <1>0, <1>1 DEF FindOrCreate
<1>2. CASE rdv[w] # "none"
  BY <1>0, <1>2 DEF FindOrCreate
<1> QED  BY <1>1, <1>2

\* The server is told of a cancellation: nothing else of the call changes.
LEMMA ToldKeeps ==
  ASSUME IInv, NEW r \in Rpcs, rpc[r].tried, rpc[r].server \in {"sent", "busy"},
         rpc' = [rpc EXCEPT ![r].told = TRUE], NEW w \in Workers,
         UNCHANGED <<rdv, delayed>> \/ AbortStep(w),
         cm' \in [Workers -> BOOLEAN],
         UNCHANGED <<masterVars, item, recv, bad, send, kernel, outputs, cleanup>>
  PROVE  IInv'
<1> USE DEF masterVars
<1>0. TypeOK /\ rpc \in [Rpcs -> RpcType] /\ rpc[r] \in RpcType
  BY DEF IInv, TypeOK
<1>1. /\ rpc' \in [Rpcs -> RpcType]
      /\ \A q \in Rpcs : /\ rpc'[q].client = rpc[q].client /\ rpc'[q].tried = rpc[q].tried
                         /\ rpc'[q].reply = rpc[q].reply /\ rpc'[q].server = rpc[q].server
  BY <1>0, OneCall, ToldFields
<1>2. /\ rdv' \in [Workers -> {"none", "live", "aborted"}]
      /\ \A v \in Workers : rdv'[v] = rdv[v] \/ (rdv'[v] = "live" /\ rdv[v] = "none")
      /\ delayed' \in [Workers -> BOOLEAN]
  <2>1. CASE UNCHANGED <<rdv, delayed>>
    <3>1. delayed' \in [Workers -> BOOLEAN]
      BY <1>0, <2>1, Zenon DEF TypeOK
    <3> QED  BY <1>0, <2>1, <3>1 DEF TypeOK
  <2>2. CASE AbortStep(w)
    <3>1. delayed' \in [Workers -> BOOLEAN]
      BY <1>0, <2>2 DEF AbortStep, TypeOK
    <3> QED  BY <1>0, <2>2, <3>1, FindOrCreateEffect DEF AbortStep
  <2> QED  BY <2>1, <2>2
<1>3. TypeOK'
  BY <1>0, <1>1, <1>2, Zenon DEF TypeOK
<1>4. CallsMatch'
  <2>1. \A q \in Rpcs : CallOK(rpc'[q])
    BY <1>0, <1>1 DEF IInv, CallsMatch, CallOK
  <2>2. \A k \in Remote :
           /\ rpc'[k].client = "idle" <=> recv'[k] \in {"ready", "registered"}
           /\ recv'[k] # "waiting"
           /\ recv'[k] = "ok" => rpc'[k].client = "done" /\ rpc'[k].server = "replied"
    BY <1>0, <1>1, GraphFacts DEF IInv, CallsMatch
  <2>3. \A i \in 1..Len(Order) : i > issued' => rpc'[Order[i]].client = "idle"
    BY <1>1, GraphFacts DEF IInv, CallsMatch
  <2> QED  BY <2>1, <2>2, <2>3 DEF CallsMatch
<1>5. WaitersAreRegistered'
  <2>1. \A k \in Remote : (rpc'[k].server = "busy") <=> (item'[k] = "waiter")
    BY <1>1, GraphFacts DEF IInv, WaitersAreRegistered
  <2>2. \A k \in Received \ Remote : (recv'[k] = "waiting") <=> (item'[k] = "waiter")
    BY DEF IInv, WaitersAreRegistered
  <2>3. \A k \in Keys : item'[k] = "waiter" => rdv'[SrcWorker(k)] = "live"
    BY <1>2, GraphFacts DEF IInv, WaitersAreRegistered
  <2> QED  BY <2>1, <2>2, <2>3 DEF WaitersAreRegistered
<1>6. ~Undisturbed /\ ~Clean
  BY DEF Undisturbed, Clean
<1>8. \A v \in Workers :
           /\ rpc'[v].client = rpc[v].client /\ rpc'[v].reply = rpc[v].reply
           /\ rpc'[v].server = rpc[v].server
  BY <1>0, <1>1, GraphFacts
<1>9. pc # "ok"
  BY <1>0, NotOver
<1>10. \A l \in Fetches : item'[l] = item[l] /\ item[l] # "waiter"
  BY DEF IInv, RendezvousHeld
<1> QED  BY <1>2, <1>3, <1>4, <1>5, <1>6, <1>8, <1>9, <1>10, CalmKeeps

LEMMA RunGraphCancelledKeeps ==
  ASSUME IInv, NEW w \in Workers, RunGraphCancelled(w)
  PROVE  IInv'
<1>1. w \in Rpcs /\ cm \in [Workers -> BOOLEAN]
  BY GraphFacts DEF IInv, TypeOK
<1>2. cm' \in [Workers -> BOOLEAN]
  BY <1>1 DEF RunGraphCancelled
<1> QED  BY <1>1, <1>2, ToldKeeps DEF RunGraphCancelled

LEMMA RecvTensorCancelledKeeps ==
  ASSUME IInv, NEW k \in Remote, RecvTensorCancelled(k)
  PROVE  IInv'
<1>1. k \in Rpcs /\ SrcWorker(k) \in Workers /\ cm \in [Workers -> BOOLEAN]
  BY GraphFacts DEF IInv, TypeOK
<1>2. cm' \in [Workers -> BOOLEAN] /\ UNCHANGED <<send, kernel>>
  BY <1>1 DEF RecvTensorCancelled, opVars
<1> QED  BY <1>1, <1>2, ToldKeeps DEF RecvTensorCancelled

LEMMA KernelOkKeeps == ASSUME IInv, NEW u \in Units, KernelOk(u) PROVE IInv'
<1> USE DEF masterVars, rdvVars, opVars
<1>0. /\ TypeOK /\ kernel[u] = "running" /\ rpc[WorkerOf[u]].server = "busy"
      /\ WorkerOf[u] \in Rpcs
      /\ kernel \in [Units -> {"running", "ok", "failed", "cancelled"}]
  BY GraphFacts DEF IInv, TypeOK, KernelOk, Runs
<1>1. /\ kernel' \in [Units -> {"running", "ok", "failed", "cancelled"}]
      /\ kernel'[u] = "ok" /\ \A v \in Units : v # u => kernel'[v] = kernel[v]
  BY <1>0 DEF KernelOk
<1>2. UNCHANGED <<masterVars, rpc, rdvVars, send, cm, delayed, outputs, cleanup>>
  BY DEF KernelOk
<1>3. TypeOK'
  BY <1>0, <1>1, <1>2, Zenon DEF TypeOK
<1>4. CallsMatch' /\ WaitersAreRegistered'
  BY <1>2 DEF IInv, CallsMatch, CallOK, WaitersAreRegistered
<1>5. Undisturbed => Undisturbed'
  BY <1>2 DEF Undisturbed
<1>6. Clean => Clean'
  BY <1>1, <1>2 DEF Clean
<1>7. pc # "ok"
  BY <1>0, NotOver
<1>8. \A l \in Fetches : item'[l] = item[l] /\ item[l] # "waiter"
  BY <1>2 DEF IInv, RendezvousHeld
<1> QED  BY <1>0, <1>1, <1>2, <1>3, <1>4, <1>5, <1>6, <1>7, <1>8, CalmKeeps

LEMMA StartRTCallKeeps == ASSUME IInv, NEW k \in Remote, StartRTCall(k) PROVE IInv'
<1> USE DEF masterVars, rdvVars, opVars
<1>0. /\ TypeOK /\ rpc \in [Rpcs -> RpcType] /\ k \in Rpcs /\ k \in Received /\ k \notin Workers
      /\ recv \in [Received -> {"ready", "waiting", "registered", "called", "ok", "failed"}]
      /\ recv[k] = "registered" /\ k \in Keys
  BY GraphFacts DEF IInv, TypeOK, StartRTCall
<1>1. /\ rpc' \in [Rpcs -> RpcType]
      /\ rpc'[k].client = "pending" /\ rpc'[k].server = "sent" /\ ~rpc'[k].tried
      /\ rpc'[k].reply = "none"
      /\ \A q \in Rpcs : q # k => rpc'[q] = rpc[q]
  BY <1>0, OneCall, IssuedFields DEF StartRTCall
<1>2. /\ recv' \in [Received -> {"ready", "waiting", "registered", "called", "ok", "failed"}]
      /\ recv'[k] = "called" /\ \A l \in Received : l # k => recv'[l] = recv[l]
  BY <1>0 DEF StartRTCall
<1>3. UNCHANGED <<masterVars, rdv, item, bad, opVars, delayed, outputs, cleanup>>
  BY DEF StartRTCall
<1>4. rpc[k].client = "idle" /\ rpc[k].server = "none"
  BY <1>0 DEF IInv, CallsMatch, CallOK
<1>5. TypeOK'
  BY <1>0, <1>1, <1>2, <1>3, Zenon DEF TypeOK
<1>6. CallsMatch'
  <2>1. \A q \in Rpcs : CallOK(rpc'[q])
    BY <1>0, <1>1 DEF IInv, CallsMatch, CallOK
  <2>2. \A l \in Remote :
           /\ rpc'[l].client = "idle" <=> recv'[l] \in {"ready", "registered"}
           /\ recv'[l] # "waiting"
           /\ recv'[l] = "ok" => rpc'[l].client = "done" /\ rpc'[l].server = "replied"
    BY <1>0, <1>1, <1>2, GraphFacts DEF IInv, CallsMatch
  <2>3. \A i \in 1..Len(Order) : i > issued' => rpc'[Order[i]].client = "idle"
    BY <1>0, <1>1, <1>3, GraphFacts DEF IInv, CallsMatch
  <2> QED  BY <2>1, <2>2, <2>3 DEF CallsMatch
<1>7. WaitersAreRegistered'
  <2>1. \A l \in Remote : (rpc'[l].server = "busy") <=> (item'[l] = "waiter")
    BY <1>1, <1>3, <1>4, GraphFacts DEF IInv, WaitersAreRegistered
  <2>2. \A l \in Received \ Remote : (recv'[l] = "waiting") <=> (item'[l] = "waiter")
    BY <1>2, <1>3 DEF IInv, WaitersAreRegistered
  <2>3. \A l \in Keys : item'[l] = "waiter" => rdv'[SrcWorker(l)] = "live"
    BY <1>3 DEF IInv, WaitersAreRegistered
  <2> QED  BY <2>1, <2>2, <2>3 DEF WaitersAreRegistered
<1>8. Undisturbed => Undisturbed'
  BY <1>1, <1>3 DEF Undisturbed
<1>9. Clean => Clean'
  BY <1>1, <1>2, <1>3 DEF Clean
<1>10. pc # "ok"
  BY <1>0, <1>4, NotOver
<1>11. \A w \in Workers : rpc'[w] = rpc[w]
  BY <1>0, <1>1, GraphFacts
<1>12. \A l \in Fetches : item'[l] = item[l] /\ item[l] # "waiter"
  BY <1>3 DEF IInv, RendezvousHeld
<1>13. \A l \in Received : recv'[l] = recv[l] \/ recv[l] \notin {"ok", "failed"}
  BY <1>0, <1>2
<1> QED  BY <1>3, <1>5, <1>6, <1>7, <1>8, <1>9, <1>10, <1>11, <1>12, <1>13, CalmKeeps

\* A Recv op starts: it has its tensor, it has failed, it is registered with the
\* rendezvous of its worker, or it waits there.
LEMMA RecvAsyncKeeps == ASSUME IInv, NEW k \in Received, RecvAsync(k) PROVE IInv'
<1> USE DEF masterVars, rdvVars, opVars
<1> DEFINE w == DstWorker(k)
<1>0. /\ TypeOK /\ k \in Keys /\ w \in Workers /\ w \in Rpcs
      /\ recv \in [Received -> {"ready", "waiting", "registered", "called", "ok", "failed"}]
      /\ item \in [Keys -> {"none", "value", "waiter", "received"}]
      /\ bad \in [Remote -> BOOLEAN] /\ rdv \in [Workers -> {"none", "live", "aborted"}]
      /\ recv[k] = "ready" /\ rpc[w].server = "busy"
  BY GraphFacts DEF IInv, TypeOK, RecvAsync, Runs, DstWorker
<1>1. UNCHANGED <<masterVars, rpc, rdv, opVars, delayed, outputs, cleanup>>
  BY DEF RecvAsync
<1>2. /\ rdv[w] # "none"
      /\ k \notin Remote => SrcWorker(k) = w
  BY <1>0, GraphFacts DEF IInv, RendezvousHeld
<1>3. /\ recv' \in [Received -> {"ready", "waiting", "registered", "called", "ok", "failed"}]
      /\ \A l \in Received : l # k => recv'[l] = recv[l]
      /\ \/ k \in Remote /\ recv'[k] = "registered"
         \/ k \notin Remote /\ rdv[w] = "aborted" /\ recv'[k] = "failed"
         \/ k \notin Remote /\ recv'[k] = "ok"
         \/ k \notin Remote /\ rdv[w] # "aborted" /\ recv'[k] = "waiting"
  BY <1>0 DEF RecvAsync
<1>4. /\ item' \in [Keys -> {"none", "value", "waiter", "received"}]
      /\ \A l \in Keys : l # k => item'[l] = item[l]
      /\ item'[k] = "waiter" <=> (recv'[k] = "waiting" \/ (k \in Remote /\ item[k] = "waiter"))
  <2>1. CASE k \in Remote
    BY <1>0, <1>3, <2>1 DEF RecvAsync
  <2>2. CASE k \notin Remote
    <3>1. item[k] # "waiter"
      BY <1>0, <2>2 DEF IInv, WaitersAreRegistered
    <3>2. CASE rdv[w] = "aborted"
      BY <1>0, <2>2, <3>1, <3>2 DEF RecvAsync
    <3>3. CASE rdv[w] # "aborted"
      BY <1>0, <2>2, <3>1, <3>3 DEF RecvAsync
    <3> QED  BY <3>2, <3>3
  <2> QED  BY <2>1, <2>2
<1>5. /\ bad' \in [Remote -> BOOLEAN]
      /\ rdv[w] # "aborted" => \A l \in Remote : bad'[l] => bad[l]
  <2>1. CASE k \in Remote
    <3>1. bad' = [bad EXCEPT ![k] = (rdv[w] = "aborted")]
      BY <2>1 DEF RecvAsync
    <3>2. bad' \in [Remote -> BOOLEAN]
      BY <1>0, <3>1, Zenon
    <3>3. rdv[w] # "aborted" => \A l \in Remote : bad'[l] => bad[l]
      BY <1>0, <3>1
    <3> QED  BY <3>2, <3>3
  <2>2. CASE k \notin Remote
    <3>1. bad' = bad
      BY <2>2 DEF RecvAsync
    <3> QED  BY <1>0, <3>1, Zenon
  <2> QED  BY <2>1, <2>2
<1>6. TypeOK'
  BY <1>0, <1>1, <1>3, <1>4, <1>5, Zenon DEF TypeOK
<1>7. CallsMatch'
  <2>1. \A q \in Rpcs : CallOK(rpc'[q])
    BY <1>1 DEF IInv, CallsMatch, CallOK
  <2>2. \A l \in Remote :
           /\ rpc'[l].client = "idle" <=> recv'[l] \in {"ready", "registered"}
           /\ recv'[l] # "waiting"
           /\ recv'[l] = "ok" => rpc'[l].client = "done" /\ rpc'[l].server = "replied"
    BY <1>0, <1>1, <1>3, GraphFacts DEF IInv, CallsMatch
  <2>3. \A i \in 1..Len(Order) : i > issued' => rpc'[Order[i]].client = "idle"
    BY <1>1, GraphFacts DEF IInv, CallsMatch
  <2> QED  BY <2>1, <2>2, <2>3 DEF CallsMatch
<1>8. WaitersAreRegistered'
  <2>1. \A l \in Remote : (rpc'[l].server = "busy") <=> (item'[l] = "waiter")
    <3>1. k \in Remote => recv'[k] # "waiting"
      BY <1>3
    <3> QED  BY <1>1, <1>4, <3>1, GraphFacts DEF IInv, WaitersAreRegistered
  <2>2. \A l \in Received \ Remote : (recv'[l] = "waiting") <=> (item'[l] = "waiter")
    BY <1>3, <1>4, GraphFacts DEF IInv, WaitersAreRegistered
  <2>3. \A l \in Keys : item'[l] = "waiter" => rdv'[SrcWorker(l)] = "live"
    <3>1. item'[k] = "waiter" => rdv'[SrcWorker(k)] = "live"
      BY <1>0, <1>1, <1>2, <1>3, <1>4 DEF IInv, WaitersAreRegistered
    <3> QED  BY <1>1, <1>4, <3>1 DEF IInv, WaitersAreRegistered
  <2> QED  BY <2>1, <2>2, <2>3 DEF WaitersAreRegistered
<1>9. Undisturbed => Undisturbed'
  BY <1>0, <1>1, <1>5 DEF Undisturbed
<1>10. Clean => Clean'
  BY <1>0, <1>1, <1>3, <1>5 DEF Clean
<1>11. pc # "ok"
  BY <1>0, NotOver
<1>12. \A l \in Fetches : item'[l] = item[l] /\ item[l] # "waiter"
  BY <1>4, GraphFacts DEF Received, IInv, RendezvousHeld
<1>13. \A l \in Received : recv'[l] = recv[l] \/ recv[l] \notin {"ok", "failed"}
  BY <1>0, <1>3
<1> QED  BY <1>1, <1>6, <1>7, <1>8, <1>9, <1>10, <1>11, <1>12, <1>13, CalmKeeps

\* A RecvTensor call is answered, or its handler waits in the rendezvous.
LEMMA RecvTensorKeeps == ASSUME IInv, NEW k \in Remote, RecvTensor(k) PROVE IInv'
<1> USE DEF masterVars, rdvVars, opVars
<1> DEFINE w == SrcWorker(k)
<1>0. /\ TypeOK /\ k \in Keys /\ w \in Workers /\ k \in Rpcs /\ k \in Received /\ k \notin Workers
      /\ rpc \in [Rpcs -> RpcType] /\ rpc[k] \in RpcType
      /\ item \in [Keys -> {"none", "value", "waiter", "received"}]
      /\ rdv \in [Workers -> {"none", "live", "aborted"}]
      /\ rpc[k].server = "sent"
  BY GraphFacts DEF IInv, TypeOK, RecvTensor
<1>1. UNCHANGED <<masterVars, recv, bad, opVars, delayed, outputs, cleanup>>
  BY DEF RecvTensor
<1>2. /\ rdv' \in [Workers -> {"none", "live", "aborted"}]
      /\ \A v \in Workers : rdv'[v] = rdv[v] \/ (rdv'[v] = "live" /\ rdv[v] = "none")
      /\ rdv'[w] # "none"
  <2>1. rdv' = FindOrCreate(w)
    BY DEF RecvTensor
  <2> QED  BY <1>0, <2>1, FindOrCreateEffect
<1>3. item[k] # "waiter"
  BY <1>0 DEF IInv, WaitersAreRegistered
<1>4. PICK c \in RpcType :
        /\ rpc' = [rpc EXCEPT ![k] = c]
        /\ c.client = rpc[k].client /\ c.tried = rpc[k].tried
        /\ \/ c.server = "replied" /\ c.reply = "error" /\ item' = item /\ rdv[w] = "aborted"
           \/ /\ c.server = "replied" /\ c.reply = "ok"
              /\ item' = [item EXCEPT ![k] = "received"]
           \/ /\ c.server = "busy" /\ c.reply = rpc[k].reply /\ rdv[w] # "aborted"
              /\ item' = [item EXCEPT ![k] = "waiter"]
  <2>1. CASE rdv[w] = "aborted"
    <3>1. rpc' = [rpc EXCEPT ![k] = Replied(rpc[k], "error")] /\ item' = item
      BY <2>1 DEF RecvTensor
    <3> QED  BY <1>0, <2>1, <3>1, RepliedFields
  <2>2. CASE rdv[w] # "aborted" /\ item[k] = "value"
    <3>1. /\ rpc' = [rpc EXCEPT ![k] = Replied(rpc[k], "ok")]
          /\ item' = [item EXCEPT ![k] = "received"]
      BY <2>2 DEF RecvTensor
    <3> QED  BY <1>0, <3>1, RepliedFields
  <2>3. CASE rdv[w] # "aborted" /\ item[k] # "value"
    <3>1. /\ rpc' = [rpc EXCEPT ![k] = [rpc[k] EXCEPT !.server = "busy"]]
          /\ item' = [item EXCEPT ![k] = "waiter"]
      BY <2>3 DEF RecvTensor
    <3> QED  BY <1>0, <2>3, <3>1, ServerFields
  <2> QED  BY <2>1, <2>2, <2>3
<1>5. /\ rpc' \in [Rpcs -> RpcType] /\ rpc'[k] = c
      /\ \A q \in Rpcs : q # k => rpc'[q] = rpc[q]
  BY <1>0, <1>4, OneCall
<1>6. /\ item' \in [Keys -> {"none", "value", "waiter", "received"}]
      /\ \A l \in Keys : l # k => item'[l] = item[l]
      /\ item'[k] = "waiter" <=> c.server = "busy"
      /\ c.server = "busy" => rdv[w] # "aborted"
      /\ c.reply = "error" => rdv[w] = "aborted"
  <2>1. rpc[k].reply = "none"
    BY <1>0 DEF IInv, CallsMatch, CallOK
  <2> QED  BY <1>0, <1>3, <1>4, <2>1
<1>7. TypeOK'
  BY <1>0, <1>1, <1>2, <1>5, <1>6, Zenon DEF TypeOK
<1>8. CallsMatch'
  <2>1. \A q \in Rpcs : CallOK(rpc'[q])
    BY <1>0, <1>4, <1>5 DEF IInv, CallsMatch, CallOK
  <2>2. \A l \in Remote :
           /\ rpc'[l].client = "idle" <=> recv'[l] \in {"ready", "registered"}
           /\ recv'[l] # "waiting"
           /\ recv'[l] = "ok" => rpc'[l].client = "done" /\ rpc'[l].server = "replied"
    BY <1>0, <1>1, <1>4, <1>5, GraphFacts DEF IInv, CallsMatch
  <2>3. \A i \in 1..Len(Order) : i > issued' => rpc'[Order[i]].client = "idle"
    <3>1. \A i \in 1..Len(Order) : rpc'[Order[i]] = rpc[Order[i]]
      BY <1>0, <1>5, GraphFacts
    <3> QED  BY <1>1, <3>1 DEF IInv, CallsMatch
  <2> QED  BY <2>1, <2>2, <2>3 DEF CallsMatch
<1>9. WaitersAreRegistered'
  <2>1. \A l \in Remote : (rpc'[l].server = "busy") <=> (item'[l] = "waiter")
    BY <1>5, <1>6, GraphFacts DEF IInv, WaitersAreRegistered
  <2>2. \A l \in Received \ Remote : (recv'[l] = "waiting") <=> (item'[l] = "waiter")
    BY <1>1, <1>6, GraphFacts DEF IInv, WaitersAreRegistered
  <2>3. \A l \in Keys : item'[l] = "waiter" => rdv'[SrcWorker(l)] = "live"
    <3>1. item'[k] = "waiter" => rdv'[w] = "live"
      BY <1>0, <1>2, <1>6
    <3> QED  BY <1>2, <1>6, <3>1, GraphFacts DEF IInv, WaitersAreRegistered
  <2> QED  BY <2>1, <2>2, <2>3 DEF WaitersAreRegistered
<1>10. Undisturbed => Undisturbed'
  <2>1. \A q \in Rpcs : rpc'[q].tried = rpc[q].tried
    BY <1>4, <1>5
  <2> QED  BY <1>1, <1>2, <2>1 DEF Undisturbed
<1>11. Clean => Clean'
  <2>1. \A q \in Rpcs : /\ rpc'[q].tried = rpc[q].tried
                        /\ rpc'[q].reply = "error" => rpc[q].reply = "error" \/ rdv[w] = "aborted"
    BY <1>4, <1>5, <1>6
  <2> QED  BY <1>0, <1>1, <1>2, <2>1 DEF Clean
<1>12. pc # "ok"
  BY <1>0, NotOver
<1>13. \A v \in Workers : rpc'[v] = rpc[v]
  BY <1>0, <1>5, GraphFacts
<1>14. \A l \in Fetches : item'[l] = item[l] /\ item[l] # "waiter"
  BY <1>0, <1>6, GraphFacts DEF Received, IInv, RendezvousHeld
<1> QED  BY <1>1, <1>2, <1>7, <1>8, <1>9, <1>10, <1>11, <1>12, <1>13, <1>14, CalmKeeps

\* The tensor goes to who waits for it, a handler or a Recv op, or into the table.
LEMMA SendKeeps == ASSUME IInv, NEW k \in Keys, Send(k) PROVE IInv'
<1> USE DEF masterVars, rdvVars, opVars
<1> DEFINE w == SrcWorker(k)
<1>0. /\ TypeOK /\ w \in Workers /\ w \in Rpcs
      /\ rpc \in [Rpcs -> RpcType]
      /\ item \in [Keys -> {"none", "value", "waiter", "received"}]
      /\ recv \in [Received -> {"ready", "waiting", "registered", "called", "ok", "failed"}]
      /\ send \in [Keys -> {"ready", "ok", "failed"}]
      /\ send[k] = "ready" /\ rpc[w].server = "busy"
  BY GraphFacts DEF IInv, TypeOK, Send, Runs, SrcWorker
<1>1. UNCHANGED <<masterVars, rdv, bad, kernel, cm, delayed, outputs, cleanup>>
  BY DEF Send
<1>2. pc # "ok"
  BY <1>0, NotOver
<1>3. k \in Fetches => item[k] # "waiter"
  BY DEF IInv, RendezvousHeld
<1>4. CASE rdv[w] = "aborted"
  <2>1. /\ send' \in [Keys -> {"ready", "ok", "failed"}]
        /\ \A l \in Keys : l # k => send'[l] = send[l]
        /\ send'[k] = "failed"
        /\ UNCHANGED <<rpc, item, recv>>
    BY <1>0, <1>4 DEF Send
  <2>2. TypeOK'
    BY <1>0, <1>1, <2>1, Zenon DEF TypeOK
  <2>3. CallsMatch' /\ WaitersAreRegistered'
    BY <1>1, <2>1 DEF IInv, CallsMatch, CallOK, WaitersAreRegistered
  <2>4. ~Undisturbed /\ ~Clean
    BY <1>0, <1>4 DEF Undisturbed, Clean
  <2>5. \A l \in Fetches : item'[l] = item[l] /\ item[l] # "waiter"
    BY <2>1 DEF IInv, RendezvousHeld
  <2>6. \A l \in Keys : /\ send'[l] = send[l] \/ (send[l] = "ready" /\ rpc[SrcWorker(l)].server = "busy")
                        /\ send'[l] = "ok" => send[l] = "ok"
    BY <1>0, <2>1
  <2> QED  BY <1>1, <1>2, <2>1, <2>2, <2>3, <2>4, <2>5, <2>6, GraphFacts, CalmKeeps
<1>5. CASE rdv[w] # "aborted"
  <2>1. /\ send' \in [Keys -> {"ready", "ok", "failed"}]
        /\ \A l \in Keys : l # k => send'[l] = send[l]
        /\ send'[k] = "ok"
        /\ item' \in [Keys -> {"none", "value", "waiter", "received"}]
        /\ \A l \in Keys : l # k => item'[l] = item[l]
        /\ item'[k] = IF item[k] = "waiter" THEN "received" ELSE "value"
    BY <1>0, <1>5 DEF Send
  <2>2. /\ recv' \in [Received -> {"ready", "waiting", "registered", "called", "ok", "failed"}]
        /\ \A l \in Received : recv'[l] = IF l = k /\ item[k] = "waiter" /\ k \notin Remote
                                          THEN "ok" ELSE recv[l]
    BY <1>0, <1>5 DEF Send
  <2>3. /\ rpc' \in [Rpcs -> RpcType]
        /\ \A q \in Rpcs : ~(q = k /\ k \in Remote /\ item[k] = "waiter") => rpc'[q] = rpc[q]
        /\ k \in Remote /\ item[k] = "waiter" =>
             /\ rpc'[k].client = rpc[k].client /\ rpc'[k].tried = rpc[k].tried
             /\ rpc'[k].server = "replied" /\ rpc'[k].reply = "ok"
    <3>1. CASE k \in Remote /\ item[k] = "waiter"
      <4>1. rpc' = [rpc EXCEPT ![k] = Replied(rpc[k], "ok")] /\ k \in Rpcs /\ rpc[k] \in RpcType
        BY <1>0, <1>5, <3>1, GraphFacts DEF Send
      <4> QED  BY <1>0, <3>1, <4>1, OneCall, RepliedFields
    <3>2. CASE ~(k \in Remote /\ item[k] = "waiter")
      BY <1>0, <1>5, <3>2 DEF Send
    <3> QED  BY <3>1, <3>2
  <2>4. TypeOK'
    BY <1>0, <1>1, <2>1, <2>2, <2>3, Zenon DEF TypeOK
  <2>5. k \in Remote /\ item[k] = "waiter" => rpc[k].server = "busy"
    BY DEF IInv, WaitersAreRegistered
  <2>6. CallsMatch'
    <3>1. \A q \in Rpcs : CallOK(rpc'[q])
      BY <2>3, <2>5 DEF IInv, CallsMatch, CallOK
    <3>2. \A l \in Remote :
             /\ rpc'[l].client = "idle" <=> recv'[l] \in {"ready", "registered"}
             /\ recv'[l] # "waiting"
             /\ recv'[l] = "ok" => rpc'[l].client = "done" /\ rpc'[l].server = "replied"
      BY <2>2, <2>3, GraphFacts DEF IInv, CallsMatch
    <3>3. \A i \in 1..Len(Order) : i > issued' => rpc'[Order[i]].client = "idle"
      BY <1>0, <1>1, <2>3, GraphFacts DEF IInv, CallsMatch
    <3> QED  BY <3>1, <3>2, <3>3 DEF CallsMatch
  <2>7. WaitersAreRegistered'
    <3>1. \A l \in Remote : (rpc'[l].server = "busy") <=> (item'[l] = "waiter")
      <4>1. \A l \in Remote : l # k => rpc'[l] = rpc[l] /\ item'[l] = item[l]
        BY <2>1, <2>3, GraphFacts
      <4>2. k \in Remote => ((rpc'[k].server = "busy") <=> (item'[k] = "waiter"))
        BY <2>1, <2>3, GraphFacts DEF IInv, WaitersAreRegistered
      <4> QED  BY <4>1, <4>2 DEF IInv, WaitersAreRegistered
    <3>2. \A l \in Received \ Remote : (recv'[l] = "waiting") <=> (item'[l] = "waiter")
      BY <2>1, <2>2, GraphFacts DEF IInv, WaitersAreRegistered
    <3>3. \A l \in Keys : item'[l] = "waiter" => rdv'[SrcWorker(l)] = "live"
      BY <1>1, <2>1 DEF IInv, WaitersAreRegistered
    <3> QED  BY <3>1, <3>2, <3>3 DEF WaitersAreRegistered
  <2>8. \A q \in Rpcs : /\ rpc'[q].tried = rpc[q].tried
                        /\ rpc'[q].reply = "error" => rpc[q].reply = "error"
    BY <2>3
  <2>9. Undisturbed => Undisturbed'
    BY <1>1, <2>8 DEF Undisturbed
  <2>10. Clean => Clean'
    BY <1>1, <2>1, <2>2, <2>8 DEF Clean
  <2>11. \A v \in Workers : rpc'[v] = rpc[v]
    BY <2>3, GraphFacts
  <2>12. \A l \in Fetches : /\ item'[l] # "waiter" /\ (item[l] = "value" => item'[l] = "value")
                            /\ send'[l] = "ok" => send[l] = "ok" \/ item'[l] = "value"
    BY <1>3, <2>1, GraphFacts DEF IInv, RendezvousHeld
  <2>13. \A l \in Received : recv'[l] = recv[l] \/ recv[l] \notin {"ok", "failed"}
    BY <2>2, GraphFacts DEF IInv, WaitersAreRegistered
  <2>14. \A l \in Keys : send'[l] = send[l] \/ (send[l] = "ready" /\ rpc[SrcWorker(l)].server = "busy")
    BY <1>0, <2>1
  <2> QED  BY <1>1, <1>2, <2>4, <2>6, <2>7, <2>9, <2>10, <2>11, <2>12, <2>13, <2>14, CalmKeeps
<1> QED  BY <1>4, <1>5

-----------------------------------------------------------------------------
(* The handler of RunGraph: it starts the executors and answers.           *)

\* A RunGraph call whose handler has not answered is not counted as done.
LEMMA NotCounted ==
  ASSUME IInv, NEW w \in Workers, rpc[w].server # "replied"
  PROVE  rpc[w].reply = "none" /\ (status = "ok" => rpc[w].client # "done")
BY GraphFacts DEF IInv, CallsMatch, CallOK, OkReplies

LEMMA RunGraphKeeps == ASSUME IInv, NEW w \in Workers, RunGraph(w) PROVE IInv'
<1> USE DEF masterVars, rdvVars, opVars
<1>0. /\ TypeOK /\ w \in Rpcs /\ rpc \in [Rpcs -> RpcType] /\ rpc[w] \in RpcType
      /\ rdv \in [Workers -> {"none", "live", "aborted"}]
      /\ rpc[w].server = "sent"
  BY GraphFacts DEF IInv, TypeOK, RunGraph
<1>1. UNCHANGED <<masterVars, item, recv, bad, opVars, delayed, outputs, cleanup>>
  BY DEF RunGraph
<1>2. /\ rdv' \in [Workers -> {"none", "live", "aborted"}]
      /\ \A v \in Workers : rdv'[v] = rdv[v] \/ (rdv'[v] = "live" /\ rdv[v] = "none")
  <2>1. rdv' = FindOrCreate(w) \/ rdv' = rdv
    BY DEF RunGraph
  <2> QED  BY <1>0, <2>1, FindOrCreateEffect
<1>3. PICK c \in RpcType :
        /\ rpc' = [rpc EXCEPT ![w] = c]
        /\ c.client = rpc[w].client /\ c.tried = rpc[w].tried
        /\ \/ c.server = "replied" /\ c.reply = "error" /\ (w \in MayMiss \/ rdv[w] = "aborted")
           \/ c.server = "busy" /\ c.reply = rpc[w].reply /\ rdv'[w] # "none"
  <2>1. CASE RejectGraph(w) /\ (w \in MayMiss \/ rdv[w] = "aborted")
    BY <1>0, <2>1, RepliedFields DEF RejectGraph
  <2>2. CASE rdv' = FindOrCreate(w) /\ rpc' = [rpc EXCEPT ![w].server = "busy"]
    <3>1. rpc' = [rpc EXCEPT ![w] = [rpc[w] EXCEPT !.server = "busy"]]
      BY <2>2
    <3>2. rdv'[w] # "none"
      BY <1>0, <2>2, FindOrCreateEffect
    <3> QED  BY <1>0, <3>1, <3>2, ServerFields
  <2> QED  BY <2>1, <2>2 DEF RunGraph
<1>4. /\ rpc' \in [Rpcs -> RpcType] /\ rpc'[w] = c
      /\ \A q \in Rpcs : q # w => rpc'[q] = rpc[q]
  BY <1>0, <1>3, OneCall
<1>5. pc # "ok" /\ rpc[w].reply = "none" /\ (status = "ok" => rpc[w].client # "done")
  BY <1>0, NotOver, NotCounted
<1>6. TypeOK'
  BY <1>0, <1>1, <1>2, <1>4, Zenon DEF TypeOK
<1>7. CallsMatch'
  <2>1. \A q \in Rpcs : CallOK(rpc'[q])
    BY <1>0, <1>3, <1>4, <1>5 DEF IInv, CallsMatch, CallOK
  <2>2. \A l \in Remote :
           /\ rpc'[l].client = "idle" <=> recv'[l] \in {"ready", "registered"}
           /\ recv'[l] # "waiting"
           /\ recv'[l] = "ok" => rpc'[l].client = "done" /\ rpc'[l].server = "replied"
    BY <1>1, <1>4, GraphFacts DEF IInv, CallsMatch
  <2>3. \A i \in 1..Len(Order) : i > issued' => rpc'[Order[i]].client = "idle"
    <3>1. \A i \in 1..Len(Order) : rpc'[Order[i]].client = rpc[Order[i]].client
      BY <1>3, <1>4, GraphFacts
    <3> QED  BY <1>1, <3>1 DEF IInv, CallsMatch
  <2> QED  BY <2>1, <2>2, <2>3 DEF CallsMatch
<1>8. WaitersAreRegistered'
  <2>1. \A l \in Remote : rpc'[l] = rpc[l]
    BY <1>4, GraphFacts
  <2>2. \A l \in Keys : item'[l] = "waiter" => rdv'[SrcWorker(l)] = "live"
    BY <1>1, <1>2, GraphFacts DEF IInv, WaitersAreRegistered
  <2> QED  BY <1>1, <2>1, <2>2 DEF IInv, WaitersAreRegistered
<1>9. RendezvousHeld'
  <2>1. \A v \in Workers : rpc'[v].server = "busy" => rdv'[v] # "none"
    BY <1>2, <1>3, <1>4, GraphFacts DEF IInv, RendezvousHeld
  <2>2. \A k \in Keys : send'[k] # "ready" => rpc'[SrcWorker(k)].server \in {"busy", "replied"}
    BY <1>1, <1>3, <1>4, GraphFacts DEF IInv, RendezvousHeld
  <2>3. \A v \in Workers : outputs'[v] # "none" => rpc'[v].server = "replied"
    BY <1>0, <1>1, <1>4, GraphFacts DEF IInv, RendezvousHeld
  <2> QED  BY <1>1, <2>1, <2>2, <2>3 DEF IInv, RendezvousHeld
<1>10. Failure <=> Failure'
  BY <1>1 DEF Failure
<1>11. FailureLeavesTrace'
  <2>1. \A q \in Rpcs : rpc'[q].tried = rpc[q].tried
    BY <1>3, <1>4
  <2> QED  BY <1>1, <1>2, <1>10, <2>1 DEF IInv, FailureLeavesTrace, Undisturbed
<1>12. OkReplies'
  <2>1. \A v \in Workers : rpc'[v].reply = "ok" => rpc[v].reply = "ok"
    BY <1>3, <1>4, <1>5, GraphFacts
  <2>2. status' = "ok" => \A v \in Workers : rpc'[v].client = "done" => rpc'[v].reply = "ok"
    BY <1>1, <1>3, <1>4, <1>5, GraphFacts DEF IInv, OkReplies
  <2>3. Failure' \/ \A k \in Fetches :
          send'[k] = "ok" /\ rpc'[SrcWorker(k)].server = "busy" => item'[k] = "value"
    <3>1. \A k \in Keys : send[k] = "ok" => SrcWorker(k) # w
      BY <1>0 DEF IInv, RendezvousHeld
    <3> QED  BY <1>1, <1>4, <1>10, <3>1, GraphFacts DEF IInv, OkReplies
  <2> QED  BY <1>1, <1>10, <2>1, <2>2, <2>3 DEF IInv, OkReplies
<1>13. OkReturns'
  BY <1>1, <1>5 DEF OkReturns
<1>14. TracedBack'
  <2>1. RootCause => RootCause'
    <3>1. \A v \in Workers : rpc[v].reply = "error" => rpc'[v].reply = "error"
      BY <1>4, <1>5, GraphFacts
    <3> QED  BY <1>1, <3>1, GraphAssumption DEF RootCause
  <2>2. CASE c.reply = "error" /\ w \in MayMiss
    <3>1. outputs'[w] = "none"
      BY <1>0, <1>1 DEF IInv, RendezvousHeld
    <3> QED  BY <1>4, <2>2, <3>1 DEF TracedBack, RootCause
  <2>3. CASE c.reply = "error" /\ rdv[w] = "aborted"
    BY <2>1, <2>3 DEF IInv, TracedBack, Clean
  <2>4. CASE c.reply # "error"
    <3>1. \A q \in Rpcs : /\ rpc'[q].tried = rpc[q].tried
                          /\ rpc'[q].reply = "error" => rpc[q].reply = "error"
      BY <1>3, <1>4, <2>4
    <3>2. Clean => Clean'
      BY <1>1, <1>2, <3>1 DEF Clean
    <3> QED  BY <2>1, <3>2 DEF IInv, TracedBack
  <2> QED  BY <1>3, <1>5, <2>2, <2>3, <2>4
<1> QED  BY <1>6, <1>7, <1>8, <1>9, <1>11, <1>12, <1>13, <1>14 DEF IInv

\* When nothing failed, a worker whose units are done has run all of its ops.
LEMMA CleanBarrier ==
  ASSUME IInv, Clean, NEW w \in Workers, \A u \in UnitsOf(w) : UnitDone(u),
         \A u \in Units : kernel[u] # "failed"
  PROVE  BarrierStatus(w) = "ok"
<1>1. \A u \in UnitsOf(w) : kernel[u] = "ok"
  BY DEF UnitsOf, UnitDone, IInv, TypeOK, Clean
<1>2. \A k \in Received : DstWorker(k) = w => recv[k] = "ok"
  <2>1. \A k \in Received : DstWorker(k) = w => RecvEnded(k)
    BY GraphFacts DEF UnitDone, UnitsOf, DstWorker
  <2> QED  BY <2>1 DEF RecvEnded, Clean
<1>3. \A k \in Keys : SrcWorker(k) = w => send[k] = "ok"
  <2>1. \A k \in Keys : SrcWorker(k) = w => CanSend(k)
    <3> SUFFICES ASSUME NEW k \in Keys, SrcWorker(k) = w PROVE CanSend(k)
      OBVIOUS
    <3>1. kernel[Src[k]] = "ok"
      BY <1>1, GraphFacts DEF UnitsOf, SrcWorker
    <3>2. \A n \in Needs[k] : n \in Received /\ DstWorker(n) = w
      BY GraphAssumption DEF SrcWorker, DstWorker
    <3> QED  BY <1>2, <3>1, <3>2 DEF CanSend
  <2>2. \A k \in Keys : SrcWorker(k) = w => send[k] # "ready"
    BY <2>1, GraphFacts DEF UnitDone, UnitsOf, SrcWorker
  <2> QED  BY <2>2 DEF Clean, IInv, TypeOK
<1> QED  BY <1>1, <1>2, <1>3 DEF BarrierStatus

LEMMA RunGraphReturnsKeeps == ASSUME IInv, NEW w \in Workers, RunGraphReturns(w) PROVE IInv'
<1> USE DEF masterVars, rdvVars, opVars
<1> DEFINE s == BarrierStatus(w)
<1>0. /\ TypeOK /\ w \in Rpcs /\ rpc \in [Rpcs -> RpcType] /\ rpc[w] \in RpcType
      /\ rdv \in [Workers -> {"none", "live", "aborted"}]
      /\ outputs \in [Workers -> {"none", "full", "empty"}]
      /\ item \in [Keys -> {"none", "value", "waiter", "received"}]
      /\ rpc[w].server = "busy" /\ s \in {"ok", "error"}
  BY GraphFacts DEF IInv, TypeOK, RunGraphReturns, BarrierStatus
<1>1. UNCHANGED <<masterVars, recv, bad, opVars, delayed, cleanup>>
  BY DEF RunGraphReturns
<1>2. /\ rdv' \in [Workers -> {"none", "live", "aborted"}]
      /\ \A v \in Workers : rdv'[v] = rdv[v] \/ (rdv'[v] = "live" /\ rdv[v] = "none")
  <2>1. rdv' = FindOrCreate(w) \/ rdv' = rdv
    BY DEF RunGraphReturns
  <2> QED  BY <1>0, <2>1, FindOrCreateEffect
<1>3. PICK c \in RpcType :
        /\ rpc' = [rpc EXCEPT ![w] = c]
        /\ c.client = rpc[w].client /\ c.tried = rpc[w].tried
        /\ c.server = "replied" /\ c.reply = s
  <2>1. rpc' = [rpc EXCEPT ![w] = Replied(rpc[w], s)]
    BY DEF RunGraphReturns
  <2> QED  BY <1>0, <2>1, RepliedFields
<1>4. /\ rpc' \in [Rpcs -> RpcType] /\ rpc'[w] = c
      /\ \A q \in Rpcs : q # w => rpc'[q] = rpc[q]
  BY <1>0, <1>3, OneCall
<1>5. pc # "ok" /\ rpc[w].reply = "none" /\ (status = "ok" => rpc[w].client # "done")
  BY <1>0, NotOver, NotCounted
<1>6. /\ outputs' \in [Workers -> {"none", "full", "empty"}]
      /\ \A v \in Workers : v # w => outputs'[v] = outputs[v]
      /\ s = "ok" /\ (\A k \in FetchesOf(w) : item[k] = "value") => outputs'[w] = "full"
      /\ s = "error" => outputs'[w] = outputs[w]
  BY <1>0 DEF RunGraphReturns
<1>7. /\ item' \in [Keys -> {"none", "value", "waiter", "received"}]
      /\ \A k \in Keys : item'[k] = item[k]
           \/ (k \in FetchesOf(w) /\ item[k] = "value" /\ item'[k] = "received")
  <2>1. CASE s = "ok"
    <3>1. item' = [k \in Keys |-> IF k \in FetchesOf(w) /\ item[k] = "value"
                                  THEN "received" ELSE item[k]]
      BY <2>1 DEF RunGraphReturns
    <3> QED  BY <1>0, <3>1
  <2>2. CASE s # "ok"
    BY <1>0, <2>2 DEF RunGraphReturns
  <2> QED  BY <2>1, <2>2
<1> HIDE DEF s
<1>8. TypeOK'
  BY <1>0, <1>1, <1>2, <1>4, <1>6, <1>7, Zenon DEF TypeOK
<1>9. CallsMatch'
  <2>1. \A q \in Rpcs : CallOK(rpc'[q])
    BY <1>0, <1>3, <1>4 DEF IInv, CallsMatch, CallOK
  <2>2. \A l \in Remote :
           /\ rpc'[l].client = "idle" <=> recv'[l] \in {"ready", "registered"}
           /\ recv'[l] # "waiting"
           /\ recv'[l] = "ok" => rpc'[l].client = "done" /\ rpc'[l].server = "replied"
    BY <1>1, <1>4, GraphFacts DEF IInv, CallsMatch
  <2>3. \A i \in 1..Len(Order) : i > issued' => rpc'[Order[i]].client = "idle"
    <3>1. \A i \in 1..Len(Order) : rpc'[Order[i]].client = rpc[Order[i]].client
      BY <1>3, <1>4, GraphFacts
    <3> QED  BY <1>1, <3>1 DEF IInv, CallsMatch
  <2> QED  BY <2>1, <2>2, <2>3 DEF CallsMatch
<1>10. WaitersAreRegistered'
  <2>1. \A l \in Remote : rpc'[l] = rpc[l]
    BY <1>4, GraphFacts
  <2>2. \A l \in Keys : item'[l] = "waiter" <=> item[l] = "waiter"
    BY <1>7
  <2>3. \A l \in Keys : item'[l] = "waiter" => rdv'[SrcWorker(l)] = "live"
    BY <1>2, <2>2, GraphFacts DEF IInv, WaitersAreRegistered
  <2> QED  BY <1>1, <2>1, <2>2, <2>3, GraphFacts DEF IInv, WaitersAreRegistered
<1>11. RendezvousHeld'
  <2>1. \A v \in Workers : rpc'[v].server = "busy" => rdv'[v] # "none"
    BY <1>2, <1>3, <1>4, GraphFacts DEF IInv, RendezvousHeld
  <2>2. \A k \in Keys : send'[k] # "ready" => rpc'[SrcWorker(k)].server \in {"busy", "replied"}
    BY <1>1, <1>3, <1>4, GraphFacts DEF IInv, RendezvousHeld
  <2>3. \A v \in Workers : outputs'[v] # "none" => rpc'[v].server = "replied"
    BY <1>3, <1>4, <1>6, GraphFacts DEF IInv, RendezvousHeld
  <2>4. \A k \in Fetches : item'[k] # "waiter"
    BY <1>7, GraphFacts DEF IInv, RendezvousHeld
  <2> QED  BY <1>1, <2>1, <2>2, <2>3, <2>4 DEF IInv, RendezvousHeld
<1>12. Failure <=> Failure'
  BY <1>1 DEF Failure
<1>13. FailureLeavesTrace'
  <2>1. \A q \in Rpcs : rpc'[q].tried = rpc[q].tried
    BY <1>3, <1>4
  <2> QED  BY <1>1, <1>2, <1>12, <2>1 DEF IInv, FailureLeavesTrace, Undisturbed
<1>14. OkReplies'
  <2>1. s = "ok" =>
          /\ \A u \in Units : WorkerOf[u] = w => kernel[u] = "ok"
          /\ \A k \in Received : DstWorker(k) = w => recv[k] = "ok"
          /\ \A k \in Keys : SrcWorker(k) = w => send[k] = "ok"
    BY DEF s, BarrierStatus, UnitsOf
  <2>2. s = "ok" => Failure \/ outputs'[w] = "full"
    <3>1. ASSUME s = "ok", ~Failure PROVE \A k \in FetchesOf(w) : item[k] = "value"
      BY <1>0, <2>1, <3>1, GraphFacts DEF IInv, OkReplies, FetchesOf
    <3> QED  BY <1>6, <3>1
  <2>3. \A v \in Workers : rpc'[v].reply = "ok" =>
          /\ \A u \in Units : WorkerOf[u] = v => kernel'[u] = "ok"
          /\ \A k \in Received : DstWorker(k) = v => recv'[k] = "ok"
          /\ \A k \in Keys : SrcWorker(k) = v => send'[k] = "ok"
          /\ Failure' \/ outputs'[v] = "full"
    <3> SUFFICES ASSUME NEW v \in Workers, rpc'[v].reply = "ok"
                 PROVE  /\ \A u \in Units : WorkerOf[u] = v => kernel'[u] = "ok"
                        /\ \A k \in Received : DstWorker(k) = v => recv'[k] = "ok"
                        /\ \A k \in Keys : SrcWorker(k) = v => send'[k] = "ok"
                        /\ Failure' \/ outputs'[v] = "full"
      OBVIOUS
    <3>1. CASE v = w
      BY <1>1, <1>3, <1>4, <1>12, <2>1, <2>2, <3>1
    <3>2. CASE v # w
      BY <1>1, <1>4, <1>6, <1>12, <3>2, GraphFacts DEF IInv, OkReplies
    <3> QED  BY <3>1, <3>2
  <2>4. status' = "ok" => \A v \in Workers : rpc'[v].client = "done" => rpc'[v].reply = "ok"
    BY <1>1, <1>3, <1>4, <1>5, GraphFacts DEF IInv, OkReplies
  <2>5. Failure' \/ \A k \in Fetches :
          send'[k] = "ok" /\ rpc'[SrcWorker(k)].server = "busy" => item'[k] = "value"
    <3>1. \A k \in Fetches : rpc'[SrcWorker(k)].server = "busy" => SrcWorker(k) # w /\ item'[k] = item[k]
      BY <1>3, <1>4, <1>7, GraphFacts DEF FetchesOf
    <3> QED  BY <1>1, <1>4, <1>12, <3>1, GraphFacts DEF IInv, OkReplies
  <2> QED  BY <2>3, <2>4, <2>5 DEF OkReplies
<1>15. OkReturns'
  BY <1>1, <1>5 DEF OkReturns
<1>16. TracedBack'
  <2>1. RootCause => RootCause'
    <3>1. \A v \in Workers : rpc[v].reply = "error" =>
            rpc'[v].reply = "error" /\ outputs'[v] = outputs[v]
      BY <1>4, <1>5, <1>6, GraphFacts
    <3> QED  BY <1>1, <3>1, GraphAssumption DEF RootCause
  <2>2. ASSUME Clean, ~RootCause PROVE Clean'
    <3>1. s = "ok"
      BY <2>2, CleanBarrier DEF s, RunGraphReturns, RootCause
    <3>2. \A q \in Rpcs : /\ rpc'[q].tried = rpc[q].tried
                          /\ rpc'[q].reply = "error" => rpc[q].reply = "error"
      BY <1>3, <1>4, <3>1
    <3> QED  BY <1>1, <1>2, <2>2, <3>2 DEF Clean
  <2> QED  BY <2>1, <2>2 DEF IInv, TracedBack
<1> QED  BY <1>8, <1>9, <1>10, <1>11, <1>13, <1>14, <1>15, <1>16 DEF IInv

-----------------------------------------------------------------------------
(* The theorems.                                                           *)

LEMMA StepIInv == IInv /\ [Next]_vars => IInv'
<1> SUFFICES ASSUME IInv, [Next]_vars PROVE IInv'
  OBVIOUS
<1>1. CASE UNCHANGED vars
  <2>1. UNCHANGED <<pc, issued, status, hooked, closed, asked, rpc, rdv, item, recv, bad,
                    send, kernel, cm, delayed, outputs, cleanup>>
    BY <1>1 DEF vars, masterVars, rdvVars, opVars
  <2>2. TypeOK' /\ CallsMatch' /\ WaitersAreRegistered' /\ RendezvousHeld'
    BY <2>1 DEF IInv, TypeOK, CallsMatch, CallOK, WaitersAreRegistered, RendezvousHeld
  <2>3. FailureLeavesTrace' /\ OkReplies' /\ OkReturns' /\ TracedBack'
    BY <2>1 DEF IInv, FailureLeavesTrace, Failure, Undisturbed, OkReplies, OkReturns, AllDone,
                TracedBack, Clean, RootCause
  <2> QED  BY <2>2, <2>3 DEF IInv
<1>2. CASE Master
  BY <1>2, IssueKeeps, HookKeeps, StepReturnsKeeps, RunGraphDoneKeeps DEF Master
<1>3. CASE \E w \in Workers : Service(w)
  BY <1>3, RunGraphKeeps, RunGraphCancelledKeeps, RunGraphReturnsKeeps, DelayedAbortKeeps,
     CleanupGraphKeeps DEF Service
<1>4. CASE \E k \in Remote : Transfer(k)
  BY <1>4, RecvTensorKeeps, RecvTensorCancelledKeeps, StartRTCallKeeps, RecvTensorDoneKeeps
     DEF Transfer
<1>5. CASE \E k \in Received : RecvAsync(k)
  BY <1>5, RecvAsyncKeeps
<1>6. CASE \E k \in Keys : Send(k)
  BY <1>6, SendKeeps
<1>7. CASE \E u \in Units : Kernel(u)
  BY <1>7, KernelOkKeeps, KernelFailsKeeps DEF Kernel, KernelCancelled
<1>8. CASE CloseSession \/ CancelRunStep
  BY <1>8, CloseSessionKeeps, CancelRunStepKeeps
<1>9. CASE \E r \in Rpcs : LoseRequest(r)
  BY <1>9, LoseRequestKeeps
<1>10. CASE \E u \in Blocking : KernelOk(u) \/ KernelFails(u, "failed")
  BY <1>10, KernelOkKeeps, KernelFailsKeeps, GraphAssumption
<1> QED  BY <1>1, <1>2, <1>3, <1>4, <1>5, <1>6, <1>7, <1>8, <1>9, <1>10 DEF Next, Work

LEMMA IInvInvariant == Spec => []IInv
BY InitIInv, StepIInv, PTL DEF Spec

\* In every graph the state stays well formed and nobody waits unheard: a handler of
\* RecvTensor that is busy, or a Recv op that waits, has its waiter in the table of a
\* live rendezvous, whatever sends, aborts and cleanups have come in which order.
THEOREM RendezvousStaysConsistent == Spec => []RendezvousConsistent
<1>1. IInv => RendezvousConsistent
  BY DEF IInv, RendezvousConsistent
<1> QED  BY <1>1, IInvInvariant, PTL

\* When RunPartitions returns OK, every op of every worker has succeeded, every fetch
\* is in a response, and no call, waiter or delayed abort is left for CleanupGraph.
THEOREM OkAlwaysMeansOver == Spec => []OkMeansOver
<1>1. IInv => OkMeansOver
  BY OkFacts DEF OkMeansOver, OkMeansComplete, OkLeavesNothing
<1> QED  BY <1>1, IInvInvariant, PTL

\* No rendezvous is aborted, no op fails and no call is cancelled without a cause: a
\* kernel or a worker that failed, or a client that gave the step up.
THEOREM AbortsHaveACause == Spec => []NoSpuriousAbort
<1>1. IInv => NoSpuriousAbort
  BY DEF IInv, TracedBack, Clean, NoSpuriousAbort
<1> QED  BY <1>1, IInvInvariant, PTL
============================================================================
