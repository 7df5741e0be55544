---------------------------- MODULE RdmaTransport ----------------------------
(***************************************************************************)
(* The RDMA tensor transport: one channel between the process that owns a  *)
(* tensor ("src") and the one that receives it ("dst"), and the tensor     *)
(* buffer of one rendezvous key, used by the steps that send that key.     *)
(*                                                                         *)
(* A channel has a message buffer per direction, freed by an ack of the    *)
(* peer, and a tensor buffer on each side that is created on demand.  Per  *)
(* process there is one thread that handles work completions (Process_CQ)  *)
(* and a pool of threads that run closures.                                *)
(***************************************************************************)
EXTENDS Naturals, Sequences, SequencesExt, FiniteSets

CONSTANTS
  Steps,          \* the step ids, each requests the key at most once
  TensorSizes,    \* the sizes the tensors of the steps may have: functions
                  \* from steps to sizes
  MaxOutstanding  \* how many steps may wait for the key at the same time

ASSUME SizesAssumption == TensorSizes \subseteq [Steps -> Nat \ {0}]
ASSUME OutstandingAssumption == MaxOutstanding \in Nat \ {0}

VARIABLES
  size,       \* size[s]: size of the tensor of step s, serialized
  requested,  \* the steps for which RecvFromRemoteAsync was called
  callbacks,  \* callback_table_ of the destination
  got,        \* got[s]: the step whose tensor was handed to the callback of s
  mb,         \* mb[e]: tx_message_buffer_ of e
  rx,         \* rx[e]: what is in the memory of rx_message_buffer_ of e
  wire,       \* wire[e]: the writes posted by e on its queue pair
  arrived,    \* arrived[e]: receive completions that e has not handled
  sent,       \* sent[e]: write completions that e has not handled
  pool,       \* pool[e]: SendNextItem closures scheduled on message buffers
  tb,         \* the tensor buffer of the source
  tasks,      \* SendNextItem closures scheduled on tb
  sending,    \* threads of the source that hold a key popped from tb
  response,   \* how far Process_CQ is in handling a BUFFER_RESPONSE
  rb,         \* the tensor buffer of the destination
  recvDone,   \* RunRecvCallback closures scheduled at the destination
  fatal,      \* a CHECK failed: the process is gone
  raced,      \* history: a tensor was sent while BUFFER_RESPONSE was handled
  resized,    \* history: the tensor buffer was replaced by a larger one
  missed      \* history: a key was put back after the last wake-up

chanVars == <<mb, rx, wire, arrived, sent, pool>>
srcVars  == <<tb, tasks, sending, response>>
dstVars  == <<rb, recvDone, callbacks, got>>
history  == <<raced, resized, missed>>
vars     == <<size, requested, fatal, chanVars, srcVars, dstVars, history>>

Ends == {"src", "dst"}
Peer(e) == IF e = "src" THEN "dst" ELSE "src"
None == 0
Status == {"none", "idle", "busy"}

ASSUME StepsAssumption == Steps \subseteq Nat \ {0} /\ IsFiniteSet(Steps)

Sizes == UNION {Range(f) : f \in TensorSizes}

\* Addresses of the buffers the destination creates: one per growth at most.
Addrs == 1..Cardinality(Steps)

Message ==
  [type : {"TENSOR_REQUEST"}, step : Steps]
    \cup [type : {"BUFFER_IDLE"}]
    \cup [type : {"BUFFER_REQUEST"}, size : Sizes]
    \cup [type : {"BUFFER_RESPONSE"}, size : Sizes, addr : Addrs]

NoMessage              == [type |-> "NONE"]
TensorRequest(s)       == [type |-> "TENSOR_REQUEST", step |-> s]
BufferIdle             == [type |-> "BUFFER_IDLE"]
BufferRequest(n)       == [type |-> "BUFFER_REQUEST", size |-> n]

\* Faulty: the answer leaves out where the buffer is.
BufferResponseNowhere(n, a) == [type |-> "BUFFER_RESPONSE", size |-> n, addr |-> None]

BufferResponse(n, a)   == [type |-> "BUFFER_RESPONSE", size |-> n, addr |-> a]

\* RDMA writes: a message, an ack, or a tensor to the memory region addr.
MessageWrite(m)        == [to |-> "message", msg |-> m]
AckWrite               == [to |-> "ack"]
TensorWrite(s, n, a)   == [to |-> "tensor", step |-> s, size |-> n, addr |-> a]

TypeOK ==
  /\ size \in TensorSizes
  /\ requested \subseteq Steps
  /\ callbacks \subseteq Steps /\ recvDone \in [Steps -> Nat]
  /\ got \in [Steps -> Steps \cup {None}]
  /\ \A e \in Ends :
       /\ mb[e].q \in Seq(Message) /\ mb[e].local \in Status /\ mb[e].remote \in Status
       /\ rx[e] \in Message \cup {NoMessage}
       /\ \A i \in DOMAIN arrived[e] : arrived[e][i] \in {"message", "ack", "tensor"}
       /\ \A i \in DOMAIN sent[e] : sent[e][i] \in {"message", "tensor"}
       /\ pool[e] \in Nat
  /\ tb.q \in Seq(Steps) /\ tb.local \in Status /\ tb.remote \in Status
  /\ tb.size \in Sizes \cup {None} /\ tb.addr \in Addrs \cup {None}
  /\ tasks \in Nat /\ response \in 0..2
  /\ sending \subseteq [step : Steps, at : {"recv", "create", "ask", "write", "putback"}]
  /\ rb.addr \in Addrs \cup {None} /\ rb.size \in Sizes \cup {None} /\ rb.data \in Steps \cup {None}
  /\ fatal \in BOOLEAN /\ raced \in BOOLEAN /\ resized \in BOOLEAN /\ missed \in BOOLEAN

\* The channels are set up: both message buffers exist and know their peer.
Init ==
  /\ size \in TensorSizes
  /\ requested = {} /\ callbacks = {} /\ recvDone = [s \in Steps |-> 0]
  /\ got = [s \in Steps |-> None]
  /\ mb = [e \in Ends |-> [q |-> << >>, local |-> "idle", remote |-> "idle"]]
  /\ rx = [e \in Ends |-> NoMessage]
  /\ wire = [e \in Ends |-> << >>]
  /\ arrived = [e \in Ends |-> << >>]
  /\ sent = [e \in Ends |-> << >>]
  /\ pool = [e \in Ends |-> 0]
  /\ tb = [q |-> << >>, local |-> "none", remote |-> "none", size |-> None, addr |-> None]
  /\ tasks = 0 /\ sending = {} /\ response = 0
  /\ rb = [addr |-> None, size |-> None, data |-> None]
  /\ fatal = FALSE /\ raced = FALSE /\ resized = FALSE /\ missed = FALSE

-----------------------------------------------------------------------------
(* Buffers.  A channel state is the triple of message buffers, posted      *)
(* writes and waiting closures that the operators below transform.         *)

\* Faulty: the ack of the last message is not waited for.
CanSendUnacked(b) ==
  b.q # << >> /\ b.local = "idle"

CanSend(b) ==
  b.q # << >> /\ b.local = "idle" /\ b.remote = "idle"

\* RdmaMessageBuffer::SendNextItem on the buffer b, with w the posted writes.
SendNextMessage(b, w) ==
  IF CanSend(b)
  THEN [buf  |-> [q |-> Tail(b.q), local |-> "busy", remote |-> "busy"],
        wire |-> Append(w, MessageWrite(Head(b.q)))]
  ELSE [buf |-> b, wire |-> w]

EnqueueItem(b, x) ==
  [b EXCEPT !.q = Append(@, x)]

\* Enqueue the messages ms (at most one), then SendNextItem, after posting acks.
Transmit(e, ms, acks) ==
  LET sn == SendNextMessage([mb[e] EXCEPT !.q = @ \o ms], wire[e] \o acks)
  IN  /\ mb'   = [mb   EXCEPT ![e] = sn.buf]
      /\ wire' = [wire EXCEPT ![e] = sn.wire]

\* RdmaAckBuffer::SendNextItem: an ack is posted at once, whatever is in flight.
SendAck(e) ==
  /\ wire' = [wire EXCEPT ![e] = Append(@, AckWrite)]
  /\ mb' = mb

-----------------------------------------------------------------------------
(* The destination: RdmaRemoteRendezvous.                                  *)

Outstanding == {s \in requested : got[s] = None}

\* Step ids are random: numbering the steps in the order in which they ask for
\* the key loses nothing.
RecvFromRemoteAsync(s) ==
  /\ ~fatal
  /\ s \notin requested /\ \A r \in Steps : r < s => r \in requested
  /\ Cardinality(Outstanding) < MaxOutstanding
  /\ requested' = requested \cup {s}
  /\ callbacks' = callbacks \cup {s}
  /\ Transmit("dst", <<TensorRequest(s)>>, << >>)
  /\ UNCHANGED <<size, got, rx, arrived, sent, pool, srcVars, rb,
                 recvDone, fatal, history>>

\* The messages by which the destination gives the tensor buffer back.
Release == <<BufferIdle>>

\* RunRecvCallback and the callback of RecvFromRemoteAsync: parse the tensor
\* buffer, forget the callback, give the buffer back, call done.
RunRecvCallback(s) ==
  /\ ~fatal
  /\ recvDone[s] > 0
  /\ recvDone' = [recvDone EXCEPT ![s] = @ - 1]
  /\ IF s \notin callbacks \/ rb.data = None
     THEN /\ fatal' = TRUE
          /\ UNCHANGED <<got, callbacks, mb, wire>>
     ELSE /\ got' = [got EXCEPT ![s] = rb.data]
          /\ callbacks' = callbacks \ {s}
          /\ Transmit("dst", Release, << >>)
          /\ fatal' = fatal
  /\ UNCHANGED <<size, requested, rx, arrived, sent, pool, srcVars, rb, history>>

-----------------------------------------------------------------------------
(* The source: RdmaTensorBuffer::SendNextItem.                             *)

\* A closure pops a key, if there is one, and calls RecvLocalAsync for it.
PopKey ==
  /\ ~fatal
  /\ tasks > 0
  /\ tasks' = tasks - 1
  /\ IF tb.q = << >>
     THEN UNCHANGED <<tb, sending>>
     ELSE /\ tb' = [tb EXCEPT !.q = Tail(@)]
          /\ sending' = sending \cup {[step |-> Head(tb.q), at |-> "recv"]}
  /\ UNCHANGED <<size, requested, fatal, chanVars, response, dstVars, history>>

Move(t, at) ==
  sending' = (sending \ {t}) \cup {[t EXCEPT !.at = at]}

\* Faulty: a tensor is sent although the last one may still be read.
LocalIdle == tb.local = "idle" /\ tb.remote # "none"

BothIdle == tb.local = "idle" /\ tb.remote = "idle"
NeedsBuffer(s) == tb.local = "none" \/ (size[s] > tb.size /\ BothIdle)

\* The part of the callback of RecvLocalAsync that holds mu_.  It runs once the
\* tensor is in the local rendezvous, that is, any time after the key is popped
\* (the rendezvous keeps the tensor for repeated receives: tolerate_dup_recv).
DecideTransmission(t) ==
  /\ ~fatal
  /\ t \in sending /\ t.at = "recv"
  /\ \/ /\ NeedsBuffer(t.step)
        /\ tb' = [tb EXCEPT !.size = size[t.step], !.local = "idle"]
        /\ resized' = (resized \/ tb.local # "none")
        /\ Move(t, "create")
        /\ raced' = raced
     \/ /\ ~NeedsBuffer(t.step) /\ BothIdle
        /\ tb' = [tb EXCEPT !.local = "busy", !.remote = "busy"]
        /\ raced' = (raced \/ response > 0)
        /\ Move(t, "write")
        /\ resized' = resized
     \/ /\ ~NeedsBuffer(t.step) /\ ~BothIdle
        /\ Move(t, "putback")
        /\ UNCHANGED <<tb, raced, resized>>
  /\ UNCHANGED <<size, requested, fatal, chanVars, tasks, response, dstVars, missed>>

\* The buffer is free and no closure is scheduled that would look at its queue.
NobodyWakes == BothIdle /\ tasks = 0 /\ response = 0

\* "put back the key since it is not sent"
PutBackKey(t) ==
  /\ ~fatal
  /\ t \in sending /\ t.at \in {"create", "putback"}
  /\ tb' = EnqueueItem(tb, t.step)
  /\ IF t.at = "create" THEN Move(t, "ask") ELSE sending' = sending \ {t}
  /\ missed' = (missed \/ (t.at = "putback" /\ NobodyWakes))
  /\ UNCHANGED <<size, requested, fatal, chanVars, tasks, response, dstVars,
                 raced, resized>>

\* "ask the remote to create the same buffer"
RequestBuffer(t) ==
  /\ ~fatal
  /\ t \in sending /\ t.at = "ask"
  /\ sending' = sending \ {t}
  /\ Transmit("src", <<BufferRequest(size[t.step])>>, << >>)
  /\ UNCHANGED <<size, requested, fatal, rx, arrived, sent, pool, tb, tasks,
                 response, dstVars, history>>

WriteTensor(t) ==
  /\ ~fatal
  /\ t \in sending /\ t.at = "write"
  /\ sending' = sending \ {t}
  /\ wire' = [wire EXCEPT !["src"] = Append(@, TensorWrite(t.step, size[t.step], tb.addr))]
  /\ UNCHANGED <<size, requested, fatal, mb, rx, arrived, sent, pool, tb, tasks,
                 response, dstVars, history>>

-----------------------------------------------------------------------------
(* The network (external): a reliable connection delivers the writes of a  *)
(* queue pair in order; the completion of a write may be seen at any time  *)
(* after that.  A write to memory that is no longer registered, or that is *)
(* too small, completes with an error, on which Process_CQ aborts.         *)

Deliver(e) ==
  /\ ~fatal
  /\ wire[e] # << >>
  /\ LET w == Head(wire[e])
         p == Peer(e)
     IN  /\ wire' = [wire EXCEPT ![e] = Tail(@)]
         /\ IF w.to = "tensor" /\ (w.addr # rb.addr \/ w.size > rb.size)
            THEN /\ fatal' = TRUE
                 /\ UNCHANGED <<rx, rb, arrived, sent>>
            ELSE /\ fatal' = fatal
                 /\ rx' = IF w.to = "message" THEN [rx EXCEPT ![p] = w.msg] ELSE rx
                 /\ rb' = IF w.to = "tensor" THEN [rb EXCEPT !.data = w.step] ELSE rb
                 /\ arrived' = [arrived EXCEPT ![p] = Append(@, w.to)]
                 /\ sent' = IF w.to = "ack" THEN sent ELSE [sent EXCEPT ![e] = Append(@, w.to)]
  /\ UNCHANGED <<size, requested, mb, pool, srcVars, callbacks, got, recvDone, history>>

-----------------------------------------------------------------------------
(* Process_CQ, the thread that handles work completions.                   *)

\* A write of e completed: its buffer is idle again and sends its next item.
WriteCompleted(e) ==
  /\ ~fatal
  /\ sent[e] # << >>
  /\ response = 0 \/ e = "dst"
  /\ sent' = [sent EXCEPT ![e] = Tail(@)]
  /\ IF Head(sent[e]) = "message"
     THEN /\ mb' = [mb EXCEPT ![e].local = "idle"]
          /\ pool' = [pool EXCEPT ![e] = @ + 1]
          /\ UNCHANGED <<tb, tasks>>
     ELSE /\ tb' = [tb EXCEPT !.local = "idle"]
          /\ tasks' = tasks + 1
          /\ UNCHANGED <<mb, pool>>
  /\ UNCHANGED <<size, requested, fatal, rx, wire, arrived, sending, response,
                 dstVars, history>>

\* A closure scheduled by WriteCompleted.
SendNextItem(e) ==
  /\ ~fatal
  /\ pool[e] > 0
  /\ pool' = [pool EXCEPT ![e] = @ - 1]
  /\ Transmit(e, << >>, << >>)
  /\ UNCHANGED <<size, requested, fatal, rx, arrived, sent, srcVars, dstVars, history>>

Receive(e, to) ==
  /\ ~fatal
  /\ arrived[e] # << >> /\ Head(arrived[e]) = to
  /\ response = 0 \/ e = "dst"
  /\ arrived' = [arrived EXCEPT ![e] = Tail(@)]

ReceiveMessage(e, type) ==
  /\ Receive(e, "message")
  /\ rx[e].type = type

HandleAck(e) ==
  /\ Receive(e, "ack")
  /\ LET sn == SendNextMessage([mb[e] EXCEPT !.remote = "idle"], wire[e])
     IN  /\ mb'   = [mb   EXCEPT ![e] = sn.buf]
         /\ wire' = [wire EXCEPT ![e] = sn.wire]
  /\ UNCHANGED <<size, requested, fatal, rx, sent, pool, srcVars, dstVars, history>>

HandleTensorRequest ==
  /\ ReceiveMessage("src", "TENSOR_REQUEST")
  /\ SendAck("src")
  /\ tb' = EnqueueItem(tb, rx["src"].step)
  /\ tasks' = tasks + 1
  /\ UNCHANGED <<size, requested, fatal, rx, sent, pool, sending, response,
                 dstVars, history>>

HandleBufferIdle ==
  /\ ReceiveMessage("src", "BUFFER_IDLE")
  /\ SendAck("src")
  /\ tb' = [tb EXCEPT !.remote = "idle"]
  /\ tasks' = tasks + 1
  /\ UNCHANGED <<size, requested, fatal, rx, sent, pool, sending, response,
                 dstVars, history>>

\* The destination (re)creates its buffer and answers with its address.
HandleBufferRequest ==
  /\ ReceiveMessage("dst", "BUFFER_REQUEST")
  /\ rb' = [addr |-> rb.addr + 1, size |-> rx["dst"].size, data |-> None]
  /\ Transmit("dst", <<BufferResponse(rx["dst"].size, rb.addr + 1)>>, <<AckWrite>>)
  /\ UNCHANGED <<size, requested, fatal, rx, sent, pool, srcVars, callbacks, got,
                 recvDone, history>>

\* The source learns the address of the buffer: SetRemoteMR, ...
HandleBufferResponse ==
  /\ ReceiveMessage("src", "BUFFER_RESPONSE")
  /\ SendAck("src")
  /\ IF rx["src"].size # tb.size
     THEN fatal' = TRUE /\ UNCHANGED <<tb, response>>
     ELSE /\ tb' = [tb EXCEPT !.addr = rx["src"].addr, !.remote = "idle"]
          /\ response' = 1
          /\ fatal' = fatal
  /\ UNCHANGED <<size, requested, rx, sent, pool, tasks, sending, dstVars, history>>

\* Faulty: nobody is woken when the buffer is there.
FinishBufferResponseSilently ==
  /\ ~fatal
  /\ response > 0
  /\ tb' = [tb EXCEPT !.local = "idle", !.remote = "idle"]
  /\ response' = 0
  /\ UNCHANGED <<size, requested, fatal, chanVars, tasks, sending, dstVars, history>>

\* ... SetBufferStatus(local, idle), SetBufferStatus(remote, idle), each under
\* the lock of its own, and then SendNextItem is scheduled.
FinishBufferResponse ==
  /\ ~fatal
  /\ response > 0
  /\ tb' = IF response = 1 THEN [tb EXCEPT !.local = "idle"] ELSE [tb EXCEPT !.remote = "idle"]
  /\ response' = (response + 1) % 3
  /\ tasks' = IF response = 2 THEN tasks + 1 ELSE tasks
  /\ UNCHANGED <<size, requested, fatal, chanVars, sending, dstVars, history>>

HandleTensorWrite ==
  /\ Receive("dst", "tensor")
  /\ IF rb.data = None
     THEN fatal' = TRUE /\ recvDone' = recvDone
     ELSE fatal' = fatal /\ recvDone' = [recvDone EXCEPT ![rb.data] = @ + 1]
  /\ UNCHANGED <<size, requested, mb, rx, wire, sent, pool, srcVars, rb, callbacks,
                 got, history>>

-----------------------------------------------------------------------------
TransmitTensor(t) ==
  \/ DecideTransmission(t)
  \/ PutBackKey(t)
  \/ RequestBuffer(t)
  \/ WriteTensor(t)

Process_CQ(e) ==
  \/ WriteCompleted(e)
  \/ HandleAck(e)
  \/ e = "src" /\ (HandleTensorRequest \/ HandleBufferIdle \/ HandleBufferResponse
                   \/ FinishBufferResponse)
  \/ e = "dst" /\ (HandleBufferRequest \/ HandleTensorWrite)

Working ==
  \/ \E e \in Ends : Deliver(e) \/ Process_CQ(e) \/ SendNextItem(e)
  \/ PopKey
  \/ \E t \in sending : TransmitTensor(t)
  \/ \E s \in Steps : RunRecvCallback(s)

Next ==
  \/ Working
  \/ \E s \in Steps : RecvFromRemoteAsync(s)

\* A thread that can go on does, the network delivers and every tensor is
\* produced in the end, so that the callback of RecvLocalAsync runs.  Whether
\* and when a step asks for the key is up to the executor.
Fairness == WF_vars(Working)

Spec == Init /\ [][Next]_vars /\ Fairness

-----------------------------------------------------------------------------
(* Properties.                                                             *)

\* The messages enqueued by e that its peer has not handled.
Messages(ws) ==
  LET at == {i \in DOMAIN ws : ws[i].to = "message"}
      n == Cardinality(at)
      f == CHOOSE g \in [1..n -> at] : \A i, j \in 1..n : i < j => g[i] < g[j]
  IN  [i \in 1..n |-> ws[f[i]].msg]

InMemory(e) ==
  [i \in 1..Cardinality({j \in DOMAIN arrived[e] : arrived[e][j] = "message"}) |-> rx[e]]

Pipe == [e \in Ends |-> InMemory(Peer(e)) \o Messages(wire[e]) \o mb[e].q]

Abstract == INSTANCE MessagePipe WITH pipe <- Pipe

\* Messages are handled once, intact and in order, although they pass through
\* one buffer that the sender overwrites (RdmaMessageBuffer::SendNextItem waits
\* for the ack that Process_CQ of the peer sends after parsing).
ImplementsPipe == Abstract!Spec

\* A step is handed its own tensor and nobody aborts, with several steps
\* waiting for the key, unless the buffer has to grow or a tensor is sent while
\* Process_CQ is between the three updates that BUFFER_RESPONSE asks for.
OwnTensorUnlessRaced ==
  ~raced /\ ~resized => ~fatal /\ \A s \in Steps : got[s] \in {s, None}

\* Every requested tensor is received, unless a key that could not be sent went
\* back to the queue after the event that would have sent it (the callback in
\* RdmaTensorBuffer::SendNextItem enqueues it once mu_ is released), or a
\* process died.
ReceivedUnlessMissed ==
  \A s \in Steps : s \in requested ~> (got[s] # None \/ missed \/ fatal)

\* "Rendezvous are identified by step_id so that tensors for different
\* iterations don't get mixed up" (rdma_readme.md).
OwnTensor ==
  \A s \in Steps : got[s] \in {s, None}
=============================================================================
