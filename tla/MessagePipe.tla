----------------------------- MODULE MessagePipe -----------------------------
(***************************************************************************)
(* What the message layer of an RDMA channel promises to the layer above:  *)
(* a message that an endpoint enqueues is taken by its peer once, intact,  *)
(* and after the messages enqueued before it.                              *)
(***************************************************************************)
EXTENDS Naturals, Sequences, SequencesExt

CONSTANT
  Ends      \* the two endpoints of the channel

VARIABLE
  pipe      \* pipe[e]: the messages enqueued by e that its peer has not taken

Init ==
  pipe = [e \in Ends |-> << >>]

\* The peer takes the oldest message.
Take(old, new) ==
  old # << >> /\ new = Tail(old)

\* A message is enqueued behind the others.
Enqueue(old, new) ==
  IsPrefix(old, new) /\ Len(new) = Len(old) + 1

\* One thing at most happens in a direction; a handler that answers a message takes
\* it from one direction and enqueues into the other.
Next ==
  \A e \in Ends :
    \/ pipe'[e] = pipe[e]
    \/ Take(pipe[e], pipe'[e])
    \/ Enqueue(pipe[e], pipe'[e])

Spec ==
  Init /\ [][Next]_pipe
=============================================================================
