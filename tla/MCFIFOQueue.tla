---------------------------- MODULE MCFIFOQueue ----------------------------
(* Programs of three ops in two steps, on a queue of two elements.          *)
EXTENDS FIFOQueue

MCCall(kind, n, step) == [kind |-> kind, n |-> n, step |-> step]

MCProgram(a, b, c) == [o1 |-> a, o2 |-> b, o3 |-> c]

MCPrograms ==
  LET fill(s) == MCCall("EnqueueMany", 3, s)
  IN { \* a producer that fills the queue, a close behind it, another producer
       MCProgram(fill("s1"), MCCall("Close", 0, "s2"), MCCall("EnqueueMany", 1, "s1")),
       \* a batch that is partly gathered when the queue is closed
       MCProgram(fill("s1"), MCCall("DequeueMany", 4, "s2"), MCCall("CloseAndCancel", 0, "s2")),
       MCProgram(fill("s2"), MCCall("DequeueUpTo", 4, "s2"), MCCall("Close", 0, "s1")),
       MCProgram(MCCall("EnqueueMany", 2, "s1"), MCCall("DequeueMany", 3, "s2"),
                 MCCall("DequeueUpTo", 2, "s1")),
       \* producers and consumers that may be cancelled
       MCProgram(fill("s1"), MCCall("EnqueueMany", 2, "s2"), MCCall("DequeueMany", 4, "s2")),
       MCProgram(fill("s1"), MCCall("DequeueMany", 2, "s2"), MCCall("DequeueMany", 1, "s1")),
       \* two closes race
       MCProgram(fill("s2"), MCCall("Close", 0, "s1"), MCCall("CloseAndCancel", 0, "s2")),
       \* batches of nothing
       MCProgram(MCCall("EnqueueMany", 0, "s1"), MCCall("DequeueMany", 0, "s2"),
                 MCCall("DequeueUpTo", 1, "s1")) }
=============================================================================
