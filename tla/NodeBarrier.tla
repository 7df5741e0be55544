---------------------------- MODULE NodeBarrier ----------------------------
(***************************************************************************)
(* What the reservation service promises to the code that uses it: a       *)
(* barrier.  Nodes join one by one; nobody, neither a node nor the driver, *)
(* passes before every node has joined, and whoever passes knows the whole *)
(* membership.  How nodes talk to the service is left open.                *)
(***************************************************************************)
CONSTANT Node

VARIABLES joined,      \* the nodes that have joined
          seen,        \* seen[n]: the membership node n passed with, {} before
          driverSeen   \* the same for the driver

vars == <<joined, seen, driverSeen>>

Init ==
    /\ joined = {}
    /\ seen = [n \in Node |-> {}]
    /\ driverSeen = {}

Join(n) ==
    /\ n \notin joined
    /\ joined' = joined \cup {n}
    /\ UNCHANGED <<seen, driverSeen>>

Pass(n) ==
    /\ joined = Node
    /\ seen[n] = {}
    /\ seen' = [seen EXCEPT ![n] = Node]
    /\ UNCHANGED <<joined, driverSeen>>

DriverPass ==
    /\ joined = Node
    /\ driverSeen = {}
    /\ driverSeen' = Node
    /\ UNCHANGED <<joined, seen>>

Next ==
    \/ \E n \in Node : Join(n) \/ Pass(n)
    \/ DriverPass

Spec == Init /\ [][Next]_vars
=============================================================================
