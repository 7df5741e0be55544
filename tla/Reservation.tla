---------------------------- MODULE Reservation ----------------------------
(***************************************************************************)
(* The reservation service of reservation.py: a Server on the Spark driver *)
(* and one Client per node.  The driver starts the Server with the number  *)
(* of nodes, its listener thread accepts connections and answers one       *)
(* message at a time, and the driver's main thread polls until enough      *)
(* reservations are in.  A node connects, registers, polls until the       *)
(* reservations are complete, fetches the list and closes its socket.  A   *)
(* node may die at any moment; what it had sent by then is still read.     *)
(*                                                                         *)
(* A node's metadata is abstracted to the node itself.  Messages are whole *)
(* (their framing is not modelled here).                                   *)
(***************************************************************************)
EXTENDS Naturals, Sequences, FiniteSets, Functions

CONSTANTS Node,     \* the nodes of the cluster
          Backlog   \* connections the listening socket queues, listen(1)

ASSUME NodeAssumption == IsFiniteSet(Node) /\ Node # {}
ASSUME BacklogAssumption == Backlog \in Nat \ {0}

VARIABLES reservations,  \* Reservations.reservations, in order of arrival
          backlog,       \* nodes connected and not yet accepted
          connections,   \* client sockets in the listener's CONNECTIONS
          request,       \* request[n]: the request n sent, not yet read
          response,      \* response[n]: the answer sent to n, not yet read
          pc,            \* where node n is in its client program
          clusterInfo,   \* clusterInfo[n]: what await_reservations returned to n
          driver         \* "awaiting" or "returned"

vars == <<reservations, backlog, connections, request, response, pc,
          clusterInfo, driver>>

\* The server is started for num_executors nodes, the size of nodeRDD.
required == Cardinality(Node)

Steps == {"connect", "register", "await", "fetch", "started", "crashed"}

\* The request a client sends at each step of its program.
RequestAt == [register |-> "REG", await |-> "QUERY", fetch |-> "QINFO"]

NoReply == [type |-> "none", done |-> FALSE, info |-> <<>>]

Replies == [type : {"none", "REG", "QUERY", "QINFO"}, done : BOOLEAN,
            info : Seq(Node)]

TypeOK ==
    /\ reservations \in Seq(Node)
    /\ backlog \subseteq Node
    /\ connections \subseteq Node
    /\ request \in [Node -> {"none", "REG", "QUERY", "QINFO"}]
    /\ response \in [Node -> Replies]
    /\ pc \in [Node -> Steps]
    /\ clusterInfo \in [Node -> Seq(Node)]
    /\ driver \in {"awaiting", "returned"}

Init ==
    /\ reservations = <<>>
    /\ backlog = {}
    /\ connections = {}
    /\ request = [n \in Node |-> "none"]
    /\ response = [n \in Node |-> NoReply]
    /\ pc = [n \in Node |-> "connect"]
    /\ clusterInfo = [n \in Node |-> <<>>]
    /\ driver = "awaiting"

-----------------------------------------------------------------------------
(***************************************************************************)
(* Reservations.  Every method runs under the object's lock.               *)
(***************************************************************************)
\* Faulty: one reservation short.
doneTooEarly == Len(reservations) + 1 >= required

\* Faulty: waits for one reservation too many.
doneTooLate == Len(reservations) > required

done == Len(reservations) >= required

(***************************************************************************)
(* The client.                                                             *)
(***************************************************************************)

\* Client.__init__: the kernel queues at most Backlog unaccepted connections.
Connect(n) ==
    /\ pc[n] = "connect"
    /\ Cardinality(backlog) < Backlog
    /\ backlog' = backlog \cup {n}
    /\ pc' = [pc EXCEPT ![n] = "register"]
    /\ UNCHANGED <<reservations, connections, request, response, clusterInfo, driver>>

\* _request, first half: at most one request of a client is outstanding.
Send(n) ==
    /\ pc[n] \in DOMAIN RequestAt
    /\ request[n] = "none"
    /\ response[n] = NoReply
    /\ request' = [request EXCEPT ![n] = RequestAt[pc[n]]]
    /\ UNCHANGED <<reservations, backlog, connections, response, pc, clusterInfo, driver>>

\* _request, second half, when register() gets its "OK".
ReceiveOk(n) ==
    /\ pc[n] = "register"
    /\ response[n].type = "REG"
    /\ pc' = [pc EXCEPT ![n] = "await"]
    /\ response' = [response EXCEPT ![n] = NoReply]
    /\ UNCHANGED <<reservations, backlog, connections, request, clusterInfo, driver>>

\* await_reservations polls until the answer is True.
ReceiveDone(n) ==
    /\ pc[n] = "await"
    /\ response[n].type = "QUERY"
    /\ pc' = [pc EXCEPT ![n] = IF response[n].done THEN "fetch" ELSE "await"]
    /\ response' = [response EXCEPT ![n] = NoReply]
    /\ UNCHANGED <<reservations, backlog, connections, request, clusterInfo, driver>>

\* get_reservations returns the list; the caller then closes the client.
ReceiveInfo(n) ==
    /\ pc[n] = "fetch"
    /\ response[n].type = "QINFO"
    /\ clusterInfo' = [clusterInfo EXCEPT ![n] = response[n].info]
    /\ pc' = [pc EXCEPT ![n] = "started"]
    /\ response' = [response EXCEPT ![n] = NoReply]
    /\ UNCHANGED <<reservations, backlog, connections, request, driver>>

\* The node's process dies; bytes it has already sent stay in the socket.
Crash(n) ==
    /\ pc[n] \notin {"started", "crashed"}
    /\ pc' = [pc EXCEPT ![n] = "crashed"]
    /\ response' = [response EXCEPT ![n] = NoReply]
    /\ UNCHANGED <<reservations, backlog, connections, request, clusterInfo, driver>>

-----------------------------------------------------------------------------
(***************************************************************************)
(* The server: the listener thread and the driver's main thread.           *)
(***************************************************************************)

\* The socket of n is closed at the client's end.
HungUp(n) == pc[n] \in {"started", "crashed"}

Accept(n) ==
    /\ n \in backlog
    /\ backlog' = backlog \ {n}
    /\ connections' = connections \cup {n}
    /\ UNCHANGED <<reservations, request, response, pc, clusterInfo, driver>>

\* Faulty: answers QUERY with a kind of message that no client waits for.
AnswerUnknown(t, list, enough) ==
    [type |-> IF t = "QUERY" THEN "OK" ELSE t,
     done |-> t = "QUERY" /\ enough,
     info |-> IF t = "QINFO" THEN list ELSE <<>>]

\* What handle_message answers to a message of type t.
Answer(t, list, enough) ==
    [type |-> t,
     done |-> t = "QUERY" /\ enough,
     info |-> IF t = "QINFO" THEN list ELSE <<>>]

\* receive and handle_message.  The answer to a dead client goes nowhere.
HandleMessage(n) ==
    /\ n \in connections
    /\ request[n] # "none"
    /\ reservations' = IF request[n] = "REG" THEN Append(reservations, n)
                                             ELSE reservations
    /\ response' = [response EXCEPT ![n] =
                       IF HungUp(n) THEN NoReply
                                    ELSE Answer(request[n], reservations', done')]
    /\ request' = [request EXCEPT ![n] = "none"]
    /\ UNCHANGED <<backlog, connections, pc, clusterInfo, driver>>

\* receive raises "socket closed": the listener drops the connection.
DropConnection(n) ==
    /\ n \in connections
    /\ request[n] = "none"
    /\ HungUp(n)
    /\ connections' = connections \ {n}
    /\ UNCHANGED <<reservations, backlog, request, response, pc, clusterInfo, driver>>

\* Server.await_reservations.  It returns the list object itself, so what the
\* driver holds from then on is reservations, not a copy.
DriverReturns ==
    /\ driver = "awaiting"
    /\ done
    /\ driver' = "returned"
    /\ UNCHANGED <<reservations, backlog, connections, request, response, pc, clusterInfo>>

-----------------------------------------------------------------------------
Client(n) == Connect(n) \/ Send(n) \/ ReceiveOk(n) \/ ReceiveDone(n) \/ ReceiveInfo(n)

Listener(n) == Accept(n) \/ HandleMessage(n) \/ DropConnection(n)

Next ==
    \/ \E n \in Node : Client(n) \/ Listener(n) \/ Crash(n)
    \/ DriverReturns

Spec == Init /\ [][Next]_vars

\* Live processes take their steps, and the listener gets to every socket
\* that select reports.  Nothing makes a node crash.
FairSpec ==
    /\ Spec
    /\ \A n \in Node : WF_vars(Client(n)) /\ WF_vars(Listener(n))
    /\ WF_vars(DriverReturns)

-----------------------------------------------------------------------------
(***************************************************************************)
(* Properties.                                                             *)
(***************************************************************************)

\* Whoever gets past await_reservations, node or driver, does so with every
\* node registered, and all of them hold the same list: nodes build their
\* cluster spec from it, the driver schedules feeding and shutdown from it.
\* In particular the list the driver holds by reference no longer changes.
MembershipAgreed ==
    /\ \A n \in Node : pc[n] = "started" => clusterInfo[n] = reservations
    /\ (driver = "returned" \/ \E n \in Node : pc[n] = "started")
            => Range(reservations) = Node

\* The polling ends: the driver returns and every node that lives starts,
\* unless some node died before it registered, which nothing repairs here.
ReleasedUnlessLost ==
    \/ <>(driver = "returned" /\ \A n \in Node : pc[n] \in {"started", "crashed"})
    \/ <>[](\E n \in Node : pc[n] = "crashed" /\ n \notin Range(reservations))

\* The messages implement the barrier of NodeBarrier: a node joins when its
\* REG is handled and passes with what its last QINFO brought.
Barrier == INSTANCE NodeBarrier WITH
    joined <- Range(reservations),
    seen <- [n \in Node |-> Range(clusterInfo[n])],
    driverSeen <- IF driver = "returned" THEN Range(reservations) ELSE {}

ImplementsBarrier == Barrier!Spec

=============================================================================
