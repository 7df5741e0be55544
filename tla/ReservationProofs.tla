------------------------- MODULE ReservationProofs -------------------------
(***************************************************************************)
(* Proofs about the reservation service for any finite set of nodes.       *)
(*                                                                         *)
(* MembershipAgreed is not inductive.  The argument is a count: a node     *)
(* registers at most once, so as many reservations as there are nodes      *)
(* means that every node is in the list; from then on no REG can be        *)
(* outstanding, the list is frozen, and every answer that lets a client    *)
(* proceed was computed from the frozen list.                              *)
(***************************************************************************)
EXTENDS Reservation, FiniteSetTheorems, SequenceTheorems, TLAPS

\* A node that is in the list will not register again: it is past REG, or
\* the OK to its REG is on its way, or it is dead with no REG left to read.
RegistersOnce ==
    /\ IsInjective(reservations)
    /\ \A n \in Node :
          /\ request[n] = "REG" => pc[n] \in {"register", "crashed"}
          /\ request[n] # "none" => pc[n] # "connect" /\ response[n] = NoReply
          /\ n \in Range(reservations) =>
                /\ request[n] # "REG"
                /\ pc[n] # "connect"
                /\ pc[n] = "register" => response[n].type = "REG"

\* Every permission to proceed, delivered or on its way, was granted when
\* enough reservations were in.
GrantsJustified ==
    /\ \A n \in Node :
          /\ response[n].done => done
          /\ pc[n] \in {"fetch", "started"} => done
          /\ pc[n] = "fetch" /\ response[n].type = "QINFO"
                => response[n].info = reservations
          /\ clusterInfo[n] = IF pc[n] = "started" THEN reservations ELSE <<>>
    /\ driver = "returned" => done

\* The inductive invariant.
IInv == TypeOK /\ RegistersOnce /\ GrantsJustified

-----------------------------------------------------------------------------
\* As many distinct reservations as nodes: the list holds every node.
LEMMA CompleteWhenDone ==
    ASSUME TypeOK, IsInjective(reservations), done
    PROVE  Range(reservations) = Node
<1> DEFINE L == Len(reservations)
           R == Range(reservations)
<1>1. L \in Nat /\ reservations \in [1..L -> Node] /\ DOMAIN reservations = 1..L
  BY LenProperties DEF TypeOK
<1>2. R \subseteq Node
  BY <1>1 DEF Range
<1>3. reservations \in Bijection(1..L, R)
  BY <1>1 DEF Range, IsInjective, Bijection, Injection, Surjection
<1>4. Cardinality(R) = L /\ IsFiniteSet(R)
  BY <1>1, <1>3, FS_CountingElements, FS_NatBijection DEF ExistsBijection
<1>5. L >= Cardinality(Node)
  BY DEF done, required
<1>6. IsFiniteSet(Node) /\ Cardinality(Node) \in Nat
  BY NodeAssumption, FS_CardinalityType
<1>7. Cardinality(R) <= Cardinality(Node) /\ (Cardinality(R) = Cardinality(Node) => R = Node)
  BY <1>2, <1>6, FS_Subset
<1> QED  BY <1>1, <1>4, <1>5, <1>6, <1>7

\* The server as started and clients that have not connected satisfy it.
LEMMA InitIInv == Init => IInv
<1> SUFFICES ASSUME Init PROVE IInv
  OBVIOUS
<1>1. TypeOK
  BY DEF Init, TypeOK, Steps, Replies, NoReply
<1>2. RegistersOnce
  BY DEF Init, RegistersOnce, IsInjective, Range, NoReply
<1>3. GrantsJustified
  BY DEF Init, GrantsJustified, NoReply
<1> QED  BY <1>1, <1>2, <1>3 DEF IInv

\* A REG that is still to be handled comes from a node that is not listed.
LEMMA PendingNotListed ==
    ASSUME IInv, NEW n \in Node, request[n] = "REG"
    PROVE  n \notin Range(reservations) /\ ~done
<1>1. n \notin Range(reservations)
  BY DEF IInv, RegistersOnce
<1> QED  BY <1>1, CompleteWhenDone DEF IInv, RegistersOnce

\* No step of a client, the listener or the driver leaves the types.
LEMMA TypeStep == IInv /\ [Next]_vars => TypeOK'
<1> SUFFICES ASSUME IInv, [Next]_vars PROVE TypeOK'
  OBVIOUS
<1> USE DEF IInv, TypeOK, Steps, Replies, NoReply
<1>1. ASSUME NEW n \in Node, Connect(n) PROVE TypeOK'
  BY <1>1 DEF Connect
<1>2. ASSUME NEW n \in Node, Send(n) PROVE TypeOK'
  BY <1>2 DEF Send, RequestAt
<1>3. ASSUME NEW n \in Node, ReceiveOk(n) PROVE TypeOK'
  BY <1>3 DEF ReceiveOk
<1>4. ASSUME NEW n \in Node, ReceiveDone(n) PROVE TypeOK'
  BY <1>4 DEF ReceiveDone
<1>5. ASSUME NEW n \in Node, ReceiveInfo(n) PROVE TypeOK'
  BY <1>5 DEF ReceiveInfo
<1>6. ASSUME NEW n \in Node, Crash(n) PROVE TypeOK'
  BY <1>6 DEF Crash
<1>7. ASSUME NEW n \in Node, Accept(n) PROVE TypeOK'
  BY <1>7 DEF Accept
<1>8. ASSUME NEW n \in Node, HandleMessage(n) PROVE TypeOK'
  <2>1. reservations' \in Seq(Node)
    BY <1>8 DEF HandleMessage
  <2>2. Answer(request[n], reservations', done') \in Replies
    BY <1>8, <2>1 DEF HandleMessage, Answer
  <2>3. response' \in [Node -> Replies]
    BY <1>8, <2>2 DEF HandleMessage
  <2> QED  BY <1>8, <2>1, <2>3 DEF HandleMessage
<1>9. ASSUME NEW n \in Node, DropConnection(n) PROVE TypeOK'
  BY <1>9 DEF DropConnection
<1>10. CASE DriverReturns
  BY <1>10 DEF DriverReturns
<1>11. CASE UNCHANGED vars
  BY <1>11 DEF vars
<1> QED
  BY <1>1, <1>2, <1>3, <1>4, <1>5, <1>6, <1>7, <1>8, <1>9, <1>10, <1>11
     DEF Next, Client, Listener

\* Handling the REG of n adds exactly n, once.
LEMMA RegAdds ==
    ASSUME IInv, NEW n \in Node, HandleMessage(n), request[n] = "REG"
    PROVE  /\ IsInjective(reservations')
           /\ Range(reservations') = Range(reservations) \cup {n}
<1>1. n \notin Range(reservations)
  BY PendingNotListed
<1>2. reservations' = Append(reservations, n)
  BY DEF HandleMessage
<1>3. /\ Len(reservations) \in Nat
      /\ DOMAIN reservations = 1..Len(reservations)
      /\ DOMAIN reservations' = 1..(Len(reservations) + 1)
      /\ \A i \in 1..Len(reservations) : reservations'[i] = reservations[i]
      /\ reservations'[Len(reservations) + 1] = n
  BY <1>2, LenProperties, AppendProperties DEF IInv, TypeOK
<1> QED  BY <1>1, <1>3 DEF IInv, RegistersOnce, IsInjective, Range

\* Handling a REG adds a node that was not listed, and nothing else adds one.
LEMMA RegistersOnceStep == IInv /\ [Next]_vars => RegistersOnce'
<1> SUFFICES ASSUME IInv, [Next]_vars PROVE RegistersOnce'
  OBVIOUS
<1> USE DEF IInv, TypeOK, Steps, Replies, NoReply, RegistersOnce
<1>1. ASSUME NEW n \in Node, Connect(n) PROVE RegistersOnce'
  BY <1>1 DEF Connect
<1>2. ASSUME NEW n \in Node, Send(n) PROVE RegistersOnce'
  BY <1>2 DEF Send, RequestAt
<1>3. ASSUME NEW n \in Node, ReceiveOk(n) PROVE RegistersOnce'
  <2>1. request[n] = "none" /\ UNCHANGED <<reservations, request>>
    BY <1>3 DEF ReceiveOk
  <2>2. \A m \in Node \ {n} : pc'[m] = pc[m] /\ response'[m] = response[m]
    BY <1>3 DEF ReceiveOk
  <2>3. pc'[n] = "await"
    BY <1>3 DEF ReceiveOk
  <2> QED  BY <2>1, <2>2, <2>3
<1>4. ASSUME NEW n \in Node, ReceiveDone(n) PROVE RegistersOnce'
  BY <1>4 DEF ReceiveDone
<1>5. ASSUME NEW n \in Node, ReceiveInfo(n) PROVE RegistersOnce'
  BY <1>5 DEF ReceiveInfo
<1>6. ASSUME NEW n \in Node, Crash(n) PROVE RegistersOnce'
  BY <1>6 DEF Crash
<1>7. ASSUME NEW n \in Node, Accept(n) PROVE RegistersOnce'
  BY <1>7 DEF Accept
<1>8. ASSUME NEW n \in Node, HandleMessage(n) PROVE RegistersOnce'
  <2>1. CASE request[n] = "REG"
    <3>1. IsInjective(reservations') /\ Range(reservations') = Range(reservations) \cup {n}
      BY <1>8, <2>1, RegAdds
    <3>2. pc[n] = "register" => response'[n].type = "REG"
      BY <1>8, <2>1 DEF HandleMessage, Answer, HungUp
    <3> QED  BY <1>8, <2>1, <3>1, <3>2 DEF HandleMessage
  <2>2. CASE request[n] # "REG"
    BY <1>8, <2>2 DEF HandleMessage
  <2> QED  BY <2>1, <2>2
<1>9. ASSUME NEW n \in Node, DropConnection(n) PROVE RegistersOnce'
  BY <1>9 DEF DropConnection
<1>10. CASE DriverReturns
  BY <1>10 DEF DriverReturns
<1>11. CASE UNCHANGED vars
  BY <1>11 DEF vars
<1> QED
  BY <1>1, <1>2, <1>3, <1>4, <1>5, <1>6, <1>7, <1>8, <1>9, <1>10, <1>11
     DEF Next, Client, Listener

\* An answer that lets its receiver pass comes from a list that is complete,
\* and such a list changes no more.
LEMMA GrantsJustifiedStep == IInv /\ [Next]_vars => GrantsJustified'
<1> SUFFICES ASSUME IInv, [Next]_vars PROVE GrantsJustified'
  OBVIOUS
<1> USE DEF IInv, TypeOK, Steps, Replies, NoReply, GrantsJustified
<1>1. ASSUME NEW n \in Node, Connect(n) PROVE GrantsJustified'
  BY <1>1 DEF Connect, done
<1>2. ASSUME NEW n \in Node, Send(n) PROVE GrantsJustified'
  BY <1>2 DEF Send, done
<1>3. ASSUME NEW n \in Node, ReceiveOk(n) PROVE GrantsJustified'
  BY <1>3 DEF ReceiveOk, done
<1>4. ASSUME NEW n \in Node, ReceiveDone(n) PROVE GrantsJustified'
  BY <1>4 DEF ReceiveDone, done
<1>5. ASSUME NEW n \in Node, ReceiveInfo(n) PROVE GrantsJustified'
  BY <1>5 DEF ReceiveInfo, done
<1>6. ASSUME NEW n \in Node, Crash(n) PROVE GrantsJustified'
  BY <1>6 DEF Crash, done
<1>7. ASSUME NEW n \in Node, Accept(n) PROVE GrantsJustified'
  BY <1>7 DEF Accept, done
<1>8. ASSUME NEW n \in Node, HandleMessage(n) PROVE GrantsJustified'
  <2>1. CASE request[n] = "REG"
    <3>1. ~done
      BY <2>1, PendingNotListed
    <3>2. \A m \in Node : ~response'[m].done
      BY <1>8, <2>1, <3>1 DEF HandleMessage, Answer
    <3> QED  BY <1>8, <3>1, <3>2 DEF HandleMessage
  <2>2. CASE request[n] # "REG"
    <3>1. reservations' = reservations /\ done' = done
      BY <1>8, <2>2 DEF HandleMessage, done
    <3>2. response'[n] \in {NoReply, Answer(request[n], reservations, done)}
      BY <1>8, <3>1 DEF HandleMessage
    <3> QED  BY <1>8, <3>1, <3>2 DEF HandleMessage, Answer
  <2> QED  BY <2>1, <2>2
<1>9. ASSUME NEW n \in Node, DropConnection(n) PROVE GrantsJustified'
  BY <1>9 DEF DropConnection, done
<1>10. CASE DriverReturns
  BY <1>10 DEF DriverReturns, done
<1>11. CASE UNCHANGED vars
  BY <1>11 DEF vars, done
<1> QED
  BY <1>1, <1>2, <1>3, <1>4, <1>5, <1>6, <1>7, <1>8, <1>9, <1>10, <1>11
     DEF Next, Client, Listener

\* The reservation service keeps the inductive invariant.
LEMMA IInvInvariant == Spec => []IInv
<1>1. IInv /\ [Next]_vars => IInv'
  BY TypeStep, RegistersOnceStep, GrantsJustifiedStep DEF IInv
<1> QED  BY InitIInv, <1>1, PTL DEF Spec

-----------------------------------------------------------------------------
\* Every variable of the reservation service keeps its type.
THEOREM TypeCorrect == Spec => []TypeOK
<1>1. IInv => TypeOK
  BY DEF IInv
<1> QED  BY IInvInvariant, <1>1, PTL

\* For any finite number of nodes: past await_reservations, nodes and driver
\* hold one and the same complete list.
THEOREM MembershipAgreedHolds == Spec => []MembershipAgreed
<1>1. IInv => MembershipAgreed
  <2> SUFFICES ASSUME IInv PROVE MembershipAgreed
    OBVIOUS
  <2>1. done => Range(reservations) = Node
    BY CompleteWhenDone DEF IInv, RegistersOnce
  <2> QED  BY <2>1 DEF IInv, GrantsJustified, MembershipAgreed
<1> QED  BY IInvInvariant, <1>1, PTL

\* Every step of the message protocol is a step of the barrier, or none.
LEMMA BarrierStep == IInv /\ IInv' /\ [Next]_vars => [Barrier!Next]_(Barrier!vars)
<1> DEFINE seen == [n \in Node |-> Range(clusterInfo[n])]
           quiet == UNCHANGED <<reservations, clusterInfo, driver>>
<1> SUFFICES ASSUME IInv, IInv', [Next]_vars PROVE [Barrier!Next]_(Barrier!vars)
  OBVIOUS
<1>1. quiet => UNCHANGED Barrier!vars
  BY DEF Barrier!vars
<1>2. done => Range(reservations) = Node
  BY CompleteWhenDone DEF IInv, RegistersOnce
<1>3. ASSUME NEW n \in Node, ReceiveInfo(n) PROVE Barrier!Pass(n)
  <2>1. pc[n] = "fetch" /\ UNCHANGED <<reservations, driver>>
    BY <1>3 DEF ReceiveInfo
  <2>2. Range(reservations) = Node
    BY <1>2, <2>1 DEF IInv, GrantsJustified
  <2>3. clusterInfo[n] = <<>> /\ clusterInfo' = [clusterInfo EXCEPT ![n] = reservations]
    BY <1>3, <2>1 DEF IInv, GrantsJustified, ReceiveInfo
  <2>4. seen[n] = {}
    BY <2>3 DEF Range
  <2>5. seen' = [seen EXCEPT ![n] = Node]
    BY <2>2, <2>3 DEF IInv, TypeOK
  <2> QED  BY <2>1, <2>2, <2>4, <2>5 DEF Barrier!Pass
<1>4. ASSUME NEW n \in Node, HandleMessage(n) PROVE Barrier!Join(n) \/ quiet
  <2>1. CASE request[n] = "REG"
    <3>1. n \notin Range(reservations) /\ ~done
      BY <2>1, PendingNotListed
    <3>2. Range(reservations') = Range(reservations) \cup {n}
      BY <1>4, <2>1, RegAdds
    <3>3. driver = "awaiting" /\ UNCHANGED <<clusterInfo, driver>>
      BY <1>4, <3>1 DEF HandleMessage, IInv, GrantsJustified, TypeOK
    <3> QED  BY <3>1, <3>2, <3>3 DEF Barrier!Join
  <2>2. CASE request[n] # "REG"
    BY <1>4, <2>2 DEF HandleMessage
  <2> QED  BY <2>1, <2>2
<1>5. CASE DriverReturns
  <2>1. driver = "awaiting" /\ driver' = "returned" /\ UNCHANGED <<reservations, clusterInfo>>
    BY <1>5 DEF DriverReturns
  <2>2. Range(reservations) = Node
    BY <1>2, <1>5 DEF DriverReturns
  <2>3. Barrier!DriverPass
    BY <2>1, <2>2 DEF Barrier!DriverPass
  <2> QED  BY <2>3 DEF Barrier!Next
<1>6. ASSUME NEW n \in Node, Connect(n) \/ Send(n) \/ ReceiveOk(n) \/ ReceiveDone(n)
                                \/ Crash(n) \/ Accept(n) \/ DropConnection(n)
      PROVE quiet
  BY <1>6 DEF Connect, Send, ReceiveOk, ReceiveDone, Crash, Accept, DropConnection
<1>7. CASE UNCHANGED vars
  BY <1>1, <1>7 DEF vars
<1> QED
  BY <1>1, <1>3, <1>4, <1>5, <1>6, <1>7 DEF Next, Client, Listener, Barrier!Next

\* The message protocol implements the barrier, whatever the number of nodes
\* and the order in which their messages are handled.
THEOREM ImplementsBarrierHolds == Spec => ImplementsBarrier
<1>1. Init => Barrier!Init
  BY DEF Init, Barrier!Init, Range
<1> QED  BY <1>1, IInvInvariant, BarrierStep, PTL DEF Spec, ImplementsBarrier, Barrier!Spec

=============================================================================
