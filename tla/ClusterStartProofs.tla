------------------------- MODULE ClusterStartProofs -------------------------
(***************************************************************************)
(* Proofs about starting a cluster, for any number of nodes, parameter     *)
(* servers, executors, slots and failures.                                 *)
(*                                                                         *)
(* Whatever fails, the lists that the nodes hold are prefixes of one list  *)
(* that only grows.  The rest needs what TFCluster.run asks for: one task  *)
(* per executor.  Then nobody takes over an entry before all have          *)
(* registered, since the owner of an entry holds its slot until the list   *)
(* is full, and a full list, all numbers being in it once, is everything a *)
(* later retry can come across.                                            *)
(***************************************************************************)
EXTENDS ClusterStart, FiniteSetTheorems, TLAPS

Registered == {"awaiting", "ready", "launched", "finished", "ended"}
InCluster == {"ready", "launched", "finished", "ended"}

\* An attempt has a place of its own, and a REG under way is that of a node that waits
\* for its answer or of an attempt that has failed since.
Attempts ==
    /\ \A w \in Num : pc[w] # "pending" => place[w] \in Place
    /\ job = "running" => \A w \in Num : failures[w] < TaskMaxFailures
    /\ \A v, w \in Num : Active(v) /\ Active(w) /\ place[v] = place[w] => v = w
    /\ \A m \in inflight : \/ m.mgr[2] < failures[m.num]
                           \/ pc[m.num] = "registering" /\ m = NodeMeta(m.num)

\* Every cluster_info is a prefix of the server's list, with an entry of its executor.
Views ==
    /\ \A w \in Num : /\ Len(info[w]) <= Len(reservations)
                      /\ \A i \in 1..Len(info[w]) : info[w][i] = reservations[i]
    /\ \A w \in Num : pc[w] = "awaiting" =>
         \E i \in 1..Len(reservations) : reservations[i].exec = place[w][1]
    /\ \A w \in Num : pc[w] \in InCluster =>
         \E i \in 1..Len(info[w]) : info[w][i].exec = place[w][1]

\* The inductive invariant, whatever fails.
IInv == TypeOK /\ Attempts /\ Views

-----------------------------------------------------------------------------
LEMMA ConstantFacts ==
    /\ NumExecutors \in Nat /\ NumExecutors > 0
    /\ TaskMaxFailures \in Nat \ {0}
    /\ \A m \in InputModes : MaxCrashes[m] \in Nat
BY NumAssumption, FailureAssumption

LEMMA PlaceFields == ASSUME NEW p \in Place PROVE p[1] \in Executor
BY DEF Place

\* What the type invariant says of the sequences and of the nodes' entries.
LEMMA TypeFacts ==
    ASSUME TypeOK
    PROVE  /\ Len(reservations) \in Nat /\ DOMAIN reservations = 1..Len(reservations)
           /\ \A i \in 1..Len(reservations) : reservations[i] \in Meta
           /\ \A w \in Num : /\ info[w] \in Seq(Meta) /\ Len(info[w]) \in Nat
                             /\ DOMAIN info[w] = 1..Len(info[w])
           /\ \A m \in Meta : m.num \in Num /\ m.exec \in Executor /\ m.mgr[2] \in Nat
           /\ \A w \in Num : failures[w] \in Nat
<1>1. reservations \in Seq(Meta) /\ \A w \in Num : info[w] \in Seq(Meta)
  BY DEF TypeOK
<1>2. \A m \in Meta : m.num \in Num /\ m.exec \in Executor /\ m.mgr[2] \in Nat
  BY ConstantFacts DEF Meta
<1>3. \A w \in Num : failures[w] \in Nat
  BY ConstantFacts DEF TypeOK
<1> QED  BY <1>1, <1>2, <1>3

LEMMA NodeMetaFields ==
    ASSUME TypeOK, NEW w \in Num, place[w] \in Place
    PROVE  /\ NodeMeta(w) \in Meta
           /\ NodeMeta(w).num = w /\ NodeMeta(w).exec = place[w][1]
           /\ NodeMeta(w).mgr = <<w, failures[w]>> /\ NodeMeta(w).mgr[2] = failures[w]
<1>1. place[w][1] \in Executor
  BY PlaceFields
<1>2. failures[w] \in 0..TaskMaxFailures
  BY DEF TypeOK
<1> QED  BY <1>1, <1>2 DEF NodeMeta, Mgr, Meta

LEMMA AppendFacts ==
    ASSUME NEW S, NEW s \in Seq(S), NEW x \in S
    PROVE  /\ Append(s, x) \in Seq(S) /\ Len(Append(s, x)) = Len(s) + 1
           /\ \A i \in 1..Len(s) : Append(s, x)[i] = s[i]
           /\ Append(s, x)[Len(s) + 1] = x
OBVIOUS

LEMMA InitIInv == Init => IInv
<1> SUFFICES ASSUME Init PROVE IInv
  OBVIOUS
<1>1. TypeOK
  <2>1. orderly \in BOOLEAN
    BY Zenon DEF Init
  <2>2. crashes \in 0..MaxCrashes[input_mode] /\ failures \in [Num -> 0..TaskMaxFailures]
    BY ConstantFacts DEF Init
  <2>3. reservations \in Seq(Meta) /\ info \in [Num -> Seq(Meta)]
    BY DEF Init
  <2>4. pc \in [Num -> Steps] /\ place \in [Num -> Place \cup {Nowhere}]
    BY DEF Init, Steps
  <2> QED  BY <2>1, <2>2, <2>3, <2>4 DEF Init, TypeOK
<1>2. Attempts
  BY ConstantFacts DEF Init, Attempts, Active
<1>3. Views
  BY DEF Init, Views, InCluster
<1> QED  BY <1>1, <1>2, <1>3 DEF IInv

-----------------------------------------------------------------------------
(* The steps, one by one.                                                  *)

LEMMA FailKeeps ==
    ASSUME IInv, NEW w \in Num, job = "running", Active(w), FailAttempt(w),
           UNCHANGED <<input_mode, reservations, inflight, driver>>,
           crashes' \in 0..MaxCrashes[input_mode], orderly' \in BOOLEAN
    PROVE  IInv'
<1>0. TypeOK /\ pc[w] # "pending"
  BY DEF IInv, Active
<1>1. /\ pc' \in [Num -> Steps] /\ pc'[w] = "pending"
      /\ \A v \in Num : v # w => pc'[v] = pc[v]
  BY <1>0 DEF FailAttempt, TypeOK, Steps
<1>2. /\ place' \in [Num -> Place \cup {Nowhere}]
      /\ \A v \in Num : v # w => place'[v] = place[v]
  BY <1>0 DEF FailAttempt, TypeOK
<1>3. /\ failures' \in [Num -> 0..TaskMaxFailures] /\ failures'[w] = failures[w] + 1
      /\ \A v \in Num : v # w => failures'[v] = failures[v]
  <2>1. failures \in [Num -> 0..TaskMaxFailures] /\ failures[w] + 1 \in 0..TaskMaxFailures
    BY <1>0, ConstantFacts DEF IInv, Attempts, TypeOK
  <2>2. failures' = [failures EXCEPT ![w] = failures[w] + 1]
    BY DEF FailAttempt
  <2> QED  BY <2>1, <2>2
<1>4. /\ info' \in [Num -> Seq(Meta)] /\ info'[w] = <<>>
      /\ \A v \in Num : v # w => info'[v] = info[v]
  BY <1>0 DEF FailAttempt, TypeOK
<1>5. /\ job' = IF failures'[w] = TaskMaxFailures THEN "aborted" ELSE "running"
      /\ python' \in [Place -> {"other", "current"}]
  BY <1>0 DEF FailAttempt, TypeOK
<1>6. TypeOK'
  BY <1>0, <1>1, <1>2, <1>3, <1>4, <1>5 DEF TypeOK
<1>7. Attempts'
  <2>1. \A v \in Num : pc'[v] # "pending" => place'[v] \in Place
    BY <1>1, <1>2 DEF IInv, Attempts
  <2>2. job' = "running" => \A v \in Num : failures'[v] < TaskMaxFailures
    <3>1. failures'[w] \in 0..TaskMaxFailures
      BY <1>3
    <3>2. \A v \in Num : v # w => failures'[v] < TaskMaxFailures
      BY <1>3 DEF IInv, Attempts
    <3> QED  BY <1>5, <3>1, <3>2, ConstantFacts
  <2>3. \A u, v \in Num : Active(u)' /\ Active(v)' /\ place'[u] = place'[v] => u = v
    BY <1>1, <1>2 DEF IInv, Attempts, Active
  <2>4. \A m \in inflight : \/ m.mgr[2] < failures'[m.num]
                            \/ pc'[m.num] = "registering" /\ m = NodeMeta(m.num)'
    <3> SUFFICES ASSUME NEW m \in inflight
                 PROVE  \/ m.mgr[2] < failures'[m.num]
                        \/ pc'[m.num] = "registering" /\ m = NodeMeta(m.num)'
      OBVIOUS
    <3>1. m \in Meta /\ m.num \in Num /\ m.mgr[2] \in Nat /\ failures[m.num] \in Nat
      BY <1>0, TypeFacts DEF TypeOK
    <3>2. CASE m.num = w
      <4>1. m.mgr[2] <= failures[w]
        BY <1>0, <3>1, <3>2, NodeMetaFields DEF IInv, Attempts
      <4> QED  BY <1>3, <3>1, <3>2, <4>1
    <3>3. CASE m.num # w
      BY <1>1, <1>2, <1>3, <3>1, <3>3 DEF IInv, Attempts, NodeMeta, Mgr
    <3> QED  BY <3>2, <3>3
  <2> QED  BY <2>1, <2>2, <2>3, <2>4 DEF Attempts
<1>8. Views'
  <2>1. \A v \in Num : /\ Len(info'[v]) <= Len(reservations)
                       /\ \A i \in 1..Len(info'[v]) : info'[v][i] = reservations[i]
    BY <1>0, <1>4, TypeFacts, SMTT(30) DEF IInv, Views
  <2>2. \A v \in Num : pc'[v] = "awaiting" =>
           \E i \in 1..Len(reservations) : reservations[i].exec = place'[v][1]
    BY <1>1, <1>2 DEF IInv, Views
  <2>3. \A v \in Num : pc'[v] \in InCluster =>
           \E i \in 1..Len(info'[v]) : info'[v][i].exec = place'[v][1]
    <3>1. \A v \in Num : pc'[v] \in InCluster => v # w
      BY <1>1 DEF InCluster
    <3> SUFFICES ASSUME NEW v \in Num, pc'[v] \in InCluster
                 PROVE  \E i \in 1..Len(info'[v]) : info'[v][i].exec = place'[v][1]
      OBVIOUS
    <3>2. pc'[v] = pc[v] /\ place'[v] = place[v] /\ info'[v] = info[v]
      BY <1>1, <1>2, <1>4, <3>1
    <3> QED  BY <3>2 DEF IInv, Views
  <2> QED  BY <2>1, <2>2, <2>3 DEF Views
<1> QED  BY <1>6, <1>7, <1>8 DEF IInv

LEMMA ScheduleKeeps ==
    ASSUME IInv, NEW w \in Num, NEW p \in Place, Schedule(w, p)
    PROVE  IInv'
<1> USE DEF serverVars, driverVars
<1>0. /\ TypeOK /\ pc[w] = "pending" /\ ~Busy(p)
      /\ UNCHANGED <<input_mode, serverVars, failures, info, python, driverVars>>
  BY DEF IInv, Schedule, Step
<1>1. /\ pc' \in [Num -> Steps] /\ pc'[w] = "started"
      /\ \A v \in Num : v # w => pc'[v] = pc[v]
      /\ place' \in [Num -> Place \cup {Nowhere}] /\ place'[w] = p
      /\ \A v \in Num : v # w => place'[v] = place[v]
  BY <1>0 DEF Schedule, Step, TypeOK, Steps
<1>2. TypeOK'
  BY <1>0, <1>1 DEF TypeOK
<1>3. Attempts'
  <2>1. \A v \in Num : pc'[v] # "pending" => place'[v] \in Place
    BY <1>1 DEF IInv, Attempts
  <2>2. \A u, v \in Num : Active(u)' /\ Active(v)' /\ place'[u] = place'[v] => u = v
    BY <1>0, <1>1 DEF IInv, Attempts, Active, Busy
  <2>3. \A m \in inflight : \/ m.mgr[2] < failures[m.num]
                            \/ pc'[m.num] = "registering" /\ m = NodeMeta(m.num)'
    <3>1. \A m \in inflight : m.num \in Num
      BY <1>0, TypeFacts DEF TypeOK
    <3> QED  BY <1>0, <1>1, <3>1 DEF IInv, Attempts, NodeMeta, Mgr
  <2> QED  BY <1>0, <2>1, <2>2, <2>3 DEF IInv, Attempts
<1>4. Views'
  BY <1>0, <1>1 DEF IInv, Views, InCluster
<1> QED  BY <1>2, <1>3, <1>4 DEF IInv

\* A task goes on with its place, its list being what it was or the present one.
LEMMA TaskKeeps ==
    ASSUME IInv, NEW w \in Num, pc \in [Num -> Steps], pc[w] # "pending",
           NEW to \in Steps \ {"pending", "started", "registering"},
           pc' = [pc EXCEPT ![w] = to], Active(w),
           info' = info \/ info' = [info EXCEPT ![w] = reservations],
           to = "awaiting" => FALSE,
           to \in InCluster => \E i \in 1..Len(info'[w]) : info'[w][i].exec = place[w][1],
           pc[w] # "registering",
           python' \in [Place -> {"other", "current"}],
           UNCHANGED <<input_mode, reservations, inflight, place, failures, driverVars>>
    PROVE  IInv'
<1> USE DEF driverVars
<1>0. TypeOK /\ reservations \in Seq(Meta) /\ info \in [Num -> Seq(Meta)]
  BY DEF IInv, TypeOK
<1>1. /\ pc' \in [Num -> Steps] /\ pc'[w] = to
      /\ \A v \in Num : v # w => pc'[v] = pc[v]
  OBVIOUS
<1>2. /\ info' \in [Num -> Seq(Meta)] /\ info'[w] \in {info[w], reservations}
      /\ \A v \in Num : v # w => info'[v] = info[v]
  BY <1>0
<1>3. TypeOK'
  BY <1>0, <1>1, <1>2 DEF TypeOK
<1>4. Attempts'
  <2>1. \A m \in inflight : \/ m.mgr[2] < failures[m.num]
                            \/ pc'[m.num] = "registering" /\ m = NodeMeta(m.num)'
    <3>1. \A m \in inflight : m.num \in Num
      BY <1>0, TypeFacts DEF TypeOK
    <3> QED  BY <1>1, <3>1 DEF IInv, Attempts, NodeMeta, Mgr
  <2>2. \A v \in Num : pc'[v] # "pending" => pc[v] # "pending"
    BY <1>1
  <2>3. \A v \in Num : Active(v)' => Active(v)
    BY <1>1 DEF Active
  <2> QED  BY <2>1, <2>2, <2>3 DEF IInv, Attempts
<1>5. Views'
  <2>1. \A v \in Num : /\ Len(info'[v]) <= Len(reservations)
                       /\ \A i \in 1..Len(info'[v]) : info'[v][i] = reservations[i]
    <3> SUFFICES ASSUME NEW v \in Num
                 PROVE  /\ Len(info'[v]) <= Len(reservations)
                        /\ \A i \in 1..Len(info'[v]) : info'[v][i] = reservations[i]
      OBVIOUS
    <3>1. Len(reservations) \in Nat
      BY <1>0
    <3>2. CASE info'[v] = info[v]
      BY <3>2 DEF IInv, Views
    <3>3. CASE info'[v] = reservations
      BY <3>1, <3>3
    <3> QED  BY <1>2, <3>2, <3>3
  <2>2. \A v \in Num : pc'[v] = "awaiting" =>
           \E i \in 1..Len(reservations) : reservations[i].exec = place[v][1]
    BY <1>1 DEF IInv, Views
  <2>3. \A v \in Num : pc'[v] \in InCluster =>
           \E i \in 1..Len(info'[v]) : info'[v][i].exec = place[v][1]
    BY <1>1, <1>2 DEF IInv, Views
  <2> QED  BY <2>1, <2>2, <2>3 DEF Views
<1> QED  BY <1>3, <1>4, <1>5 DEF IInv

LEMMA StartManagerKeeps == ASSUME IInv, NEW w \in Num, StartManager(w) PROVE IInv'
<1>1. /\ pc \in [Num -> Steps] /\ python \in [Place -> {"other", "current"}]
      /\ pc[w] = "started"
  BY DEF IInv, TypeOK, StartManager, Step
<1>2. python' \in [Place -> {"other", "current"}]
  BY <1>1 DEF StartManager
<1>3. "managed" \in Steps \ {"pending", "started", "registering"} /\ "managed" \notin InCluster
  BY DEF Steps, InCluster
<1> QED  BY <1>1, <1>2, <1>3, TaskKeeps DEF StartManager, Step, Active, serverVars

LEMMA CheckServerKeeps == ASSUME IInv, NEW w \in Num, CheckServer(w) PROVE IInv'
<1> USE DEF serverVars, attemptVars
<1>1. /\ pc \in [Num -> Steps] /\ python \in [Place -> {"other", "current"}]
      /\ pc[w] = "managed" /\ info \in [Num -> Seq(Meta)] /\ TypeOK
  BY DEF IInv, TypeOK, CheckServer, Step
<1>2. PICK to \in {"ready", "fresh"} :
        /\ pc' = [pc EXCEPT ![w] = to]
        /\ to = "ready" => Matches(reservations, place[w][1]) # {}
  BY DEF CheckServer, Step, Reserved
<1>3. info'[w] = reservations /\ info' = [info EXCEPT ![w] = reservations]
  BY <1>1 DEF CheckServer
<1>4. to \in InCluster => \E i \in 1..Len(info'[w]) : info'[w][i].exec = place[w][1]
  BY <1>1, <1>2, <1>3, TypeFacts DEF Matches, InCluster
<1>5. to \in Steps \ {"pending", "started", "registering"}
  BY DEF Steps
<1> QED  BY <1>1, <1>2, <1>3, <1>4, <1>5, TaskKeeps DEF CheckServer, Active

LEMMA AwaitReservationsKeeps == ASSUME IInv, NEW w \in Num, AwaitReservations(w) PROVE IInv'
<1> USE DEF serverVars, attemptVars
<1>1. /\ pc \in [Num -> Steps] /\ python \in [Place -> {"other", "current"}]
      /\ pc[w] = "awaiting" /\ info \in [Num -> Seq(Meta)] /\ TypeOK
  BY DEF IInv, TypeOK, AwaitReservations, Step
<1>2. info'[w] = reservations /\ info' = [info EXCEPT ![w] = reservations]
  BY <1>1 DEF AwaitReservations
<1>3. \E i \in 1..Len(info'[w]) : info'[w][i].exec = place[w][1]
  BY <1>1, <1>2 DEF IInv, Views
<1>4. "ready" \in Steps \ {"pending", "started", "registering"}
  BY DEF Steps
<1> QED  BY <1>1, <1>2, <1>3, <1>4, TaskKeeps DEF AwaitReservations, Step, Active

LEMMA LaunchKeeps ==
    ASSUME IInv, NEW w \in Num, Launch(w) \/ ForegroundEnds(w)
    PROVE  IInv'
<1> USE DEF serverVars, attemptVars
<1>1. /\ pc \in [Num -> Steps] /\ python \in [Place -> {"other", "current"}]
      /\ pc[w] \in {"ready", "launched"}
      /\ UNCHANGED <<input_mode, serverVars, attemptVars, info, driverVars>>
  BY DEF IInv, TypeOK, Launch, ForegroundEnds, Step
<1>2. PICK to \in {"launched", "finished", "ended"} : pc' = [pc EXCEPT ![w] = to]
  BY DEF Launch, ForegroundEnds, Step
<1>3. \E i \in 1..Len(info'[w]) : info'[w][i].exec = place[w][1]
  BY <1>1 DEF IInv, Views, InCluster
<1>4. to \in Steps \ {"pending", "started", "registering"}
  BY DEF Steps
<1> QED  BY <1>1, <1>2, <1>3, <1>4, TaskKeeps DEF Active

LEMMA RegisterKeeps == ASSUME IInv, NEW w \in Num, Register(w) PROVE IInv'
<1> USE DEF serverVars, attemptVars, driverVars
<1>0. /\ TypeOK /\ pc[w] = "fresh" /\ inflight' = inflight \cup {NodeMeta(w)}
      /\ UNCHANGED <<input_mode, reservations, attemptVars, info, driverVars>>
  BY DEF IInv, Register, Step
<1>1. /\ pc' \in [Num -> Steps] /\ pc'[w] = "registering"
      /\ \A v \in Num : v # w => pc'[v] = pc[v]
  BY <1>0 DEF Register, Step, TypeOK, Steps
<1>2. NodeMeta(w) \in Meta /\ NodeMeta(w).num = w
  BY <1>0, NodeMetaFields DEF IInv, Attempts
<1>3. TypeOK'
  BY <1>0, <1>1, <1>2 DEF TypeOK
<1>4. Attempts'
  <2>1. \A m \in inflight' : \/ m.mgr[2] < failures[m.num]
                             \/ pc'[m.num] = "registering" /\ m = NodeMeta(m.num)'
    <3>1. \A m \in inflight : m.num \in Num
      BY <1>0, TypeFacts DEF TypeOK
    <3>2. \A v : NodeMeta(v)' = NodeMeta(v)
      BY <1>0 DEF NodeMeta, Mgr
    <3> QED  BY <1>0, <1>1, <1>2, <3>1, <3>2 DEF IInv, Attempts
  <2>2. \A v \in Num : Active(v)' <=> Active(v)
    BY <1>0, <1>1 DEF Active
  <2> QED  BY <1>0, <1>1, <2>1, <2>2 DEF IInv, Attempts
<1>5. Views'
  BY <1>0, <1>1 DEF IInv, Views, InCluster
<1> QED  BY <1>3, <1>4, <1>5 DEF IInv

\* Who handles a REG: the node that waits for it goes on, and no other.
LEMMA HandleEffect ==
    ASSUME IInv, NEW m \in inflight, HandleRegister(m)
    PROVE  /\ m \in Meta /\ m.num \in Num
           /\ reservations' \in Seq(Meta) /\ Len(reservations') = Len(reservations) + 1
           /\ \A i \in 1..Len(reservations) : reservations'[i] = reservations[i]
           /\ reservations'[Len(reservations) + 1] = m
           /\ pc' \in [Num -> Steps]
           /\ \A v \in Num : pc'[v] = pc[v]
                \/ (v = m.num /\ pc[v] = "registering" /\ pc'[v] = "awaiting" /\ m = NodeMeta(v))
           /\ pc'[m.num] = "awaiting" \/ m.mgr[2] < failures[m.num]
           /\ inflight' = inflight \ {m}
<1>0. TypeOK /\ reservations \in Seq(Meta) /\ pc \in [Num -> Steps] /\ inflight \subseteq Meta
  BY DEF IInv, TypeOK
<1>1. m \in Meta /\ m.num \in Num /\ m.mgr[2] \in Nat /\ failures[m.num] \in Nat
  BY <1>0, TypeFacts
<1>2. reservations' = Append(reservations, m) /\ inflight' = inflight \ {m}
  BY DEF HandleRegister, Added
<1>3. \/ m.mgr[2] < failures[m.num]
      \/ pc[m.num] = "registering" /\ m = NodeMeta(m.num) /\ m.mgr = Mgr(m.num)
  <2>1. NodeMeta(m.num).mgr = Mgr(m.num)
    BY DEF NodeMeta
  <2> QED  BY <2>1 DEF IInv, Attempts
<1>4. CASE pc[m.num] = "registering" /\ m.mgr = Mgr(m.num)
  <2>1. pc' = [pc EXCEPT ![m.num] = "awaiting"]
    BY <1>4 DEF HandleRegister
  <2>2. m = NodeMeta(m.num)
    <3>1. m.mgr[2] = failures[m.num]
      BY <1>4 DEF Mgr
    <3> QED  BY <1>1, <1>3, <3>1
  <2>3. /\ pc' \in [Num -> Steps] /\ pc'[m.num] = "awaiting"
        /\ \A v \in Num : v # m.num => pc'[v] = pc[v]
    BY <1>0, <1>1, <2>1 DEF Steps
  <2> QED  BY <1>0, <1>1, <1>2, <1>4, <2>2, <2>3, AppendFacts
<1>5. CASE ~(pc[m.num] = "registering" /\ m.mgr = Mgr(m.num))
  <2>1. pc' = pc /\ m.mgr[2] < failures[m.num]
    BY <1>3, <1>5 DEF HandleRegister
  <2> QED  BY <1>0, <1>1, <1>2, <2>1, AppendFacts
<1> QED  BY <1>4, <1>5

LEMMA HandleRegisterKeeps == ASSUME IInv, NEW m \in inflight, HandleRegister(m) PROVE IInv'
<1> USE DEF attemptVars, driverVars
<1>0. /\ TypeOK /\ UNCHANGED <<input_mode, attemptVars, info, driverVars>>
      /\ Len(reservations) \in Nat
  BY TypeFacts DEF IInv, HandleRegister
<1>1. /\ m \in Meta /\ m.num \in Num
      /\ reservations' \in Seq(Meta) /\ Len(reservations') = Len(reservations) + 1
      /\ \A i \in 1..Len(reservations) : reservations'[i] = reservations[i]
      /\ reservations'[Len(reservations) + 1] = m
      /\ pc' \in [Num -> Steps]
      /\ \A v \in Num : pc'[v] = pc[v]
           \/ (v = m.num /\ pc[v] = "registering" /\ pc'[v] = "awaiting" /\ m = NodeMeta(v))
      /\ pc'[m.num] = "awaiting" \/ m.mgr[2] < failures[m.num]
      /\ inflight' = inflight \ {m}
  BY HandleEffect
<1>2. TypeOK'
  BY <1>0, <1>1 DEF TypeOK
<1>3. Attempts'
  <2>1. \A v \in Num : (Active(v)' <=> Active(v)) /\ (pc'[v] = "pending" <=> pc[v] = "pending")
    BY <1>1 DEF Active
  <2>2. \A l \in inflight' : \/ l.mgr[2] < failures[l.num]
                             \/ pc'[l.num] = "registering" /\ l = NodeMeta(l.num)'
    <3>1. \A l \in inflight : l.num \in Num
      BY <1>0, TypeFacts DEF TypeOK
    <3>2. \A v : NodeMeta(v)' = NodeMeta(v)
      BY <1>0 DEF NodeMeta, Mgr
    <3> QED  BY <1>1, <3>1, <3>2 DEF IInv, Attempts
  <2> QED  BY <1>0, <2>1, <2>2 DEF IInv, Attempts
<1>4. Views'
  <2>1. \A v \in Num : /\ Len(info[v]) <= Len(reservations')
                       /\ \A i \in 1..Len(info[v]) : info[v][i] = reservations'[i]
    BY <1>0, <1>1, TypeFacts DEF IInv, Views
  <2>2. \A v \in Num : pc'[v] = "awaiting" =>
           \E i \in 1..Len(reservations') : reservations'[i].exec = place[v][1]
    <3> SUFFICES ASSUME NEW v \in Num, pc'[v] = "awaiting"
                 PROVE  \E i \in 1..Len(reservations') : reservations'[i].exec = place[v][1]
      OBVIOUS
    <3>1. CASE pc[v] = "awaiting"
      <4>1. PICK i \in 1..Len(reservations) : reservations[i].exec = place[v][1]
        BY <3>1 DEF IInv, Views
      <4>2. i \in 1..Len(reservations') /\ reservations'[i] = reservations[i]
        BY <1>0, <1>1
      <4> QED  BY <4>1, <4>2
    <3>2. CASE pc[v] # "awaiting"
      <4>1. m = NodeMeta(v) /\ m.exec = place[v][1]
        BY <1>1, <3>2 DEF NodeMeta
      <4>2. Len(reservations) + 1 \in 1..Len(reservations')
        BY <1>0, <1>1
      <4> QED  BY <1>1, <4>1, <4>2
    <3> QED  BY <3>1, <3>2
  <2>3. \A v \in Num : pc'[v] \in InCluster =>
           \E i \in 1..Len(info[v]) : info[v][i].exec = place[v][1]
    BY <1>1 DEF IInv, Views, InCluster
  <2> QED  BY <1>0, <2>1, <2>2, <2>3 DEF Views
<1> QED  BY <1>2, <1>3, <1>4 DEF IInv

LEMMA StepIInv == IInv /\ [Next]_vars => IInv'
<1> SUFFICES ASSUME IInv, [Next]_vars PROVE IInv'
  OBVIOUS
<1> USE DEF serverVars, attemptVars, driverVars
<1>0. TypeOK
  BY DEF IInv
<1>1. CASE UNCHANGED vars
  BY <1>1 DEF vars, IInv, TypeOK, Attempts, Active, NodeMeta, Mgr, Views
<1>2. ASSUME NEW w \in Num, Task(w) PROVE IInv'
  <2>1. ASSUME NEW p \in Place, Schedule(w, p) PROVE IInv'
    BY <2>1, ScheduleKeeps
  <2>2. CASE RefuseSecondNode(w)
    BY <1>0, <2>2, FailKeeps DEF RefuseSecondNode, Active, TypeOK
  <2> QED  BY <1>2, <2>1, <2>2, StartManagerKeeps, CheckServerKeeps, RegisterKeeps,
              AwaitReservationsKeeps, LaunchKeeps DEF Task
<1>3. ASSUME NEW w \in Num, ForegroundEnds(w) PROVE IInv'
  BY <1>3, LaunchKeeps
<1>4. ASSUME NEW w \in Num, Crash(w) PROVE IInv'
  <2>1. crashes' \in 0..MaxCrashes[input_mode]
    BY <1>0, <1>4, ConstantFacts DEF Crash, TypeOK
  <2>2. orderly' \in BOOLEAN
    BY <1>4, Zenon DEF Crash
  <2> QED  BY <1>4, <2>1, <2>2, FailKeeps DEF Crash
<1>5. ASSUME NEW m \in inflight, HandleRegister(m) PROVE IInv'
  BY <1>5, HandleRegisterKeeps
<1>6. CASE DriverReturns \/ DriverChecks
  <2>1. /\ UNCHANGED <<input_mode, serverVars, pc, attemptVars, info, job, crashes, orderly>>
        /\ driver' \in {"returned", "ok", "duplicate"}
    BY <1>6 DEF DriverReturns, DriverChecks
  <2>2. TypeOK'
    BY <1>0, <2>1 DEF TypeOK
  <2> QED  BY <2>1, <2>2 DEF IInv, Attempts, Active, NodeMeta, Mgr, Views
<1> QED  BY <1>1, <1>2, <1>3, <1>4, <1>5, <1>6 DEF Next

LEMMA IInvInvariant == Spec => []IInv
BY InitIInv, StepIInv, PTL DEF Spec

\* Whatever tasks fail, wherever Spark puts them and however many slots its executors
\* have: any two cluster_infos agree as far as both go, and a node that runs finds its
\* own executor in the one it uses.
THEOREM ViewsAlwaysConsistent == Spec => []ViewsConsistent
<1>1. ASSUME IInv PROVE ViewsConsistent
  <2>1. TypeOK
    BY <1>1 DEF IInv
  <2>2. ASSUME NEW w \in Num, Running(w) PROVE Matches(info[w], place[w][1]) # {}
    BY <1>1, <2>1, <2>2, TypeFacts DEF IInv, Views, Running, InCluster, Matches
  <2>3. ASSUME NEW v \in Num, NEW w \in Num, Len(info[v]) <= Len(info[w])
        PROVE  IsPrefix(info[v], info[w])
    <3>1. /\ info[v] \in Seq(Meta) /\ info[w] \in Seq(Meta)
          /\ \A i \in 1..Len(info[v]) : info[v][i] = info[w][i]
      BY <1>1, <2>1, <2>3, TypeFacts DEF IInv, Views
    <3> QED  BY <2>3, <3>1 DEF IsPrefix
  <2>4. \A v, w \in Num : IsPrefix(info[v], info[w]) \/ IsPrefix(info[w], info[v])
    BY <2>1, <2>3, TypeFacts
  <2> QED  BY <2>1, <2>2, <2>4 DEF ViewsConsistent, ViewsComparable
<1> QED  BY <1>1, IInvInvariant, PTL

-----------------------------------------------------------------------------
(* One task per executor.                                                  *)

\* "the number of tasks per executors == 1".
OneSlot == \A s, t \in Slot : s = t

\* There are as many executors as nodes, or fewer.
NoSpareExecutor == IsFiniteSet(Executor) /\ Cardinality(Executor) <= NumExecutors

Full == Len(reservations) >= NumExecutors

\* As long as no task has failed: an entry is that of a node which has registered and
\* still holds its place, at least until the list is full; and a manager of this
\* cluster is that of a task.
Early ==
    NoneFailed =>
      /\ \A i \in 1..Len(reservations) :
           /\ reservations[i] = NodeMeta(reservations[i].num)
           /\ pc[reservations[i].num] \in Registered
      /\ \A i, j \in 1..Len(reservations) : reservations[i].num = reservations[j].num => i = j
      /\ \A i, j \in 1..Len(reservations) : reservations[i].exec = reservations[j].exec => i = j
      /\ \A w \in Num : pc[w] \in Registered =>
           \E i \in 1..Len(reservations) : reservations[i].num = w
      /\ ~Full => \A w \in Num : pc[w] \notin InCluster
      /\ \A p \in Place : python[p] = "current" =>
           \E w \in Num : pc[w] \notin {"pending", "started"} /\ place[w] = p

\* The first entries of a full list are all nodes.
Complete == \A n \in Num : \E i \in 1..NumExecutors : reservations[i].num = n

\* They are all executors, too, and nobody is about to add another.
Sealed ==
    /\ Len(reservations) = NumExecutors
    /\ \A e \in Executor : \E i \in 1..NumExecutors : reservations[i].exec = e
    /\ \A i, j \in 1..NumExecutors : reservations[i].exec = reservations[j].exec => i = j
    /\ inflight = {}
    /\ \A w \in Num : pc[w] \notin {"fresh", "registering"}

\* As long as the start is orderly: nothing fails before the list is full, which from
\* then on is complete and, for want of other executors, stays as it is.
Late ==
    orderly =>
      /\ ~Full => NoneFailed
      /\ driver # "awaiting" => Full
      /\ Full => /\ Complete
                 /\ \A w \in Num : pc[w] \in InCluster => Len(info[w]) >= NumExecutors
                 /\ NoSpareExecutor => Sealed

LEMMA SamePlace ==
    ASSUME OneSlot, NEW p \in Place, NEW q \in Place, p[1] = q[1]
    PROVE  p = q
BY DEF OneSlot, Place

\* Different entries, as many as there are values or more, have all values.
LEMMA PigeonHole ==
    ASSUME NEW n \in Nat, NEW T, IsFiniteSet(T), NEW f \in [1..n -> T],
           \A i, j \in 1..n : f[i] = f[j] => i = j
    PROVE  /\ n <= Cardinality(T)
           /\ Cardinality(T) <= n => \A t \in T : \E i \in 1..n : f[i] = t
<1>1. f \in Injection(1..n, T)
  BY DEF Injection, IsInjective
<1>2. Cardinality(1..n) = n
  BY FS_Interval
<1>3. Cardinality(T) \in Nat
  BY FS_CardinalityType
<1>4. n <= Cardinality(T) /\ (n = Cardinality(T) <=> f \in Surjection(1..n, T))
  BY <1>1, <1>2, FS_Injection
<1> QED  BY <1>3, <1>4 DEF Surjection

LEMMA NumFinite == IsFiniteSet(Num) /\ Cardinality(Num) = NumExecutors
BY ConstantFacts, FS_Interval DEF Num

\* A list with each number once that is full has all numbers.
LEMMA FullList ==
    ASSUME NEW r \in Seq(Meta),
           \A i, j \in 1..Len(r) : r[i].num = r[j].num => i = j
    PROVE  /\ Len(r) <= NumExecutors
           /\ Len(r) >= NumExecutors => \A n \in Num : \E i \in 1..NumExecutors : r[i].num = n
<1> DEFINE f == [i \in 1..Len(r) |-> r[i].num]
<1>1. Len(r) \in Nat /\ \A i \in 1..Len(r) : r[i].num \in Num
  <2>1. Len(r) \in Nat /\ \A i \in 1..Len(r) : r[i] \in Meta
    OBVIOUS
  <2> QED  BY <2>1 DEF Meta
<1>2. f \in [1..Len(r) -> Num] /\ \A i, j \in 1..Len(r) : f[i] = f[j] => i = j
  BY <1>1
<1>3. /\ Len(r) <= NumExecutors
      /\ NumExecutors <= Len(r) => \A n \in Num : \E i \in 1..Len(r) : f[i] = n
  <2> HIDE DEF f
  <2> QED  BY <1>1, <1>2, NumFinite, PigeonHole
<1> QED  BY <1>1, <1>3, ConstantFacts

\* The same for executors, if there are not more of them than nodes.
LEMMA FullExecutors ==
    ASSUME NEW r \in Seq(Meta), Len(r) = NumExecutors, NoSpareExecutor,
           \A i, j \in 1..Len(r) : r[i].exec = r[j].exec => i = j
    PROVE  \A e \in Executor : \E i \in 1..NumExecutors : r[i].exec = e
<1> DEFINE f == [i \in 1..Len(r) |-> r[i].exec]
<1>1. Len(r) \in Nat /\ \A i \in 1..Len(r) : r[i].exec \in Executor
  <2>1. Len(r) \in Nat /\ \A i \in 1..Len(r) : r[i] \in Meta
    OBVIOUS
  <2> QED  BY <2>1 DEF Meta
<1>2. f \in [1..Len(r) -> Executor] /\ \A i, j \in 1..Len(r) : f[i] = f[j] => i = j
  BY <1>1
<1>3. \A e \in Executor : \E i \in 1..Len(r) : f[i] = e
  <2> HIDE DEF f
  <2> QED  BY <1>1, <1>2, PigeonHole, SMTT(30) DEF NoSpareExecutor
<1> QED  BY <1>3

\* When the list is full without a failure, everybody has registered.
LEMMA EarlyFull ==
    ASSUME IInv, Early, NoneFailed, Full
    PROVE  \A w \in Num : pc[w] \in Registered
<1>1. reservations \in Seq(Meta)
  BY DEF IInv, TypeOK
<1>2. \A n \in Num : \E i \in 1..NumExecutors : reservations[i].num = n
  BY <1>1, FullList DEF Early, Full
<1>3. 1..NumExecutors \subseteq 1..Len(reservations)
  BY <1>1, ConstantFacts DEF Full
<1> QED  BY <1>2, <1>3 DEF Early

-----------------------------------------------------------------------------
(* Before a failure.                                                       *)

LEMMA InitEarly == Init => Early
BY ConstantFacts DEF Init, Early, Registered, InCluster

\* A task goes on, registered or not as before.
LEMMA EarlyTaskKeeps ==
    ASSUME IInv, Early, NEW w \in Num, NEW to \in Steps \ {"pending", "started"},
           pc' = [pc EXCEPT ![w] = to], pc[w] # "pending",
           NoneFailed => (pc[w] \in Registered <=> to \in Registered),
           NoneFailed => (to \in InCluster => Full),
           \A p \in Place : python'[p] = "current" => python[p] = "current" \/ p = place[w],
           UNCHANGED <<reservations, place, failures>>
    PROVE  Early'
<1>1. pc \in [Num -> Steps] /\ \A i \in 1..Len(reservations) : reservations[i].num \in Num
  BY TypeFacts DEF IInv, TypeOK
<1>2. pc'[w] = to /\ \A v \in Num : v # w => pc'[v] = pc[v]
  BY <1>1
<1> SUFFICES ASSUME NoneFailed PROVE Early!2'
  BY DEF Early, NoneFailed
<1>3. \A i \in 1..Len(reservations) :
           /\ reservations[i] = NodeMeta(reservations[i].num)'
           /\ pc'[reservations[i].num] \in Registered
  BY <1>1, <1>2 DEF Early, NodeMeta, Mgr
<1>4. \A v \in Num : pc'[v] \in Registered => pc[v] \in Registered
  BY <1>2
<1>5. ~Full' => \A v \in Num : pc'[v] \notin InCluster
  BY <1>2 DEF Early, Full
<1>6. \A p \in Place : python'[p] = "current" =>
           \E v \in Num : pc'[v] \notin {"pending", "started"} /\ place[v] = p
  BY <1>2 DEF Early
<1> QED  BY <1>3, <1>4, <1>5, <1>6 DEF Early

LEMMA StepEarly == ASSUME OneSlot PROVE IInv /\ Early /\ [Next]_vars => Early'
<1> SUFFICES ASSUME IInv, Early, [Next]_vars PROVE Early'
  OBVIOUS
<1> USE DEF serverVars, attemptVars, driverVars
<1>0. /\ TypeOK /\ pc \in [Num -> Steps] /\ reservations \in Seq(Meta) /\ Len(reservations) \in Nat
      /\ \A i \in 1..Len(reservations) : reservations[i].num \in Num
  BY TypeFacts DEF IInv, TypeOK
<1>1. CASE UNCHANGED vars
  BY <1>1 DEF vars, Early, NoneFailed, NodeMeta, Mgr, Full
<1>2. ASSUME NEW w \in Num, NEW p \in Place, Schedule(w, p) PROVE Early'
  <2>1. /\ pc[w] = "pending" /\ pc'[w] = "started" /\ \A v \in Num : v # w => pc'[v] = pc[v]
        /\ \A v \in Num : v # w => place'[v] = place[v]
        /\ UNCHANGED <<reservations, failures, python>>
    BY <1>0, <1>2 DEF Schedule, Step, TypeOK
  <2> SUFFICES ASSUME NoneFailed PROVE Early!2'
    BY <2>1 DEF Early, NoneFailed
  <2>2. \A i \in 1..Len(reservations) : reservations[i].num # w
    BY <2>1 DEF Early, Registered
  <2>3. \A i \in 1..Len(reservations) :
           /\ reservations[i] = NodeMeta(reservations[i].num)'
           /\ pc'[reservations[i].num] \in Registered
    BY <1>0, <2>1, <2>2 DEF Early, NodeMeta, Mgr
  <2>4. \A v \in Num : pc'[v] \in Registered => pc[v] \in Registered
    BY <2>1 DEF Registered
  <2>5. ~Full' => \A v \in Num : pc'[v] \notin InCluster
    BY <2>1 DEF Early, Full, InCluster
  <2>6. \A q \in Place : python'[q] = "current" =>
           \E v \in Num : pc'[v] \notin {"pending", "started"} /\ place'[v] = q
    <3> SUFFICES ASSUME NEW q \in Place, python'[q] = "current"
                 PROVE  \E v \in Num : pc'[v] \notin {"pending", "started"} /\ place'[v] = q
      OBVIOUS
    <3>1. PICK v \in Num : pc[v] \notin {"pending", "started"} /\ place[v] = q
      BY <2>1 DEF Early
    <3> QED  BY <2>1, <3>1
  <2> QED  BY <2>1, <2>3, <2>4, <2>5, <2>6 DEF Early
<1>3. ASSUME NEW w \in Num, RefuseSecondNode(w) \/ Crash(w) PROVE Early'
  <2>1. failures'[w] = failures[w] + 1 /\ failures[w] \in Nat
    BY <1>0, <1>3, TypeFacts DEF RefuseSecondNode, Crash, FailAttempt, TypeOK
  <2>2. ~NoneFailed'
    BY <2>1 DEF NoneFailed
  <2> QED  BY <2>2 DEF Early
<1>4. ASSUME NEW w \in Num, StartManager(w) PROVE Early'
  <2>1. /\ pc[w] = "started" /\ pc' = [pc EXCEPT ![w] = "managed"]
        /\ \A p \in Place : python'[p] = "current" => python[p] = "current" \/ p = place[w]
        /\ UNCHANGED <<reservations, place, failures>>
    BY <1>0, <1>4 DEF StartManager, Step, TypeOK
  <2> QED  BY <2>1, EarlyTaskKeeps DEF Steps, Registered, InCluster
<1>5. ASSUME NEW w \in Num, CheckServer(w) PROVE Early'
  <2>1. /\ pc[w] = "managed" /\ pc' = [pc EXCEPT ![w] = IF Reserved(w) THEN "ready" ELSE "fresh"]
        /\ UNCHANGED <<reservations, place, failures, python>>
    BY <1>5 DEF CheckServer, Step
  <2>2. NoneFailed => ~Reserved(w)
    <3> SUFFICES ASSUME NoneFailed, Reserved(w) PROVE FALSE
      OBVIOUS
    <3>1. ~Full
      BY <2>1, EarlyFull DEF Registered
    <3>2. PICK i \in 1..Len(reservations) : reservations[i].exec = place[w][1]
      BY <1>0, TypeFacts DEF Reserved, Matches
    <3> DEFINE v == reservations[i].num
    <3>3. v \in Num /\ reservations[i] = NodeMeta(v) /\ pc[v] \in Registered /\ pc[v] \notin InCluster
      BY <1>0, <3>1 DEF Early
    <3>4. place[v] \in Place /\ place[w] \in Place
      BY <2>1, <3>3 DEF IInv, Attempts, Registered
    <3>5. place[v][1] = place[w][1]
      BY <1>0, <3>2, <3>3, <3>4, NodeMetaFields
    <3>6. place[v] = place[w]
      BY <3>4, <3>5, SamePlace
    <3>7. Active(v) /\ Active(w) /\ v # w
      BY <2>1, <3>3 DEF Active, Registered, InCluster
    <3> QED  BY <3>3, <3>6, <3>7 DEF IInv, Attempts
  <2> DEFINE to == IF Reserved(w) THEN "ready" ELSE "fresh"
  <2>3. to \in Steps \ {"pending", "started"}
    BY DEF Steps
  <2>4. NoneFailed => (pc[w] \in Registered <=> to \in Registered) /\ (to \in InCluster => Full)
    BY <2>1, <2>2 DEF Registered, InCluster
  <2> HIDE DEF to
  <2>5. pc' = [pc EXCEPT ![w] = to]
    BY <2>1 DEF to
  <2> QED  BY <2>1, <2>3, <2>4, <2>5, EarlyTaskKeeps
<1>6. ASSUME NEW w \in Num, Register(w) PROVE Early'
  <2>1. /\ pc[w] = "fresh" /\ pc' = [pc EXCEPT ![w] = "registering"]
        /\ UNCHANGED <<reservations, place, failures, python>>
    BY <1>6 DEF Register, Step
  <2> QED  BY <2>1, EarlyTaskKeeps DEF Steps, Registered, InCluster
<1>7. ASSUME NEW w \in Num, AwaitReservations(w) PROVE Early'
  <2>1. /\ pc[w] = "awaiting" /\ pc' = [pc EXCEPT ![w] = "ready"] /\ Full
        /\ UNCHANGED <<reservations, place, failures, python>>
    BY <1>7 DEF AwaitReservations, Step, done, Full
  <2> QED  BY <2>1, EarlyTaskKeeps DEF Steps, Registered, InCluster
<1>8. ASSUME NEW w \in Num, Launch(w) \/ ForegroundEnds(w) PROVE Early'
  <2>1. /\ pc[w] \in {"ready", "launched"}
        /\ UNCHANGED <<reservations, place, failures, python>>
    BY <1>8 DEF Launch, ForegroundEnds, Step
  <2>2. PICK to \in {"launched", "finished", "ended"} : pc' = [pc EXCEPT ![w] = to]
    BY <1>8 DEF Launch, ForegroundEnds, Step
  <2>3. to \in Steps \ {"pending", "started"} /\ to \in Registered /\ pc[w] \in Registered
        /\ pc[w] \in InCluster
    BY <2>1 DEF Steps, Registered, InCluster
  <2>4. NoneFailed => Full
    BY <2>3 DEF Early
  <2> QED  BY <2>1, <2>2, <2>3, <2>4, EarlyTaskKeeps
<1>9. ASSUME NEW m \in inflight, HandleRegister(m) PROVE Early'
  <2>1. /\ m \in Meta /\ m.num \in Num
        /\ reservations' \in Seq(Meta) /\ Len(reservations') = Len(reservations) + 1
        /\ \A i \in 1..Len(reservations) : reservations'[i] = reservations[i]
        /\ reservations'[Len(reservations) + 1] = m
        /\ \A v \in Num : pc'[v] = pc[v]
             \/ (v = m.num /\ pc[v] = "registering" /\ pc'[v] = "awaiting" /\ m = NodeMeta(v))
        /\ pc'[m.num] = "awaiting" \/ m.mgr[2] < failures[m.num]
    BY <1>9, HandleEffect
  <2>2. UNCHANGED <<place, failures, python>>
    BY <1>9 DEF HandleRegister
  <2> SUFFICES ASSUME NoneFailed PROVE Early!2'
    BY <2>2 DEF Early, NoneFailed
  <2>3. /\ m = NodeMeta(m.num) /\ pc[m.num] = "registering" /\ pc'[m.num] = "awaiting"
        /\ \A v \in Num : v # m.num => pc'[v] = pc[v]
    <3>1. ~(m.mgr[2] < failures[m.num])
      BY <1>0, <2>1, TypeFacts DEF NoneFailed
    <3>2. m = NodeMeta(m.num) /\ pc[m.num] = "registering"
      BY <3>1 DEF IInv, Attempts
    <3> QED  BY <2>1, <3>1, <3>2
  <2>4. ~Full
    BY <2>1, <2>3, EarlyFull DEF Registered
  <2>5. \A i \in 1..Len(reservations) :
          /\ reservations[i].num \in Num /\ reservations[i].num # m.num
          /\ reservations[i].exec # m.exec
    <3> SUFFICES ASSUME NEW i \in 1..Len(reservations)
                 PROVE  /\ reservations[i].num \in Num /\ reservations[i].num # m.num
                        /\ reservations[i].exec # m.exec
      OBVIOUS
    <3> DEFINE v == reservations[i].num
    <3>1. v \in Num /\ reservations[i] = NodeMeta(v) /\ pc[v] \in Registered /\ pc[v] \notin InCluster
      BY <1>0, <2>4 DEF Early
    <3>2. v # m.num
      BY <2>3, <3>1 DEF Registered
    <3>3. Active(v) /\ Active(m.num) /\ place[v] \in Place /\ place[m.num] \in Place
      BY <2>1, <2>3, <3>1 DEF Active, Registered, InCluster, IInv, Attempts
    <3>4. place[v][1] # place[m.num][1]
      BY <2>1, <3>1, <3>2, <3>3, SamePlace DEF IInv, Attempts
    <3>5. reservations[i].exec = place[v][1] /\ m.exec = place[m.num][1]
      BY <2>3, <3>1 DEF NodeMeta
    <3> QED  BY <3>1, <3>2, <3>4, <3>5
  <2>6. \A i \in 1..Len(reservations') :
          i \in 1..Len(reservations) \/ (i = Len(reservations) + 1 /\ reservations'[i] = m)
    BY <1>0, <2>1
  <2>7. \A i \in 1..Len(reservations') :
           /\ reservations'[i] = NodeMeta(reservations'[i].num)
           /\ pc'[reservations'[i].num] \in Registered
    <3> SUFFICES ASSUME NEW i \in 1..Len(reservations')
                 PROVE  /\ reservations'[i] = NodeMeta(reservations'[i].num)
                        /\ pc'[reservations'[i].num] \in Registered
      OBVIOUS
    <3>1. CASE i \in 1..Len(reservations)
      BY <2>1, <2>3, <2>5, <3>1 DEF Early
    <3>2. CASE reservations'[i] = m
      BY <2>3, <3>2 DEF Registered
    <3> QED  BY <2>6, <3>1, <3>2
  <2>8. (\A i \in 1..Len(reservations) :
           /\ reservations[i] = NodeMeta(reservations[i].num)
           /\ pc[reservations[i].num] \in Registered)'
    BY <2>2, <2>7 DEF NodeMeta, Mgr
  <2>9. /\ \A i, j \in 1..Len(reservations') : reservations'[i].num = reservations'[j].num => i = j
        /\ \A i, j \in 1..Len(reservations') : reservations'[i].exec = reservations'[j].exec => i = j
    BY <2>1, <2>5, <2>6 DEF Early
  <2>10. \A v \in Num : pc'[v] \in Registered =>
           \E i \in 1..Len(reservations') : reservations'[i].num = v
    <3> SUFFICES ASSUME NEW v \in Num, pc'[v] \in Registered
                 PROVE  \E i \in 1..Len(reservations') : reservations'[i].num = v
      OBVIOUS
    <3>1. CASE v = m.num
      <4>1. Len(reservations) + 1 \in 1..Len(reservations')
        BY <1>0, <2>1
      <4> QED  BY <2>1, <3>1, <4>1
    <3>2. CASE v # m.num
      <4>1. PICK i \in 1..Len(reservations) : reservations[i].num = v
        BY <2>3, <3>2 DEF Early
      <4>2. i \in 1..Len(reservations') /\ reservations'[i] = reservations[i]
        BY <1>0, <2>1
      <4> QED  BY <4>1, <4>2
    <3> QED  BY <3>1, <3>2
  <2>11. \A v \in Num : pc'[v] \notin InCluster
    BY <2>3, <2>4 DEF Early, InCluster
  <2>12. \A p \in Place : python'[p] = "current" =>
           \E v \in Num : pc'[v] \notin {"pending", "started"} /\ place'[v] = p
    BY <2>2, <2>3 DEF Early
  <2> QED  BY <2>8, <2>9, <2>10, <2>11, <2>12
<1>10. CASE DriverReturns \/ DriverChecks
  <2>1. UNCHANGED <<input_mode, serverVars, pc, attemptVars, info>>
    BY <1>10 DEF DriverReturns, DriverChecks
  <2> QED  BY <2>1 DEF Early, NoneFailed, NodeMeta, Mgr, Full
<1> QED  BY <1>1, <1>2, <1>3, <1>4, <1>5, <1>6, <1>7, <1>8, <1>9, <1>10 DEF Next, Task

\* With one task per executor and as long as no task has failed, the manager that
\* feeders and shutdown look up for an executor is the one its node reads from.
THEOREM ManagerFoundIfNoneFails ==
    ASSUME OneSlot PROVE Spec => []ManagerIsSingletonIfNoneFails
<1>1. ASSUME IInv, Early PROVE ManagerIsSingletonIfNoneFails
  <2> SUFFICES ASSUME NoneFailed, NEW w \in Num, Running(w)
               PROVE  \E i \in Matches(reservations, place[w][1]) :
                        /\ \A j \in Matches(reservations, place[w][1]) : i <= j
                        /\ reservations[i].mgr = Mgr(w)
    BY DEF ManagerIsSingletonIfNoneFails
  <2>1. Len(reservations) \in Nat /\ DOMAIN reservations = 1..Len(reservations)
    BY <1>1, TypeFacts DEF IInv
  <2>2. PICK i \in 1..Len(reservations) : reservations[i].num = w
    BY <1>1 DEF Early, Running, Registered
  <2>3. reservations[i].exec = place[w][1] /\ reservations[i].mgr = Mgr(w)
    <3>1. reservations[i] = NodeMeta(w)
      BY <1>1, <2>2 DEF Early
    <3> QED  BY <3>1 DEF NodeMeta
  <2>4. \A j \in Matches(reservations, place[w][1]) : j = i
    BY <1>1, <2>1, <2>3 DEF Early, Matches
  <2> QED  BY <2>1, <2>3, <2>4 DEF Matches
<1>2. IInv /\ Early /\ [Next]_vars => Early'
  BY StepEarly
<1> QED  BY <1>1, <1>2, InitEarly, IInvInvariant, PTL DEF Spec
-----------------------------------------------------------------------------
(* After an orderly start.                                                 *)

\* The list fills up without a failure.
LEMMA FullStart ==
    IInv /\ Early /\ NoneFailed /\ Full => Complete /\ (NoSpareExecutor => Sealed)
<1> SUFFICES ASSUME IInv, Early, NoneFailed, Full
             PROVE  Complete /\ (NoSpareExecutor => Sealed)
  OBVIOUS
<1>1. /\ reservations \in Seq(Meta)
      /\ \A i, j \in 1..Len(reservations) : reservations[i].num = reservations[j].num => i = j
      /\ \A i, j \in 1..Len(reservations) : reservations[i].exec = reservations[j].exec => i = j
  BY DEF IInv, TypeOK, Early
<1>2. Complete /\ Len(reservations) <= NumExecutors
  BY <1>1, FullList DEF Full, Complete
<1>3. Len(reservations) = NumExecutors
  BY <1>1, <1>2, ConstantFacts DEF Full
<1>4. \A w \in Num : pc[w] \in Registered
  BY EarlyFull
<1>5. inflight = {}
  <2> SUFFICES ASSUME NEW m \in inflight PROVE FALSE
    OBVIOUS
  <2>1. m.num \in Num /\ m.mgr[2] \in Nat /\ failures[m.num] = 0
    BY TypeFacts DEF IInv, TypeOK, NoneFailed
  <2>2. pc[m.num] = "registering"
    BY <2>1 DEF IInv, Attempts
  <2> QED  BY <1>4, <2>1, <2>2 DEF Registered
<1>6. \A w \in Num : pc[w] \notin {"fresh", "registering"}
  BY <1>4 DEF Registered
<1>7. ASSUME NoSpareExecutor
      PROVE  \A e \in Executor : \E i \in 1..NumExecutors : reservations[i].exec = e
  BY <1>1, <1>3, <1>7, FullExecutors
<1> QED  BY <1>1, <1>2, <1>3, <1>5, <1>6, <1>7 DEF Sealed

LEMMA InitLate == Init => Late
BY ConstantFacts DEF Init, Late, Full, NoneFailed

\* Before the list is full, only a crash can make a task fail.
LEMMA NoRefusalBeforeFull ==
    ASSUME IInv, Early, NoneFailed, ~Full, NEW w \in Num
    PROVE  ~RefuseSecondNode(w)
<1> SUFFICES ASSUME RefuseSecondNode(w) PROVE FALSE
  OBVIOUS
<1>1. pc[w] = "started" /\ python[place[w]] = "current"
  BY DEF RefuseSecondNode
<1>2. place[w] \in Place
  BY <1>1 DEF IInv, Attempts
<1>3. PICK v \in Num : pc[v] \notin {"pending", "started"} /\ place[v] = place[w]
  BY <1>1, <1>2 DEF Early
<1>4. Active(v) /\ Active(w)
  BY <1>1, <1>3 DEF Active, Early, InCluster
<1> QED  BY <1>1, <1>3, <1>4 DEF IInv, Attempts

\* What any step does to the list, and which do not leave it alone.
LEMMA ListGrows ==
    ASSUME IInv, [Next]_vars
    PROVE  /\ Len(reservations') \in Nat /\ Len(reservations) \in Nat
           /\ Len(reservations) <= Len(reservations')
           /\ \A i \in 1..Len(reservations) : reservations'[i] = reservations[i]
           /\ \/ UNCHANGED reservations
              \/ \E m \in inflight : HandleRegister(m)
<1>0. Len(reservations) \in Nat
  BY TypeFacts DEF IInv
<1>1. CASE \E m \in inflight : HandleRegister(m)
  <2>1. PICK m \in inflight : HandleRegister(m)
    BY <1>1
  <2>2. /\ Len(reservations') = Len(reservations) + 1
        /\ \A i \in 1..Len(reservations) : reservations'[i] = reservations[i]
    BY <2>1, HandleEffect
  <2> QED  BY <1>0, <1>1, <2>2
<1>2. CASE ~\E m \in inflight : HandleRegister(m)
  <2>1. UNCHANGED reservations
    BY <1>2 DEF Next, Task, vars, serverVars, Schedule, RefuseSecondNode, StartManager, CheckServer,
                Register, AwaitReservations, Launch, ForegroundEnds, Crash, DriverReturns, DriverChecks
  <2> QED  BY <1>0, <2>1
<1> QED  BY <1>1, <1>2

LEMMA StepLate == IInv /\ Early /\ Late /\ IInv' /\ Early' /\ [Next]_vars => Late'
<1> SUFFICES ASSUME IInv, Early, Late, IInv', Early', [Next]_vars, orderly' PROVE Late!2'
  BY DEF Late
<1> USE DEF serverVars, attemptVars, driverVars
<1>0. /\ TypeOK /\ pc \in [Num -> Steps] /\ info \in [Num -> Seq(Meta)]
      /\ NumExecutors \in Nat
  BY ConstantFacts DEF IInv, TypeOK
<1>1. ASSUME NEW w \in Num, Crash(w) PROVE orderly /\ driver = "ok"
  BY <1>1, Zenon DEF Crash
<1>2. orderly
  <2>1. CASE \E w \in Num : Crash(w)
    BY <1>1, <2>1
  <2>2. CASE ~\E w \in Num : Crash(w)
    BY <2>2 DEF Next, Task, vars, Schedule, RefuseSecondNode, StartManager, CheckServer, Register,
                AwaitReservations, Launch, ForegroundEnds, HandleRegister, DriverReturns, DriverChecks
  <2> QED  BY <2>1, <2>2
<1>3. /\ ~Full => NoneFailed
      /\ driver # "awaiting" => Full
      /\ Full => /\ Complete
                 /\ \A w \in Num : pc[w] \in InCluster => Len(info[w]) >= NumExecutors
                 /\ NoSpareExecutor => Sealed
  BY <1>2 DEF Late
<1>4. Full => Full'
  BY <1>0, ListGrows DEF Full
<1>5. ASSUME ~Full PROVE NoneFailed'
  <2>1. \A w \in Num : ~Crash(w) /\ ~RefuseSecondNode(w)
    BY <1>1, <1>3, <1>5, NoRefusalBeforeFull
  <2>2. UNCHANGED failures
    BY <2>1 DEF Next, Task, vars, Schedule, StartManager, CheckServer, Register, AwaitReservations,
                Launch, ForegroundEnds, HandleRegister, DriverReturns, DriverChecks
  <2> QED  BY <1>3, <1>5, <2>2 DEF NoneFailed
<1>6. driver' # "awaiting" => Full'
  <2>1. CASE DriverReturns
    BY <1>4, <2>1 DEF DriverReturns, done, Full
  <2>2. CASE ~DriverReturns
    <3>1. driver' # "awaiting" => driver # "awaiting"
      BY <2>2 DEF Next, Task, vars, Schedule, RefuseSecondNode, StartManager, CheckServer, Register,
                AwaitReservations, Launch, ForegroundEnds, Crash, HandleRegister, DriverChecks
    <3> QED  BY <1>3, <1>4, <3>1
  <2> QED  BY <2>1, <2>2
<1>7. ASSUME ~Full, Full' PROVE Complete' /\ (NoSpareExecutor => Sealed')
  <2>1. (IInv /\ Early /\ NoneFailed /\ Full)' => (Complete /\ (NoSpareExecutor => Sealed))'
    BY FullStart, PTL
  <2> QED  BY <1>5, <1>7, <2>1
<1>8. ASSUME Full PROVE Complete'
  <2>1. 1..NumExecutors \subseteq 1..Len(reservations)
    BY <1>0, <1>8, ListGrows DEF Full
  <2>2. \A i \in 1..NumExecutors : reservations'[i] = reservations[i]
    BY <2>1, ListGrows
  <2> QED  BY <1>3, <1>8, <2>2 DEF Complete
<1>9. ASSUME Full, NoSpareExecutor PROVE Sealed'
  <2>1. Sealed
    BY <1>3, <1>9
  <2>2. UNCHANGED reservations
    BY <2>1, ListGrows DEF Sealed
  <2>3. \A w \in Num : pc[w] = "managed" => Reserved(w)
    <3> SUFFICES ASSUME NEW w \in Num, pc[w] = "managed" PROVE Reserved(w)
      OBVIOUS
    <3>1. place[w][1] \in Executor
      BY PlaceFields DEF IInv, Attempts
    <3>2. PICK i \in 1..NumExecutors : reservations[i].exec = place[w][1]
      BY <2>1, <3>1 DEF Sealed
    <3>3. i \in DOMAIN reservations
      BY <1>0, <2>1, TypeFacts DEF Sealed
    <3> QED  BY <3>2, <3>3 DEF Reserved, Matches
  <2>4. \A w \in Num : ~Register(w)
    BY <2>1 DEF Register, Step, Sealed
  <2>5. inflight' = {}
    BY <2>1, <2>4 DEF Sealed, Next, Task, vars, Schedule, RefuseSecondNode, StartManager, CheckServer,
            AwaitReservations, Launch, ForegroundEnds, Crash, HandleRegister, DriverReturns, DriverChecks
  <2>6. \A v \in Num : pc'[v] \notin {"fresh", "registering"}
    <3> SUFFICES ASSUME NEW v \in Num PROVE pc'[v] \notin {"fresh", "registering"}
      OBVIOUS
    <3>1. \/ pc'[v] = pc[v]
          \/ pc'[v] \in {"pending", "started", "managed", "ready", "launched", "finished", "ended"}
      <4>1. CASE \E w \in Num : RefuseSecondNode(w) \/ Crash(w)
        BY <1>0, <4>1 DEF RefuseSecondNode, Crash, FailAttempt
      <4>2. CASE \E m \in inflight : HandleRegister(m)
        BY <2>1, <4>2 DEF Sealed
      <4>3. CASE \E w \in Num : (\E p \in Place : Schedule(w, p)) \/ StartManager(w)
                                \/ AwaitReservations(w) \/ Launch(w) \/ ForegroundEnds(w)
        BY <1>0, <4>3 DEF Schedule, StartManager, AwaitReservations, Launch, ForegroundEnds, Step
      <4>4. CASE \E w \in Num : CheckServer(w)
        BY <1>0, <2>3, <4>4 DEF CheckServer, Step
      <4> QED  BY <2>4, <4>1, <4>2, <4>3, <4>4 DEF Next, Task, vars, DriverReturns, DriverChecks
    <3> QED  BY <2>1, <3>1 DEF Sealed
  <2> QED  BY <2>1, <2>2, <2>5, <2>6 DEF Sealed
<1>10. ASSUME Full', NEW v \in Num, pc'[v] \in InCluster PROVE Len(info'[v]) >= NumExecutors
  <2>1. CASE \E w \in Num : CheckServer(w) \/ AwaitReservations(w)
    <3>1. PICK w \in Num : CheckServer(w) \/ AwaitReservations(w)
      BY <2>1
    <3>2. /\ info' = [info EXCEPT ![w] = reservations] /\ UNCHANGED reservations
          /\ \A u \in Num : u # w => pc'[u] = pc[u]
      BY <1>0, <3>1 DEF CheckServer, AwaitReservations, Step
    <3>3. Full
      BY <1>10, <3>2 DEF Full
    <3>4. CASE v = w
      BY <1>0, <3>2, <3>3, <3>4 DEF Full
    <3>5. CASE v # w
      BY <1>0, <1>3, <1>10, <3>2, <3>3, <3>5
    <3> QED  BY <3>4, <3>5
  <2>2. CASE ~\E w \in Num : CheckServer(w) \/ AwaitReservations(w)
    <3>1. pc[v] \in InCluster /\ info'[v] = info[v]
      <4>1. CASE \E w \in Num : RefuseSecondNode(w) \/ Crash(w)
        BY <1>0, <1>10, <4>1 DEF RefuseSecondNode, Crash, FailAttempt, InCluster
      <4>2. CASE \E m \in inflight : HandleRegister(m)
        BY <1>10, <4>2, HandleEffect DEF HandleRegister, InCluster
      <4>3. CASE \E w \in Num : (\E p \in Place : Schedule(w, p)) \/ StartManager(w) \/ Register(w)
                                \/ Launch(w) \/ ForegroundEnds(w)
        BY <1>0, <1>10, <4>3 DEF Schedule, StartManager, Register, Launch, ForegroundEnds, Step, InCluster
      <4> QED  BY <1>10, <2>2, <4>1, <4>2, <4>3 DEF Next, Task, vars, DriverReturns, DriverChecks
    <3>2. Full
      BY <1>3, <3>1 DEF Early
    <3> QED  BY <1>3, <3>1, <3>2
  <2> QED  BY <2>1, <2>2
<1> QED  BY <1>4, <1>5, <1>6, <1>7, <1>8, <1>9, <1>10

LEMMA AtMostOne == ASSUME NEW S, \A i, j \in S : i = j PROVE Cardinality(S) <= 1
<1>1. CASE S = {}
  BY <1>1, FS_EmptySet
<1>2. CASE S # {}
  <2>1. PICK x : S = {x}
    BY <1>2
  <2> QED  BY <2>1, FS_Singleton
<1> QED  BY <1>1, <1>2

LEMMA LateInvariant == ASSUME OneSlot PROVE Spec => [](IInv /\ Early /\ Late)
<1>1. IInv /\ Early /\ [Next]_vars => Early'
  BY StepEarly
<1> QED  BY <1>1, InitEarly, InitLate, StepLate, IInvInvariant, PTL DEF Spec

\* While the start is orderly, a node in the cluster has seen a full list.
LEMMA FullViews ==
    ASSUME IInv, Early, Late
    PROVE  FullClusterIfOrderly
<1> SUFFICES ASSUME orderly PROVE StartsWithFullCluster /\ DriverSeesEveryNode
  BY DEF FullClusterIfOrderly
<1>0. /\ NumExecutors \in Nat /\ Len(reservations) \in Nat
      /\ DOMAIN reservations = 1..Len(reservations)
      /\ \A i \in 1..Len(reservations) : reservations[i].num \in Num
      /\ \A w \in Num : Len(info[w]) \in Nat /\ DOMAIN info[w] = 1..Len(info[w])
  BY ConstantFacts, TypeFacts DEF IInv
<1>1. ASSUME NEW w \in Num, Running(w) PROVE NumsIn(info[w]) = Num
  <2>1. pc[w] \in InCluster
    BY <1>1 DEF Running, InCluster
  <2>2. Full
    BY <2>1 DEF Late, Early
  <2>3. Complete /\ Len(info[w]) >= NumExecutors
    BY <2>1, <2>2 DEF Late
  <2>4. /\ Len(info[w]) <= Len(reservations)
        /\ \A i \in 1..Len(info[w]) : info[w][i] = reservations[i]
    BY DEF IInv, Views
  <2>5. \A n \in Num : \E i \in DOMAIN info[w] : info[w][i].num = n
    BY <1>0, <2>3, <2>4 DEF Complete
  <2>6. \A i \in DOMAIN info[w] : info[w][i].num \in Num
    BY <1>0, <2>4
  <2> QED  BY <2>5, <2>6 DEF NumsIn
<1>2. ASSUME driver = "ok" PROVE NumsIn(reservations) = Num
  <2>1. Full /\ Complete
    BY <1>2 DEF Late
  <2>2. \A n \in Num : \E i \in DOMAIN reservations : reservations[i].num = n
    BY <1>0, <2>1 DEF Full, Complete
  <2> QED  BY <1>0, <2>2 DEF NumsIn
<1> QED  BY <1>1, <1>2 DEF StartsWithFullCluster, DriverSeesEveryNode

\* With one task per executor and as long as no task fails before run() has returned:
\* every node that runs has all nodes in its cluster_info and run() returns all of
\* them, whatever fails later, wherever it is retried and however many executors are
\* spare.
THEOREM OrderlyStartGivesFullCluster == ASSUME OneSlot PROVE Spec => []FullClusterIfOrderly
<1>1. Spec => [](IInv /\ Early /\ Late)
  BY LateInvariant
<1> QED  BY <1>1, FullViews, PTL

\* If there are no spare executors either, later retries find an entry to take over:
\* no executor gets a second one, and the list that run() returned stays as it was.
THEOREM OrderlyStartAlwaysLasts ==
    ASSUME OneSlot, NoSpareExecutor PROVE Spec => []OrderlyStartLasts
<1>1. ASSUME IInv, Early, Late PROVE RetryKeepsListIfOrderly
  <2> SUFFICES ASSUME orderly
               PROVE  /\ \A e \in Executor : Cardinality(Matches(reservations, e)) <= 1
                      /\ driver = "ok" => Len(reservations) = NumExecutors
    BY DEF RetryKeepsListIfOrderly
  <2>1. DOMAIN reservations = 1..Len(reservations)
    BY <1>1, TypeFacts DEF IInv
  <2>2. \A i, j \in 1..Len(reservations) : reservations[i].exec = reservations[j].exec => i = j
    BY <1>1 DEF Early, Late, Sealed
  <2>3. ASSUME NEW e \in Executor PROVE Cardinality(Matches(reservations, e)) <= 1
    <3>1. \A i, j \in Matches(reservations, e) : i = j
      BY <2>1, <2>2 DEF Matches
    <3> QED  BY <3>1, AtMostOne
  <2>4. driver = "ok" => Len(reservations) = NumExecutors
    BY <1>1 DEF Late, Sealed
  <2> QED  BY <2>3, <2>4
<1>2. ASSUME IInv, Early, Late PROVE OrderlyStartLasts
  BY <1>1, <1>2, FullViews DEF OrderlyStartLasts
<1>3. Spec => [](IInv /\ Early /\ Late)
  BY LateInvariant
<1> QED  BY <1>2, <1>3, PTL
=============================================================================
