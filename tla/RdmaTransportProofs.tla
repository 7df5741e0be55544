------------------------ MODULE RdmaTransportProofs ------------------------
(***************************************************************************)
(* Proofs about the RDMA transport, for any steps and any sizes of their   *)
(* tensors.                                                                *)
(*                                                                         *)
(* The message layer implements a pipe because of each direction only one  *)
(* thing is ever under way: a message on the wire, or in the memory of the *)
(* peer, or its ack on the wire, or the ack that has arrived.              *)
(*                                                                         *)
(* A step is handed its own tensor because two things are in one place at  *)
(* a time, the right to use the destination's buffer and the key of a step *)
(* that waits: the last part counts the places where they can be.          *)
(***************************************************************************)
EXTENDS RdmaTransport, FiniteSetTheorems, SequenceTheorems, TLAPS

\* The places of x in a sequence of completions, and in a sequence of writes.
At(s, x) == {i \in 1..Len(s) : s[i] = x}
Posted(ws, x) == {i \in 1..Len(ws) : ws[i].to = x}

AtMostOne(S) == \A i, j \in S : i = j

\* One direction of the channel: w is the wire of its sender, a the completions at its
\* receiver, v the wire of the receiver, b the completions at the sender, and remote
\* what the sender takes the peer's buffer for.
Flow(w, a, v, b, remote) ==
    /\ AtMostOne(Posted(w, "message")) /\ AtMostOne(At(a, "message"))
    /\ AtMostOne(Posted(v, "ack")) /\ AtMostOne(At(b, "ack"))
    /\ remote = "idle" => /\ Posted(w, "message") = {} /\ At(a, "message") = {}
                          /\ Posted(v, "ack") = {} /\ At(b, "ack") = {}
    /\ Posted(w, "message") # {} => /\ At(a, "message") = {} /\ Posted(v, "ack") = {}
                                    /\ At(b, "ack") = {}
    /\ At(a, "message") # {} => Posted(v, "ack") = {} /\ At(b, "ack") = {}
    /\ Posted(v, "ack") # {} => At(b, "ack") = {}

OneInFlight ==
    \A e \in Ends : Flow(wire[e], arrived[Peer(e)], wire[Peer(e)], arrived[e], mb[e].remote)

Write ==
    [to : {"message"}, msg : Message] \cup [to : {"ack"}]
      \cup [to : {"tensor"}, step : Steps, size : Sizes, addr : Addrs \cup {None}]

Buffer == [q : Seq(Message), local : {"idle", "busy"}, remote : {"idle", "busy"}]

\* The types of the channel.
ChannelOK ==
    /\ mb \in [Ends -> Buffer]
    /\ rx \in [Ends -> Message \cup {NoMessage}]
    /\ wire \in [Ends -> Seq(Write)]
    /\ arrived \in [Ends -> Seq({"message", "ack", "tensor"})]
    /\ sent \in [Ends -> Seq({"message", "tensor"})]
    /\ pool \in [Ends -> Nat]

Thread == [step : Steps, at : {"recv", "create", "ask", "write", "putback"}]

\* The types of the rest.
TensorOK ==
    /\ size \in TensorSizes /\ requested \subseteq Steps
    /\ callbacks \subseteq Steps /\ recvDone \in [Steps -> Nat]
    /\ got \in [Steps -> Steps \cup {None}]
    /\ tb \in [q : Seq(Steps), local : Status, remote : Status, size : Sizes \cup {None},
               addr : Addrs \cup {None}]
    /\ tasks \in Nat /\ response \in 0..2
    /\ sending \subseteq Thread /\ IsFiniteSet(sending)
    /\ rb \in [addr : Addrs \cup {None}, size : Sizes \cup {None}, data : Steps \cup {None}]
    /\ fatal \in BOOLEAN /\ raced \in BOOLEAN /\ resized \in BOOLEAN /\ missed \in BOOLEAN

\* The threads that are about to ask for a larger buffer.
Asking(S) == {t \in S : t.at \in {"create", "ask"}}

\* The sizes of tensors up to n, with f the sizes of the steps' tensors.
Reached(f, n) == {k \in Nat \ {0} : k <= n /\ \E s \in Steps : f[s] = k}

\* Every buffer that the peer has created, or will be asked for, is larger than the ones
\* before it and as large as some tensor: so there are addresses enough.
Growth ==
    /\ rb.addr + Cardinality(Asking(sending)) + Len(Pipe["src"])
         <= Cardinality(Reached(size, tb.size))
    /\ tb.local = "none" => tb.size = None

IInv == ChannelOK /\ TensorOK /\ OneInFlight /\ Growth

-----------------------------------------------------------------------------
(* Sequences of completions and of writes.                                 *)

LEMMA AtAppend ==
    ASSUME NEW S, NEW s \in Seq(S), NEW y \in S, NEW x
    PROVE  /\ x # y => At(Append(s, y), x) = At(s, x)
           /\ x = y /\ At(s, x) = {} => AtMostOne(At(Append(s, y), x))
<1> DEFINE t == Append(s, y)
<1>1. /\ Len(s) \in Nat /\ Len(t) = Len(s) + 1 /\ t[Len(s) + 1] = y
      /\ \A i \in 1..Len(s) : t[i] = s[i]
  OBVIOUS
<1> HIDE DEF t
<1>2. \A i \in 1..Len(t) : i \in 1..Len(s) \/ i = Len(s) + 1
  BY <1>1
<1>3. \A i \in 1..Len(s) : i \in 1..Len(t)
  BY <1>1
<1>4. x # y => At(t, x) = At(s, x)
  BY <1>1, <1>2, <1>3 DEF At
<1>5. x = y /\ At(s, x) = {} => AtMostOne(At(t, x))
  BY <1>1, <1>2 DEF At, AtMostOne
<1> QED  BY <1>4, <1>5 DEF t

LEMMA AtTail ==
    ASSUME NEW S, NEW s \in Seq(S), s # << >>, NEW x
    PROVE  /\ AtMostOne(At(s, x)) => AtMostOne(At(Tail(s), x))
           /\ At(s, x) = {} => At(Tail(s), x) = {}
           /\ Head(s) = x => At(s, x) # {}
           /\ Head(s) = x /\ AtMostOne(At(s, x)) => At(Tail(s), x) = {}
           /\ Head(s) # x /\ At(s, x) # {} => At(Tail(s), x) # {}
           /\ Head(s) # x /\ AtMostOne(At(s, x)) => Cardinality(At(Tail(s), x)) = Cardinality(At(s, x))
<1> DEFINE t == Tail(s)
<1>1. /\ Len(s) \in Nat /\ Len(s) # 0 /\ Len(t) = Len(s) - 1 /\ Head(s) = s[1]
      /\ \A i \in 1..Len(t) : t[i] = s[i + 1]
  OBVIOUS
<1> HIDE DEF t
<1>2. \A i \in 1..Len(t) : i + 1 \in 1..Len(s) /\ i + 1 # 1 /\ i \in Nat
  BY <1>1
<1>3. \A i \in 1..Len(s) : i # 1 => i - 1 \in 1..Len(t) /\ t[i - 1] = s[i]
  <2> SUFFICES ASSUME NEW i \in 1..Len(s), i # 1 PROVE i - 1 \in 1..Len(t) /\ t[i - 1] = s[i]
    OBVIOUS
  <2>1. i - 1 \in 1..Len(t) /\ (i - 1) + 1 = i
    BY <1>1
  <2> QED  BY <1>1, <2>1
<1>4. \A i \in At(t, x) : i + 1 \in At(s, x) /\ i + 1 # 1 /\ i \in Nat
  BY <1>1, <1>2 DEF At
<1>5. Head(s) = x => 1 \in At(s, x)
  BY <1>1 DEF At
<1>6. \A i \in At(s, x) : i # 1 => i - 1 \in At(t, x)
  BY <1>3 DEF At
<1>7. Head(s) # x => \A i \in At(s, x) : i # 1
  BY <1>1 DEF At
<1>8. AtMostOne(At(s, x)) => AtMostOne(At(t, x))
  BY <1>4 DEF AtMostOne
<1>9. Head(s) = x /\ AtMostOne(At(s, x)) => At(t, x) = {}
  BY <1>4, <1>5 DEF AtMostOne
<1>10. Head(s) # x /\ At(s, x) # {} => At(t, x) # {}
  BY <1>6, <1>7
<1>11. At(s, x) = {} => At(t, x) = {}
  BY <1>4
<1>12. ASSUME Head(s) # x, AtMostOne(At(s, x)) PROVE Cardinality(At(t, x)) = Cardinality(At(s, x))
  <2>1. CASE At(s, x) = {}
    BY <1>11, <2>1
  <2>2. CASE At(s, x) # {}
    <3>1. PICK i : At(s, x) = {i}
      BY <1>12, <2>2 DEF AtMostOne
    <3>2. PICK j : At(t, x) = {j}
      BY <1>8, <1>10, <1>12, <2>2 DEF AtMostOne
    <3> QED  BY <3>1, <3>2, FS_Singleton
  <2> QED  BY <2>1, <2>2
<1> QED  BY <1>5, <1>8, <1>9, <1>10, <1>11, <1>12 DEF t

LEMMA PostedAppend ==
    ASSUME NEW S, NEW s \in Seq(S), NEW y \in S, NEW x
    PROVE  /\ x # y.to => Posted(Append(s, y), x) = Posted(s, x)
           /\ x = y.to /\ Posted(s, x) = {} => AtMostOne(Posted(Append(s, y), x))
<1> DEFINE t == Append(s, y)
<1>1. /\ Len(s) \in Nat /\ Len(t) = Len(s) + 1 /\ t[Len(s) + 1] = y
      /\ \A i \in 1..Len(s) : t[i] = s[i]
  OBVIOUS
<1> HIDE DEF t
<1>2. \A i \in 1..Len(t) : i \in 1..Len(s) \/ i = Len(s) + 1
  BY <1>1
<1>3. \A i \in 1..Len(s) : i \in 1..Len(t)
  BY <1>1
<1>4. x # y.to => Posted(t, x) = Posted(s, x)
  BY <1>1, <1>2, <1>3 DEF Posted
<1>5. x = y.to /\ Posted(s, x) = {} => AtMostOne(Posted(t, x))
  BY <1>1, <1>2 DEF Posted, AtMostOne
<1> QED  BY <1>4, <1>5 DEF t

LEMMA PostedTail ==
    ASSUME NEW S, NEW s \in Seq(S), s # << >>, NEW x
    PROVE  /\ AtMostOne(Posted(s, x)) => AtMostOne(Posted(Tail(s), x))
           /\ Posted(s, x) = {} => Posted(Tail(s), x) = {}
           /\ Head(s).to = x => Posted(s, x) # {}
           /\ Head(s).to = x /\ AtMostOne(Posted(s, x)) => Posted(Tail(s), x) = {}
           /\ Head(s).to # x /\ Posted(s, x) # {} => Posted(Tail(s), x) # {}
           /\ Head(s).to # x /\ AtMostOne(Posted(s, x)) => Cardinality(Posted(Tail(s), x)) = Cardinality(Posted(s, x))
<1> DEFINE t == Tail(s)
<1>1. /\ Len(s) \in Nat /\ Len(s) # 0 /\ Len(t) = Len(s) - 1 /\ Head(s) = s[1]
      /\ \A i \in 1..Len(t) : t[i] = s[i + 1]
  OBVIOUS
<1> HIDE DEF t
<1>2. \A i \in 1..Len(t) : i + 1 \in 1..Len(s) /\ i + 1 # 1 /\ i \in Nat
  BY <1>1
<1>3. \A i \in 1..Len(s) : i # 1 => i - 1 \in 1..Len(t) /\ t[i - 1] = s[i]
  <2> SUFFICES ASSUME NEW i \in 1..Len(s), i # 1 PROVE i - 1 \in 1..Len(t) /\ t[i - 1] = s[i]
    OBVIOUS
  <2>1. i - 1 \in 1..Len(t) /\ (i - 1) + 1 = i
    BY <1>1
  <2> QED  BY <1>1, <2>1
<1>4. \A i \in Posted(t, x) : i + 1 \in Posted(s, x) /\ i + 1 # 1 /\ i \in Nat
  BY <1>1, <1>2 DEF Posted
<1>5. Head(s).to = x => 1 \in Posted(s, x)
  BY <1>1 DEF Posted
<1>6. \A i \in Posted(s, x) : i # 1 => i - 1 \in Posted(t, x)
  BY <1>3 DEF Posted
<1>7. Head(s).to # x => \A i \in Posted(s, x) : i # 1
  BY <1>1 DEF Posted
<1>8. AtMostOne(Posted(s, x)) => AtMostOne(Posted(t, x))
  BY <1>4 DEF AtMostOne
<1>9. Head(s).to = x /\ AtMostOne(Posted(s, x)) => Posted(t, x) = {}
  BY <1>4, <1>5 DEF AtMostOne
<1>10. Head(s).to # x /\ Posted(s, x) # {} => Posted(t, x) # {}
  BY <1>6, <1>7
<1>11. Posted(s, x) = {} => Posted(t, x) = {}
  BY <1>4
<1>12. ASSUME Head(s).to # x, AtMostOne(Posted(s, x)) PROVE Cardinality(Posted(t, x)) = Cardinality(Posted(s, x))
  <2>1. CASE Posted(s, x) = {}
    BY <1>11, <2>1
  <2>2. CASE Posted(s, x) # {}
    <3>1. PICK i : Posted(s, x) = {i}
      BY <1>12, <2>2 DEF AtMostOne
    <3>2. PICK j : Posted(t, x) = {j}
      BY <1>8, <1>10, <1>12, <2>2 DEF AtMostOne
    <3> QED  BY <3>1, <3>2, FS_Singleton
  <2> QED  BY <2>1, <2>2
<1> QED  BY <1>5, <1>8, <1>9, <1>10, <1>11, <1>12 DEF t

-----------------------------------------------------------------------------
(* What is under way in one direction.                                     *)

Completions == Seq({"message", "ack", "tensor"})

\* A direction holds one message at most, on the wire or in the memory of the peer.
Single(w, a) ==
    /\ AtMostOne(Posted(w, "message")) /\ AtMostOne(At(a, "message"))
    /\ At(a, "message") # {} => Posted(w, "message") = {}

FlightOf(a, r, w, q) == [i \in 1..Cardinality(At(a, "message")) |-> r] \o Messages(w) \o q

LEMMA MessagesFacts ==
    ASSUME NEW w \in Seq(Write)
    PROVE  /\ Posted(w, "message") = {} => Messages(w) = << >>
           /\ \A k : Posted(w, "message") = {k} => Messages(w) = <<w[k].msg>>
<1> DEFINE at == {i \in DOMAIN w : w[i].to = "message"}
           n == Cardinality(at)
           f == CHOOSE g \in [1..n -> at] : \A i, j \in 1..n : i < j => g[i] < g[j]
<1>1. at = Posted(w, "message")
  BY DEF Posted
<1>2. Messages(w) = [i \in 1..n |-> w[f[i]].msg]
  BY DEF Messages
<1> HIDE DEF at
<1>3. ASSUME at = {} PROVE Messages(w) = << >>
  <2>1. n = 0
    BY <1>3, FS_EmptySet
  <2> HIDE DEF n, f
  <2> QED  BY <1>2, <2>1
<1>4. ASSUME NEW k, at = {k} PROVE Messages(w) = <<w[k].msg>>
  <2>1. n = 1
    BY <1>4, FS_Singleton
  <2> HIDE DEF n
  <2>2. \E g \in [1..n -> at] : \A i, j \in 1..n : i < j => g[i] < g[j]
    <3> DEFINE h == [i \in 1..n |-> k]
    <3>1. h \in [1..n -> at]
      BY <1>4
    <3>2. \A i, j \in 1..n : ~(i < j)
      BY <2>1
    <3> QED  BY <3>1, <3>2
  <2>3. f \in [1..n -> at]
    BY <2>2
  <2> HIDE DEF f
  <2>4. f[1] = k
    BY <1>4, <2>1, <2>3
  <2>5. Messages(w) = [i \in 1..1 |-> w[f[i]].msg]
    BY <1>2, <2>1
  <2> QED  BY <2>4, <2>5
<1> QED  BY <1>1, <1>3, <1>4

LEMMA InMemoryIs ==
    ASSUME NEW n, NEW r
    PROVE  /\ n = 0 => [i \in 1..n |-> r] = << >>
           /\ n = 1 => [i \in 1..n |-> r] = <<r>>
  OBVIOUS

LEMMA FewAre ==
    ASSUME NEW S, AtMostOne(S)
    PROVE  Cardinality(S) = (IF S = {} THEN 0 ELSE 1)
<1>1. S = {} => Cardinality(S) = 0
  BY FS_EmptySet
<1>2. S # {} => Cardinality(S) = 1
  <2> SUFFICES ASSUME S # {} PROVE Cardinality(S) = 1
    OBVIOUS
  <2>1. PICK k : S = {k}
    BY DEF AtMostOne
  <2> QED  BY <2>1, FS_Singleton
<1> QED  BY <1>1, <1>2

LEMMA FlightInMemory ==
    ASSUME NEW w \in Seq(Write), NEW a \in Completions, NEW q \in Seq(Message), NEW r, Single(w, a),
           At(a, "message") # {}
    PROVE  FlightOf(a, r, w, q) = <<r>> \o q
<1>0. Cardinality(At(a, "message")) = 1
  BY FewAre DEF Single
<1>1. [i \in 1..Cardinality(At(a, "message")) |-> r] = <<r>>
  BY <1>0, InMemoryIs
<1>2. Messages(w) = << >>
  BY MessagesFacts DEF Single
<1>3. FlightOf(a, r, w, q) = <<r>> \o << >> \o q
  BY <1>1, <1>2 DEF FlightOf
<1> QED  BY <1>3

LEMMA FlightOnWire ==
    ASSUME NEW w \in Seq(Write), NEW a \in Completions, NEW q \in Seq(Message), NEW r, Single(w, a),
           NEW k \in Posted(w, "message")
    PROVE  FlightOf(a, r, w, q) = <<w[k].msg>> \o q
<1>0. Cardinality(At(a, "message")) = 0
  BY FewAre DEF Single
<1>1. [i \in 1..Cardinality(At(a, "message")) |-> r] = << >>
  BY <1>0, InMemoryIs
<1>2. Posted(w, "message") = {k}
  BY DEF Single, AtMostOne
<1>3. Messages(w) = <<w[k].msg>>
  BY <1>2, MessagesFacts
<1>4. FlightOf(a, r, w, q) = << >> \o <<w[k].msg>> \o q
  BY <1>1, <1>3 DEF FlightOf
<1> QED  BY <1>4

LEMMA FlightQueued ==
    ASSUME NEW w \in Seq(Write), NEW a \in Completions, NEW q \in Seq(Message), NEW r, Single(w, a),
           At(a, "message") = {}, Posted(w, "message") = {}
    PROVE  FlightOf(a, r, w, q) = q
<1>0. Cardinality(At(a, "message")) = 0
  BY FewAre DEF Single
<1>1. [i \in 1..Cardinality(At(a, "message")) |-> r] = << >>
  BY <1>0, InMemoryIs
<1>2. Messages(w) = << >>
  BY MessagesFacts
<1>3. FlightOf(a, r, w, q) = << >> \o << >> \o q
  BY <1>1, <1>2 DEF FlightOf
<1> QED  BY <1>3

\* The sender posts a write that is no message, or the receiver one that is no ack.
LEMMA FlowPosts ==
    ASSUME NEW w \in Seq(Write), NEW a \in Completions, NEW v \in Seq(Write), NEW b \in Completions,
           NEW remote, Flow(w, a, v, b, remote), NEW x \in Write
    PROVE  /\ x.to # "message" => Flow(Append(w, x), a, v, b, remote)
           /\ x.to # "ack" => Flow(w, a, Append(v, x), b, remote)
<1>1. x.to # "message" => Posted(Append(w, x), "message") = Posted(w, "message")
  BY PostedAppend
<1>2. x.to # "ack" => Posted(Append(v, x), "ack") = Posted(v, "ack")
  BY PostedAppend
<1> QED  BY <1>1, <1>2 DEF Flow

\* The sender finds the peer's buffer idle and sends a message.
LEMMA FlowSends ==
    ASSUME NEW w \in Seq(Write), NEW a \in Completions, NEW v \in Seq(Write), NEW b \in Completions,
           Flow(w, a, v, b, "idle"), NEW x \in Write, x.to = "message"
    PROVE  Flow(Append(w, x), a, v, b, "busy")
<1>1. Posted(w, "message") = {} /\ At(a, "message") = {} /\ Posted(v, "ack") = {} /\ At(b, "ack") = {}
  BY DEF Flow
<1>2. AtMostOne(Posted(Append(w, x), "message"))
  BY <1>1, PostedAppend
<1> QED  BY <1>1, <1>2 DEF Flow

\* A write of the sender arrives, or one of the receiver.
LEMMA FlowDelivers ==
    ASSUME NEW w \in Seq(Write), NEW a \in Completions, NEW v \in Seq(Write), NEW b \in Completions,
           NEW remote, Flow(w, a, v, b, remote)
    PROVE  /\ w # << >> /\ Head(w).to \in {"message", "ack", "tensor"} =>
                Flow(Tail(w), Append(a, Head(w).to), v, b, remote)
           /\ v # << >> /\ Head(v).to \in {"message", "ack", "tensor"} =>
                Flow(w, a, Tail(v), Append(b, Head(v).to), remote)
<1>1. ASSUME w # << >>, NEW x \in {"message", "ack", "tensor"}, Head(w).to = x
      PROVE  Flow(Tail(w), Append(a, x), v, b, remote)
  <2>1. /\ AtMostOne(Posted(w, "message")) => AtMostOne(Posted(Tail(w), "message"))
        /\ Posted(w, "message") = {} => Posted(Tail(w), "message") = {}
        /\ x = "message" => Posted(w, "message") # {}
        /\ x = "message" /\ AtMostOne(Posted(w, "message")) => Posted(Tail(w), "message") = {}
    BY <1>1, PostedTail
  <2>2. /\ x # "message" => At(Append(a, x), "message") = At(a, "message")
        /\ x = "message" /\ At(a, "message") = {} => AtMostOne(At(Append(a, x), "message"))
    BY <1>1, AtAppend DEF Completions
  <2>3. CASE x = "message"
    BY <2>1, <2>2, <2>3 DEF Flow
  <2>4. CASE x # "message"
    BY <2>1, <2>2, <2>4 DEF Flow
  <2> QED  BY <2>3, <2>4
<1>2. ASSUME v # << >>, NEW x \in {"message", "ack", "tensor"}, Head(v).to = x
      PROVE  Flow(w, a, Tail(v), Append(b, x), remote)
  <2>1. /\ AtMostOne(Posted(v, "ack")) => AtMostOne(Posted(Tail(v), "ack"))
        /\ Posted(v, "ack") = {} => Posted(Tail(v), "ack") = {}
        /\ x = "ack" => Posted(v, "ack") # {}
        /\ x = "ack" /\ AtMostOne(Posted(v, "ack")) => Posted(Tail(v), "ack") = {}
    BY <1>2, PostedTail
  <2>2. /\ x # "ack" => At(Append(b, x), "ack") = At(b, "ack")
        /\ x = "ack" /\ At(b, "ack") = {} => AtMostOne(At(Append(b, x), "ack"))
    BY <1>2, AtAppend DEF Completions
  <2>3. CASE x = "ack"
    BY <2>1, <2>2, <2>3 DEF Flow
  <2>4. CASE x # "ack"
    BY <2>1, <2>2, <2>4 DEF Flow
  <2> QED  BY <2>3, <2>4
<1> QED  BY <1>1, <1>2

\* A completion is handled: by the receiver, who posts an ack for a message, or by the
\* sender, whose peer's buffer is idle after an ack.
LEMMA FlowHandles ==
    ASSUME NEW w \in Seq(Write), NEW a \in Completions, NEW v \in Seq(Write), NEW b \in Completions,
           NEW remote, Flow(w, a, v, b, remote), NEW x \in Write, x.to = "ack"
    PROVE  /\ a # << >> /\ Head(a) = "message" => Flow(w, Tail(a), Append(v, x), b, remote)
           /\ a # << >> /\ Head(a) # "message" => Flow(w, Tail(a), v, b, remote)
           /\ b # << >> /\ Head(b) = "ack" => Flow(w, a, v, Tail(b), "idle")
           /\ b # << >> /\ Head(b) # "ack" => Flow(w, a, v, Tail(b), remote)
<1> USE DEF Completions
<1>1. ASSUME a # << >> PROVE /\ AtMostOne(At(Tail(a), "message"))
                             /\ At(a, "message") = {} => At(Tail(a), "message") = {}
                             /\ Head(a) = "message" => At(a, "message") # {} /\ At(Tail(a), "message") = {}
  BY <1>1, AtTail DEF Flow
<1>2. ASSUME b # << >> PROVE /\ AtMostOne(At(Tail(b), "ack"))
                             /\ At(b, "ack") = {} => At(Tail(b), "ack") = {}
                             /\ Head(b) = "ack" => At(b, "ack") # {} /\ At(Tail(b), "ack") = {}
  BY <1>2, AtTail DEF Flow
<1>3. Posted(v, "ack") = {} => AtMostOne(Posted(Append(v, x), "ack"))
  BY PostedAppend
<1>4. ASSUME a # << >>, Head(a) = "message" PROVE Flow(w, Tail(a), Append(v, x), b, remote)
  BY <1>1, <1>3, <1>4 DEF Flow
<1>5. ASSUME a # << >>, Head(a) # "message" PROVE Flow(w, Tail(a), v, b, remote)
  BY <1>1, <1>5 DEF Flow
<1>6. ASSUME b # << >>, Head(b) = "ack" PROVE Flow(w, a, v, Tail(b), "idle")
  BY <1>2, <1>6 DEF Flow
<1>7. ASSUME b # << >>, Head(b) # "ack" PROVE Flow(w, a, v, Tail(b), remote)
  BY <1>2, <1>7 DEF Flow
<1> QED  BY <1>4, <1>5, <1>6, <1>7

-----------------------------------------------------------------------------
(* What the steps of the channel do to a direction.                        *)

LEMMA TwoEnds ==
    ASSUME NEW e \in Ends
    PROVE  Peer(e) \in Ends /\ Peer(e) # e /\ Peer(Peer(e)) = e /\ Ends = {e, Peer(e)}
  BY DEF Ends, Peer

\* A message enqueued is behind the others.
LEMMA FlightEnqueue ==
    ASSUME NEW w \in Seq(Write), NEW a \in Completions, NEW q \in Seq(Message),
           NEW r \in Message \cup {NoMessage}, Single(w, a), NEW m \in Message,
           NEW old, NEW new, old = FlightOf(a, r, w, q), new = FlightOf(a, r, w, Append(q, m))
    PROVE  Abstract!Enqueue(old, new) /\ Len(new) = Len(old) + 1 /\ new = Append(old, m)
<1> DEFINE AnyMsg == Message \cup {NoMessage}
<1>0. Append(q, m) \in Seq(Message) /\ Append(q, m) \in Seq(AnyMsg) /\ q \in Seq(AnyMsg)
  OBVIOUS
<1>1. ASSUME NEW p \in Seq(AnyMsg), old = p \o q, new = p \o Append(q, m)
      PROVE  Abstract!Enqueue(old, new) /\ Len(new) = Len(old) + 1 /\ new = Append(old, m)
  <2>1. /\ old \in Seq(AnyMsg) /\ new \in Seq(AnyMsg)
        /\ Len(new) = Len(old) + 1
        /\ \A i \in 1..Len(old) : new[i] = old[i]
    BY <1>0, <1>1
  <2>2. new = Append(old, m)
    BY <1>0, <1>1
  <2> QED  BY <2>1, <2>2 DEF Abstract!Enqueue, Abstract!IsPrefix, IsPrefix
<1>2. CASE At(a, "message") # {}
  <2>0. <<r>> \in Seq(AnyMsg)
    OBVIOUS
  <2>1. PICK p \in Seq(AnyMsg) : p = <<r>>
    BY <2>0, Zenon
  <2>2. old = p \o q
    BY <1>2, <2>1, FlightInMemory
  <2>3. new = p \o Append(q, m)
    BY <1>0, <1>2, <2>1, FlightInMemory
  <2> QED  BY <1>1, <2>2, <2>3
<1>3. CASE Posted(w, "message") # {}
  <2>1. PICK k \in Posted(w, "message") : TRUE
    BY <1>3
  <2>2. w[k].msg \in Message
    <3>1. w[k] \in Write /\ w[k].to = "message"
      BY <2>1 DEF Posted
    <3> QED  BY <3>1 DEF Write
  <2>0. <<w[k].msg>> \in Seq(AnyMsg)
    BY <2>2
  <2>3. PICK p \in Seq(AnyMsg) : p = <<w[k].msg>>
    BY <2>0, Zenon
  <2>4. old = p \o q
    BY <2>3, FlightOnWire
  <2>5. new = p \o Append(q, m)
    BY <1>0, <2>3, FlightOnWire
  <2> QED  BY <1>1, <2>4, <2>5
<1>4. CASE At(a, "message") = {} /\ Posted(w, "message") = {}
  <2>0. << >> \in Seq(AnyMsg)
    OBVIOUS
  <2>1. PICK p \in Seq(AnyMsg) : p = << >>
    BY <2>0, Zenon
  <2>2. old = q /\ new = Append(q, m)
    BY <1>0, <1>4, FlightQueued
  <2>3. old = p \o q /\ new = p \o Append(q, m)
    BY <1>0, <2>1, <2>2
  <2> QED  BY <1>1, <2>3
<1> QED  BY <1>2, <1>3, <1>4

\* A write that is no message, and a completion that is no message, leave it as it is.
LEMMA FlightPosts ==
    ASSUME NEW w \in Seq(Write), NEW a \in Completions, NEW q \in Seq(Message),
           NEW r, Single(w, a),
           NEW x \in Write, x.to # "message"
    PROVE  FlightOf(a, r, Append(w, x), q) = FlightOf(a, r, w, q)
<1> DEFINE ww == Append(w, x)
<1>1. Posted(ww, "message") = Posted(w, "message")
  BY PostedAppend
<1>2. ww \in Seq(Write) /\ \A k \in Posted(w, "message") : ww[k] = w[k]
  BY DEF Posted
<1> HIDE DEF ww
<1>3. Single(ww, a)
  BY <1>1 DEF Single
<1>4. CASE At(a, "message") # {}
  <2>1. FlightOf(a, r, w, q) = <<r>> \o q
    BY <1>4, FlightInMemory
  <2>2. FlightOf(a, r, ww, q) = <<r>> \o q
    BY <1>2, <1>3, <1>4, FlightInMemory
  <2> QED  BY <2>1, <2>2 DEF ww
<1>5. CASE Posted(w, "message") # {}
  <2>1. PICK k \in Posted(w, "message") : TRUE
    BY <1>5
  <2>2. FlightOf(a, r, w, q) = <<w[k].msg>> \o q
    BY FlightInMemory, FlightOnWire, FlightQueued
  <2>3. FlightOf(a, r, ww, q) = <<ww[k].msg>> \o q
    BY <1>1, <1>2, <1>3, FlightOnWire, ZenonT(30)
  <2> QED  BY <1>2, <2>2, <2>3 DEF ww
<1>6. CASE At(a, "message") = {} /\ Posted(w, "message") = {}
  <2>1. FlightOf(a, r, w, q) = q /\ FlightOf(a, r, ww, q) = q
    BY <1>1, <1>2, <1>3, <1>6, FlightInMemory, FlightOnWire, FlightQueued
  <2> QED  BY <2>1 DEF ww
<1> QED  BY <1>4, <1>5, <1>6 DEF ww

\* The receiver handles a completion: it takes the message if it is one.
LEMMA FlightHandles ==
    ASSUME NEW w \in Seq(Write), NEW a \in Completions, NEW q \in Seq(Message),
           NEW r \in Message \cup {NoMessage}, Single(w, a), a # << >>
    PROVE  /\ Head(a) # "message" => FlightOf(Tail(a), r, w, q) = FlightOf(a, r, w, q)
           /\ Head(a) = "message" => /\ FlightOf(a, r, w, q) = <<r>> \o q
                                     /\ FlightOf(Tail(a), r, w, q) = q
<1> DEFINE t == Tail(a)
<1>1. t \in Completions
  BY DEF Completions
<1>2. /\ AtMostOne(At(a, "message")) => AtMostOne(At(t, "message"))
      /\ At(a, "message") = {} => At(t, "message") = {}
      /\ Head(a) = "message" => At(a, "message") # {}
      /\ Head(a) = "message" /\ AtMostOne(At(a, "message")) => At(t, "message") = {}
      /\ Head(a) # "message" /\ At(a, "message") # {} => At(t, "message") # {}
  BY AtTail DEF Completions
<1> HIDE DEF t
<1>3. Single(w, t)
  BY <1>2 DEF Single
<1>4. ASSUME Head(a) = "message" PROVE FlightOf(a, r, w, q) = <<r>> \o q /\ FlightOf(t, r, w, q) = q
  <2>1. At(a, "message") # {} /\ At(t, "message") = {} /\ Posted(w, "message") = {}
    BY <1>2, <1>4 DEF Single
  <2>2. FlightOf(a, r, w, q) = <<r>> \o q
    BY <2>1, FlightInMemory, FlightOnWire, FlightQueued
  <2>3. FlightOf(t, r, w, q) = q
    BY <1>1, <1>3, <2>1, FlightInMemory, FlightOnWire, FlightQueued
  <2> QED  BY <2>2, <2>3
<1>5. ASSUME Head(a) # "message" PROVE FlightOf(t, r, w, q) = FlightOf(a, r, w, q)
  <2>1. CASE At(a, "message") # {}
    <3>1. FlightOf(a, r, w, q) = <<r>> \o q
      BY <2>1, FlightInMemory
    <3>2. FlightOf(t, r, w, q) = <<r>> \o q
      BY <1>1, <1>2, <1>3, <1>5, <2>1, FlightInMemory
    <3> QED  BY <3>1, <3>2
  <2>2. CASE At(a, "message") = {} /\ Posted(w, "message") # {}
    <3>1. PICK k \in Posted(w, "message") : TRUE
      BY <2>2
    <3>2. FlightOf(a, r, w, q) = <<w[k].msg>> \o q
      BY <3>1, FlightInMemory, FlightOnWire, FlightQueued
    <3>3. FlightOf(t, r, w, q) = <<w[k].msg>> \o q
      BY <1>1, <1>3, <3>1, FlightOnWire, ZenonT(30)
    <3> QED  BY <3>2, <3>3
  <2>3. CASE At(a, "message") = {} /\ Posted(w, "message") = {}
    BY <1>1, <1>2, <1>3, <2>3, FlightInMemory, FlightOnWire, FlightQueued
  <2> QED  BY <2>1, <2>2, <2>3
<1> QED  BY <1>4, <1>5 DEF t

\* A message that is posted when there is none under way.
LEMMA FlightSent ==
    ASSUME NEW w \in Seq(Write), NEW a \in Completions, NEW q \in Seq(Message), NEW r,
           NEW x \in Write, x.to = "message", Single(Append(w, x), a)
    PROVE  FlightOf(a, r, Append(w, x), q) = <<x.msg>> \o q
<1>0. Append(w, x) \in Seq(Write)
  OBVIOUS
<1>1. PICK ww \in Seq(Write) : ww = Append(w, x)
  BY <1>0, Zenon
<1>2. PICK k : k = Len(w) + 1
  OBVIOUS
<1>3. k \in Posted(ww, "message") /\ ww[k] = x
  BY <1>1, <1>2 DEF Posted
<1>4. FlightOf(a, r, ww, q) = <<ww[k].msg>> \o q
  BY <1>1, <1>3, FlightOnWire, ZenonT(30)
<1> QED  BY <1>1, <1>3, <1>4

\* The channel seen from one end: its buffer, its wire w and completions c, the wire v and
\* the completions a of its peer, and what the peer takes its buffer for.
Sound(w, a, v, c, buf, remote) ==
    /\ w \in Seq(Write) /\ a \in Completions /\ v \in Seq(Write) /\ c \in Completions
    /\ buf \in Buffer
    /\ Flow(w, a, v, c, buf.remote) /\ Flow(v, c, w, a, remote)

\* A call of SendNextItem turns the buffer and the posted writes into bb and ww.
Sends(buf, w, bb, ww) ==
    bb = SendNextMessage(buf, w).buf /\ ww = SendNextMessage(buf, w).wire

SameFlight(a, w, buf, ww, bb) ==
    \A r : FlightOf(a, r, ww, bb.q) = FlightOf(a, r, w, buf.q)

\* RdmaMessageBuffer::SendNextItem keeps the direction in order: what it takes from the
\* queue it puts on the wire, and only if nothing else is under way.
LEMMA SendNextFacts ==
    ASSUME NEW w, NEW a, NEW v, NEW c, NEW buf, NEW remote, Sound(w, a, v, c, buf, remote),
           NEW bb, NEW ww, Sends(buf, w, bb, ww)
    PROVE  /\ Sound(ww, a, v, c, bb, remote)
           /\ SameFlight(a, w, buf, ww, bb)
<1>1. CASE ~CanSend(buf)
  <2>1. bb = buf /\ ww = w
    BY <1>1 DEF Sends, SendNextMessage
  <2> QED  BY <2>1 DEF SameFlight
<1>0. /\ w \in Seq(Write) /\ a \in Completions /\ v \in Seq(Write) /\ c \in Completions
      /\ buf \in Buffer
      /\ Flow(w, a, v, c, buf.remote) /\ Flow(v, c, w, a, remote)
  BY DEF Sound
<1>2. CASE CanSend(buf)
  <2>1. buf.q \in Seq(Message) /\ buf.q # << >> /\ buf.remote = "idle"
    BY <1>0, <1>2 DEF CanSend, Buffer
  <2>2. PICK q \in Seq(Message) : q = buf.q
    BY <2>1
  <2>3. PICK x : x = MessageWrite(Head(q))
    OBVIOUS
  <2>4. Head(q) \in Message /\ Tail(q) \in Seq(Message) /\ q = <<Head(q)>> \o Tail(q) /\ q # << >>
    BY <2>1, <2>2
  <2>5. x \in Write /\ x.to = "message" /\ x.msg = Head(q)
    BY <2>3, <2>4 DEF Write, MessageWrite
  <2>6. bb = [q |-> Tail(q), local |-> "busy", remote |-> "busy"] /\ ww = Append(w, x)
    BY <1>2, <2>2, <2>3 DEF Sends, SendNextMessage
  <2>7. bb \in Buffer /\ bb.q = Tail(q) /\ bb.remote = "busy"
    BY <2>4, <2>6 DEF Buffer
  <2>8. ww \in Seq(Write)
    BY <1>0, <2>5, <2>6
  <2>9. Flow(ww, a, v, c, "busy")
    BY <1>0, <2>1, <2>5, <2>6, FlowSends
  <2>10. Flow(v, c, ww, a, remote)
    BY <1>0, <2>5, <2>6, FlowPosts
  <2>11. At(a, "message") = {} /\ Posted(w, "message") = {}
    BY <1>0, <2>1 DEF Flow
  <2>12. \A r : FlightOf(a, r, w, q) = q
    BY <1>0, <2>11, FlightQueued DEF Single, AtMostOne
  <2>13. ASSUME NEW r PROVE FlightOf(a, r, ww, Tail(q)) = <<Head(q)>> \o Tail(q)
    <3>1. Single(Append(w, x), a)
      BY <2>6, <2>9 DEF Single, Flow
    <3>2. PICK t \in Seq(Message) : t = Tail(q)
      BY <2>4
    <3>3. FlightOf(a, r, Append(w, x), t) = <<x.msg>> \o t
      BY <1>0, <2>5, <3>1, FlightSent
    <3> QED  BY <2>5, <2>6, <3>2, <3>3
  <2> QED  BY <1>0, <2>2, <2>4, <2>7, <2>8, <2>9, <2>10, <2>12, <2>13 DEF Sound, SameFlight
<1> QED  BY <1>1, <1>2

LEMMA PipeIs ==
    ASSUME NEW e \in Ends, ChannelOK
    PROVE  Pipe[e] = FlightOf(arrived[Peer(e)], rx[Peer(e)], wire[e], mb[e].q)
<1>1. Peer(e) \in Ends
  BY TwoEnds
<1>2. DOMAIN arrived[Peer(e)] = 1..Len(arrived[Peer(e)])
  BY <1>1 DEF ChannelOK
<1> QED  BY <1>1, <1>2 DEF Pipe, InMemory, FlightOf, At

LEMMA PipeIsNext ==
    ASSUME NEW e \in Ends, ChannelOK'
    PROVE  Pipe'[e] = FlightOf(arrived'[Peer(e)], rx'[Peer(e)], wire'[e], mb'[e].q)
<1>1. Peer(e) \in Ends
  BY TwoEnds
<1>2. DOMAIN arrived'[Peer(e)] = 1..Len(arrived'[Peer(e)])
  BY <1>1 DEF ChannelOK
<1> QED  BY <1>1, <1>2 DEF Pipe, InMemory, FlightOf, At

\* A step of the endpoint e: its completions become c, its buffer and the posted writes
\* buf and w, after which it may call SendNextItem.
Moves(e, p, c, buf, w) ==
    /\ p = Peer(e) /\ Sound(w, arrived[p], wire[p], c, buf, mb[p].remote)
    /\ \E bb, ww : /\ Sends(buf, w, bb, ww) \/ (bb = buf /\ ww = w)
                   /\ mb' = [mb EXCEPT ![e] = bb] /\ wire' = [wire EXCEPT ![e] = ww]
    /\ arrived' = [arrived EXCEPT ![e] = c] /\ rx' = rx
    /\ sent' \in [Ends -> Seq({"message", "tensor"})] /\ pool' \in [Ends -> Nat]

LEMMA ChannelStep ==
    ASSUME ChannelOK, OneInFlight, NEW e \in Ends, NEW p, NEW c, NEW buf, NEW w, Moves(e, p, c, buf, w)
    PROVE  /\ ChannelOK' /\ OneInFlight'
           /\ Pipe'[e] = FlightOf(arrived[p], rx[p], w, buf.q)
           /\ Pipe'[p] = FlightOf(c, rx[e], wire[p], mb[p].q)
<1>a. /\ p = Peer(e) /\ Sound(w, arrived[p], wire[p], c, buf, mb[p].remote)
      /\ arrived' = [arrived EXCEPT ![e] = c] /\ rx' = rx
      /\ sent' \in [Ends -> Seq({"message", "tensor"})] /\ pool' \in [Ends -> Nat]
  BY DEF Moves
<1>b. PICK bb, ww : /\ Sends(buf, w, bb, ww) \/ (bb = buf /\ ww = w)
                    /\ mb' = [mb EXCEPT ![e] = bb] /\ wire' = [wire EXCEPT ![e] = ww]
  BY DEF Moves
<1>1. p \in Ends /\ p # e /\ Peer(p) = e /\ Ends = {e, p}
  BY <1>a, TwoEnds
<1>2. /\ mb \in [Ends -> Buffer] /\ rx \in [Ends -> Message \cup {NoMessage}]
      /\ wire \in [Ends -> Seq(Write)] /\ arrived \in [Ends -> Completions]
  BY DEF ChannelOK, Completions
<1>0. c \in Completions
  BY <1>a DEF Sound
<1>3. PICK r : r = rx[p]
  OBVIOUS
<1>4. /\ bb \in Buffer /\ ww \in Seq(Write)
      /\ Flow(ww, arrived[p], wire[p], c, bb.remote) /\ Flow(wire[p], c, ww, arrived[p], mb[p].remote)
      /\ FlightOf(arrived[p], r, ww, bb.q) = FlightOf(arrived[p], r, w, buf.q)
  <2>1. CASE bb = buf /\ ww = w
    BY <1>a, <2>1 DEF Sound
  <2>2. CASE Sends(buf, w, bb, ww)
    <3>1. PICK a, v, m : a = arrived[p] /\ v = wire[p] /\ m = mb[p].remote
      OBVIOUS
    <3>2. Sound(w, a, v, c, buf, m)
      BY <1>a, <3>1
    <3>3. Sound(ww, a, v, c, bb, m)
      BY <2>2, <3>2, SendNextFacts
    <3>4. SameFlight(a, w, buf, ww, bb)
      BY <2>2, <3>2, SendNextFacts
    <3> QED  BY <3>1, <3>3, <3>4 DEF Sound, SameFlight
  <2> QED  BY <1>b, <2>1, <2>2
<1>5. /\ mb' \in [Ends -> Buffer] /\ mb'[e] = bb /\ mb'[p] = mb[p]
  BY <1>b, <1>1, <1>2, <1>4
<1>6. /\ wire' \in [Ends -> Seq(Write)] /\ wire'[e] = ww /\ wire'[p] = wire[p]
  BY <1>b, <1>1, <1>2, <1>4
<1>7. /\ arrived' \in [Ends -> Completions] /\ arrived'[e] = c /\ arrived'[p] = arrived[p]
  BY <1>a, <1>0, <1>1, <1>2
<1>8. ChannelOK'
  BY <1>a, <1>2, <1>5, <1>6, <1>7 DEF ChannelOK, Completions
<1>9. OneInFlight'
  <2>1. Flow(wire'[e], arrived'[p], wire'[p], arrived'[e], mb'[e].remote)
    BY <1>4, <1>5, <1>6, <1>7
  <2>2. Flow(wire'[p], arrived'[e], wire'[e], arrived'[p], mb'[p].remote)
    BY <1>4, <1>5, <1>6, <1>7
  <2>3. \A d \in Ends : d = e \/ d = p
    BY <1>1
  <2> QED  BY <1>a, <1>1, <2>1, <2>2, <2>3 DEF OneInFlight
<1>10. Pipe'[e] = FlightOf(arrived'[p], rx'[p], wire'[e], mb'[e].q)
  BY <1>a, <1>8, PipeIsNext
<1>11. Pipe'[p] = FlightOf(arrived'[e], rx'[e], wire'[p], mb'[p].q)
  BY <1>1, <1>8, PipeIsNext
<1> QED  BY <1>a, <1>3, <1>4, <1>5, <1>6, <1>7, <1>8, <1>9, <1>10, <1>11

-----------------------------------------------------------------------------
(* The ways in which an endpoint changes the channel.                      *)

LEMMA AckIsWrite == AckWrite \in Write /\ AckWrite.to = "ack"
  BY DEF AckWrite, Write

LEMMA SoundNow ==
    ASSUME ChannelOK, OneInFlight, NEW e \in Ends, NEW p, p = Peer(e)
    PROVE  Sound(wire[e], arrived[p], wire[p], arrived[e], mb[e], mb[p].remote)
<1>1. p \in Ends /\ Peer(p) = e
  BY TwoEnds
<1>2. /\ wire[e] \in Seq(Write) /\ arrived[p] \in Completions /\ wire[p] \in Seq(Write)
      /\ arrived[e] \in Completions /\ mb[e] \in Buffer
  BY <1>1 DEF ChannelOK, Completions
<1>3. /\ Flow(wire[e], arrived[p], wire[p], arrived[e], mb[e].remote)
      /\ Flow(wire[p], arrived[e], wire[e], arrived[p], mb[p].remote)
  BY <1>1 DEF OneInFlight
<1> QED  BY <1>2, <1>3 DEF Sound

LEMMA SoundQueue ==
    ASSUME NEW w, NEW a, NEW v, NEW c, NEW buf, NEW remote, Sound(w, a, v, c, buf, remote),
           NEW bb \in Buffer, bb.remote = buf.remote
    PROVE  Sound(w, a, v, c, bb, remote)
  BY DEF Sound

LEMMA SoundPosts ==
    ASSUME NEW w, NEW a, NEW v, NEW c, NEW buf, NEW remote, Sound(w, a, v, c, buf, remote),
           NEW x \in Write, x.to = "tensor"
    PROVE  Sound(Append(w, x), a, v, c, buf, remote)
<1>1. /\ w \in Seq(Write) /\ a \in Completions /\ v \in Seq(Write) /\ c \in Completions
      /\ Flow(w, a, v, c, buf.remote) /\ Flow(v, c, w, a, remote)
  BY DEF Sound
<1>2. Flow(Append(w, x), a, v, c, buf.remote)
  BY <1>1, FlowPosts
<1>3. Flow(v, c, Append(w, x), a, remote)
  BY <1>1, FlowPosts
<1>4. Append(w, x) \in Seq(Write)
  BY <1>1
<1> QED  BY <1>2, <1>3, <1>4 DEF Sound

LEMMA SoundTakes ==
    ASSUME NEW w, NEW a, NEW v, NEW c, NEW buf, NEW remote, Sound(w, a, v, c, buf, remote),
           c # << >>, Head(c) = "message"
    PROVE  Sound(Append(w, AckWrite), a, v, Tail(c), buf, remote)
<1>0. PICK x \in Write : x = AckWrite /\ x.to = "ack"
  BY AckIsWrite, Zenon
<1>1. /\ w \in Seq(Write) /\ a \in Completions /\ v \in Seq(Write) /\ c \in Completions
      /\ Flow(w, a, v, c, buf.remote) /\ Flow(v, c, w, a, remote)
  BY DEF Sound
<1>2. Tail(c) \in Completions /\ Append(w, x) \in Seq(Write)
  BY <1>1 DEF Completions
<1>3. Flow(v, Tail(c), Append(w, x), a, remote)
  BY <1>0, <1>1, FlowHandles
<1>4. Flow(w, a, v, Tail(c), buf.remote)
  BY <1>0, <1>1, FlowHandles
<1>5. Flow(Append(w, x), a, v, Tail(c), buf.remote)
  BY <1>0, <1>1, <1>2, <1>4, FlowPosts
<1>6. buf \in Buffer
  BY DEF Sound
<1>7. Sound(Append(w, x), a, v, Tail(c), buf, remote)
  BY <1>1, <1>2, <1>3, <1>5, <1>6 DEF Sound
<1> QED  BY <1>0, <1>7

LEMMA SoundHandles ==
    ASSUME NEW w, NEW a, NEW v, NEW c, NEW buf, NEW remote, Sound(w, a, v, c, buf, remote), c # << >>
    PROVE  /\ Head(c) = "tensor" => Sound(w, a, v, Tail(c), buf, remote)
           /\ \A bb \in Buffer : Head(c) = "ack" /\ bb.remote = "idle" =>
                Sound(w, a, v, Tail(c), bb, remote)
<1>0. PICK x \in Write : x.to = "ack"
  BY AckIsWrite, Zenon
<1>1. /\ w \in Seq(Write) /\ a \in Completions /\ v \in Seq(Write) /\ c \in Completions
      /\ Flow(w, a, v, c, buf.remote) /\ Flow(v, c, w, a, remote) /\ buf \in Buffer
  BY DEF Sound
<1>2. Tail(c) \in Completions
  BY <1>1 DEF Completions
<1>3. Head(c) # "message" => Flow(v, Tail(c), w, a, remote)
  BY <1>0, <1>1, FlowHandles
<1>4. /\ Head(c) # "ack" => Flow(w, a, v, Tail(c), buf.remote)
      /\ Head(c) = "ack" => Flow(w, a, v, Tail(c), "idle")
  BY <1>0, <1>1, FlowHandles
<1> QED  BY <1>1, <1>2, <1>3, <1>4 DEF Sound

\* Transmit enqueues ms behind the buffer's messages and posts the acks first.
Transmits(e, ms, acks, buf, w) ==
    /\ buf.q = mb[e].q \o ms /\ buf.remote = mb[e].remote
    /\ w = wire[e] \o acks
    /\ \E bb, ww : /\ Sends(buf, w, bb, ww)
                   /\ mb' = [mb EXCEPT ![e] = bb] /\ wire' = [wire EXCEPT ![e] = ww]

LEMMA TransmitFacts ==
    ASSUME ChannelOK, NEW e \in Ends, NEW ms \in Seq(Message), NEW acks \in Seq(Write), Transmit(e, ms, acks)
    PROVE  \E buf \in Buffer, w \in Seq(Write) : Transmits(e, ms, acks, buf, w)
<1>1. mb[e] \in Buffer /\ wire[e] \in Seq(Write)
  BY DEF ChannelOK
<1>2. PICK buf : buf = [mb[e] EXCEPT !.q = @ \o ms]
  OBVIOUS
<1>3. mb[e].q \o ms \in Seq(Message)
  <2>1. mb[e].q \in Seq(Message)
    BY <1>1 DEF Buffer
  <2> QED  BY <2>1, ConcatProperties
<1>4. buf \in Buffer /\ buf.q = mb[e].q \o ms /\ buf.remote = mb[e].remote
  BY <1>1, <1>2, <1>3 DEF Buffer
<1>5. PICK w : w = wire[e] \o acks
  OBVIOUS
<1>6. w \in Seq(Write)
  BY <1>1, <1>5, ConcatProperties
<1>7. PICK bb, ww : bb = SendNextMessage(buf, w).buf /\ ww = SendNextMessage(buf, w).wire
  OBVIOUS
<1>8. mb' = [mb EXCEPT ![e] = bb] /\ wire' = [wire EXCEPT ![e] = ww]
  BY <1>2, <1>5, <1>7, Zenon DEF Transmit
<1>9. Sends(buf, w, bb, ww)
  BY <1>7 DEF Sends
<1> QED  BY <1>4, <1>5, <1>6, <1>8, <1>9 DEF Transmits

\* The parts of the channel that an endpoint's send leaves alone.
Kept == rx' = rx /\ arrived' = arrived /\ sent' = sent

LEMMA EnqueueStep ==
    ASSUME ChannelOK, OneInFlight, NEW e \in Ends, NEW m \in Message, Transmit(e, <<m>>, << >>),
           Kept, pool' = pool
    PROVE  /\ ChannelOK' /\ OneInFlight'
           /\ Abstract!Enqueue(Pipe[e], Pipe'[e]) /\ Len(Pipe'[e]) = Len(Pipe[e]) + 1
           /\ Pipe'[e] = Append(Pipe[e], m)
           /\ Pipe'[Peer(e)] = Pipe[Peer(e)]
<1>0. PICK p \in Ends : p = Peer(e)
  BY TwoEnds
<1>1. <<m>> \in Seq(Message) /\ << >> \in Seq(Write)
  OBVIOUS
<1>2. PICK buf \in Buffer, w \in Seq(Write) : Transmits(e, <<m>>, << >>, buf, w)
  BY <1>1, TransmitFacts
<1>3. mb[e] \in Buffer /\ mb[e].q \in Seq(Message) /\ wire[e] \in Seq(Write)
  BY DEF ChannelOK, Buffer
<1>4. w = wire[e] /\ buf.q = Append(mb[e].q, m) /\ buf.remote = mb[e].remote
  BY <1>2, <1>3 DEF Transmits
<1>5. Sound(w, arrived[p], wire[p], arrived[e], mb[e], mb[p].remote)
  BY <1>0, <1>4, SoundNow
<1>6. Sound(w, arrived[p], wire[p], arrived[e], buf, mb[p].remote)
  BY <1>4, <1>5, SoundQueue
<1>7. /\ arrived' = [arrived EXCEPT ![e] = arrived[e]] /\ rx' = rx
      /\ sent' \in [Ends -> Seq({"message", "tensor"})] /\ pool' \in [Ends -> Nat]
  BY DEF Kept, ChannelOK
<1>8. /\ ChannelOK' /\ OneInFlight'
      /\ Pipe'[e] = FlightOf(arrived[p], rx[p], w, buf.q)
      /\ Pipe'[p] = FlightOf(arrived[e], rx[e], wire[p], mb[p].q)
  <2>1. Moves(e, p, arrived[e], buf, w)
    BY <1>0, <1>2, <1>6, <1>7 DEF Moves, Transmits
  <2> QED  BY <2>1, ChannelStep
<1>9. /\ Pipe[e] = FlightOf(arrived[p], rx[p], wire[e], mb[e].q)
      /\ Pipe[p] = FlightOf(arrived[e], rx[e], wire[p], mb[p].q)
  BY <1>0, PipeIs, TwoEnds
<1>10. PICK a \in Completions, r \in Message \cup {NoMessage}, q \in Seq(Message) :
         a = arrived[p] /\ r = rx[p] /\ q = mb[e].q
  BY <1>3 DEF ChannelOK, Completions
<1>11. Single(w, a)
  BY <1>5, <1>10 DEF Sound, Single, Flow
<1>12. Pipe[e] = FlightOf(a, r, w, q) /\ Pipe'[e] = FlightOf(a, r, w, Append(q, m))
  BY <1>4, <1>8, <1>9, <1>10
<1>13. PICK old, new : old = Pipe[e] /\ new = Pipe'[e]
  OBVIOUS
<1>14. Abstract!Enqueue(old, new) /\ Len(new) = Len(old) + 1 /\ new = Append(old, m)
  BY <1>11, <1>12, <1>13, FlightEnqueue
<1> QED  BY <1>0, <1>8, <1>9, <1>13, <1>14

LEMMA SendNextItemStep ==
    ASSUME ChannelOK, OneInFlight, NEW e \in Ends, SendNextItem(e)
    PROVE  /\ ChannelOK' /\ OneInFlight'
           /\ Pipe'[e] = Pipe[e] /\ Pipe'[Peer(e)] = Pipe[Peer(e)]
<1>0. PICK p \in Ends : p = Peer(e)
  BY TwoEnds
<1>1. << >> \in Seq(Message) /\ << >> \in Seq(Write)
  OBVIOUS
<1>2. PICK buf \in Buffer, w \in Seq(Write) : Transmits(e, << >>, << >>, buf, w)
  BY <1>1, TransmitFacts DEF SendNextItem
<1>3. mb[e].q \in Seq(Message) /\ wire[e] \in Seq(Write)
  BY DEF ChannelOK, Buffer
<1>4. w = wire[e] /\ buf.q = mb[e].q /\ buf.remote = mb[e].remote
  BY <1>2, <1>3 DEF Transmits
<1>5. Sound(w, arrived[p], wire[p], arrived[e], mb[e], mb[p].remote)
  BY <1>0, <1>4, SoundNow
<1>6. Sound(w, arrived[p], wire[p], arrived[e], buf, mb[p].remote)
  BY <1>4, <1>5, SoundQueue
<1>7. /\ arrived' = [arrived EXCEPT ![e] = arrived[e]] /\ rx' = rx
      /\ sent' \in [Ends -> Seq({"message", "tensor"})] /\ pool' \in [Ends -> Nat]
  BY DEF SendNextItem, ChannelOK
<1>8. Moves(e, p, arrived[e], buf, w)
  BY <1>0, <1>2, <1>6, <1>7 DEF Moves, Transmits
<1> QED  BY <1>0, <1>4, <1>8, ChannelStep, PipeIs, TwoEnds

LEMMA HandleAckStep ==
    ASSUME ChannelOK, OneInFlight, NEW e \in Ends, HandleAck(e)
    PROVE  /\ ChannelOK' /\ OneInFlight'
           /\ Pipe'[e] = Pipe[e] /\ Pipe'[Peer(e)] = Pipe[Peer(e)]
<1>0. PICK p \in Ends : p = Peer(e)
  BY TwoEnds
<1>1. /\ arrived[e] # << >> /\ Head(arrived[e]) = "ack"
      /\ arrived' = [arrived EXCEPT ![e] = Tail(@)]
      /\ rx' = rx /\ sent' = sent /\ pool' = pool
  BY DEF HandleAck, Receive
<1>2. PICK buf : buf = [mb[e] EXCEPT !.remote = "idle"]
  OBVIOUS
<1>3. mb[e] \in Buffer /\ buf \in Buffer /\ buf.q = mb[e].q /\ buf.remote = "idle"
  BY <1>2 DEF ChannelOK, Buffer
<1>4. PICK bb, ww : bb = SendNextMessage(buf, wire[e]).buf /\ ww = SendNextMessage(buf, wire[e]).wire
  OBVIOUS
<1>5. mb' = [mb EXCEPT ![e] = bb] /\ wire' = [wire EXCEPT ![e] = ww]
  BY <1>2, <1>4, Zenon DEF HandleAck
<1>6. PICK c : c = Tail(arrived[e])
  OBVIOUS
<1>7. Sound(wire[e], arrived[p], wire[p], arrived[e], mb[e], mb[p].remote)
  BY <1>0, SoundNow
<1>8. Sound(wire[e], arrived[p], wire[p], c, buf, mb[p].remote)
  BY <1>1, <1>3, <1>6, <1>7, SoundHandles
<1>9. arrived' = [arrived EXCEPT ![e] = c]
  BY <1>1, <1>6
<1>10. Moves(e, p, c, buf, wire[e])
  BY <1>0, <1>1, <1>4, <1>5, <1>8, <1>9 DEF Moves, Sends, ChannelOK
<1>11. /\ ChannelOK' /\ OneInFlight'
       /\ Pipe'[e] = FlightOf(arrived[p], rx[p], wire[e], buf.q)
       /\ Pipe'[p] = FlightOf(c, rx[e], wire[p], mb[p].q)
  BY <1>10, ChannelStep
<1>12. /\ Pipe[e] = FlightOf(arrived[p], rx[p], wire[e], mb[e].q)
       /\ Pipe[p] = FlightOf(arrived[e], rx[e], wire[p], mb[p].q)
  BY <1>0, PipeIs, TwoEnds
<1>13. FlightOf(c, rx[e], wire[p], mb[p].q) = FlightOf(arrived[e], rx[e], wire[p], mb[p].q)
  <2>1. PICK a \in Completions, r \in Message \cup {NoMessage}, q \in Seq(Message), w \in Seq(Write) :
         a = arrived[e] /\ r = rx[e] /\ q = mb[p].q /\ w = wire[p]
    BY <1>0 DEF ChannelOK, Completions, Buffer
  <2>2. Single(w, a)
    BY <1>7, <2>1 DEF Sound, Single, Flow
  <2>3. FlightOf(Tail(a), r, w, q) = FlightOf(a, r, w, q)
    BY <1>1, <2>1, <2>2, FlightHandles
  <2> QED  BY <1>6, <2>1, <2>3
<1> QED  BY <1>0, <1>3, <1>11, <1>12, <1>13

LEMMA WriteCompletedStep ==
    ASSUME ChannelOK, OneInFlight, NEW e \in Ends, WriteCompleted(e)
    PROVE  /\ ChannelOK' /\ OneInFlight'
           /\ Pipe'[e] = Pipe[e] /\ Pipe'[Peer(e)] = Pipe[Peer(e)]
<1>0. PICK p \in Ends : p = Peer(e)
  BY TwoEnds
<1>1. mb[e] \in Buffer /\ mb \in [Ends -> Buffer] /\ wire \in [Ends -> Seq(Write)]
      /\ arrived \in [Ends -> Completions]
  BY DEF ChannelOK, Completions
<1>2. \E b \in Buffer : b.q = mb[e].q /\ b.remote = mb[e].remote /\ mb' = [mb EXCEPT ![e] = b]
  <2>1. CASE Head(sent[e]) = "message"
    <3>1. PICK b : b = [mb[e] EXCEPT !.local = "idle"]
      OBVIOUS
    <3>2. b \in Buffer /\ b.q = mb[e].q /\ b.remote = mb[e].remote
      BY <1>1, <3>1 DEF Buffer
    <3>3. mb' = [mb EXCEPT ![e] = b]
      BY <2>1, <3>1 DEF WriteCompleted
    <3> QED  BY <3>2, <3>3
  <2>2. CASE Head(sent[e]) # "message"
    <3>1. mb' = mb
      BY <2>2 DEF WriteCompleted
    <3>2. mb' = [mb EXCEPT ![e] = mb[e]]
      BY <1>1, <3>1
    <3> QED  BY <1>1, <3>2
  <2> QED  BY <2>1, <2>2
<1>3. PICK buf \in Buffer : buf.q = mb[e].q /\ buf.remote = mb[e].remote /\ mb' = [mb EXCEPT ![e] = buf]
  BY <1>2
<1>4. /\ sent' \in [Ends -> Seq({"message", "tensor"})] /\ pool' \in [Ends -> Nat]
  <2>1. sent' = [sent EXCEPT ![e] = Tail(@)] /\ sent[e] # << >>
    BY DEF WriteCompleted
  <2>2. Tail(sent[e]) \in Seq({"message", "tensor"})
    BY <2>1 DEF ChannelOK
  <2>3. pool' = pool \/ pool' = [pool EXCEPT ![e] = @ + 1]
    BY DEF WriteCompleted
  <2>4. sent' \in [Ends -> Seq({"message", "tensor"})]
    BY <2>1, <2>2 DEF ChannelOK
  <2>5. pool' \in [Ends -> Nat]
    <3>1. pool \in [Ends -> Nat]
      BY DEF ChannelOK
    <3>2. pool[e] + 1 \in Nat
      BY <3>1
    <3> QED  BY <2>3, <3>1, <3>2
  <2> QED  BY <2>4, <2>5
<1>5. /\ arrived' = [arrived EXCEPT ![e] = arrived[e]] /\ rx' = rx
      /\ wire' = [wire EXCEPT ![e] = wire[e]]
  BY <1>1 DEF WriteCompleted
<1>6. Sound(wire[e], arrived[p], wire[p], arrived[e], mb[e], mb[p].remote)
  BY <1>0, SoundNow
<1>7. Sound(wire[e], arrived[p], wire[p], arrived[e], buf, mb[p].remote)
  BY <1>3, <1>6, SoundQueue
<1>8. Moves(e, p, arrived[e], buf, wire[e])
  BY <1>0, <1>3, <1>4, <1>5, <1>7 DEF Moves
<1> QED  BY <1>0, <1>3, <1>8, ChannelStep, PipeIs, TwoEnds

\* A tensor is posted.
LEMMA PostStep ==
    ASSUME ChannelOK, OneInFlight, NEW e \in Ends, NEW x \in Write, x.to = "tensor",
           wire' = [wire EXCEPT ![e] = Append(@, x)], mb' = mb, Kept, pool' = pool
    PROVE  /\ ChannelOK' /\ OneInFlight'
           /\ Pipe'[e] = Pipe[e] /\ Pipe'[Peer(e)] = Pipe[Peer(e)]
<1>0. PICK p \in Ends : p = Peer(e)
  BY TwoEnds
<1>1. mb[e] \in Buffer /\ mb \in [Ends -> Buffer] /\ arrived \in [Ends -> Completions]
  BY DEF ChannelOK, Completions
<1>2. PICK w : w = Append(wire[e], x)
  OBVIOUS
<1>3. Sound(wire[e], arrived[p], wire[p], arrived[e], mb[e], mb[p].remote)
  BY <1>0, SoundNow
<1>4. Sound(w, arrived[p], wire[p], arrived[e], mb[e], mb[p].remote)
  BY <1>2, <1>3, SoundPosts
<1>5. /\ arrived' = [arrived EXCEPT ![e] = arrived[e]] /\ rx' = rx
      /\ wire' = [wire EXCEPT ![e] = w] /\ mb' = [mb EXCEPT ![e] = mb[e]]
      /\ sent' \in [Ends -> Seq({"message", "tensor"})] /\ pool' \in [Ends -> Nat]
  BY <1>1, <1>2 DEF Kept, ChannelOK
<1>6. Moves(e, p, arrived[e], mb[e], w)
  BY <1>0, <1>4, <1>5 DEF Moves
<1>7. /\ ChannelOK' /\ OneInFlight'
      /\ Pipe'[e] = FlightOf(arrived[p], rx[p], w, mb[e].q)
      /\ Pipe'[p] = FlightOf(arrived[e], rx[e], wire[p], mb[p].q)
  BY <1>6, ChannelStep
<1>8. /\ Pipe[e] = FlightOf(arrived[p], rx[p], wire[e], mb[e].q)
      /\ Pipe[p] = FlightOf(arrived[e], rx[e], wire[p], mb[p].q)
  BY <1>0, PipeIs, TwoEnds
<1>9. FlightOf(arrived[p], rx[p], w, mb[e].q) = FlightOf(arrived[p], rx[p], wire[e], mb[e].q)
  <2>1. PICK a \in Completions, r \in {rx[p]}, q \in Seq(Message), v \in Seq(Write) :
         a = arrived[p] /\ q = mb[e].q /\ v = wire[e]
    BY <1>0 DEF ChannelOK, Completions, Buffer
  <2>2. Single(v, a)
    BY <1>3, <2>1 DEF Sound, Single, Flow
  <2>3. FlightOf(a, r, Append(v, x), q) = FlightOf(a, r, v, q)
    BY <2>2, FlightPosts
  <2> QED  BY <1>2, <2>1, <2>3
<1> QED  BY <1>0, <1>7, <1>8, <1>9

\* The endpoint e handles the message in its memory and posts an ack: the message was the
\* first that its peer had under way.
LEMMA TakeStep ==
    ASSUME ChannelOK, OneInFlight, NEW e \in Ends, Receive(e, "message"), SendAck(e),
           rx' = rx, sent' = sent, pool' = pool
    PROVE  /\ ChannelOK' /\ OneInFlight'
           /\ Pipe'[e] = Pipe[e]
           /\ Abstract!Take(Pipe[Peer(e)], Pipe'[Peer(e)])
           /\ Pipe[Peer(e)] = <<rx[e]>> \o Pipe'[Peer(e)] /\ Pipe'[Peer(e)] \in Seq(Message)
<1>0. PICK p \in Ends : p = Peer(e)
  BY TwoEnds
<1>1. mb[e] \in Buffer /\ mb \in [Ends -> Buffer] /\ arrived \in [Ends -> Completions]
  BY DEF ChannelOK, Completions
<1>2. PICK w, c : w = Append(wire[e], AckWrite) /\ c = Tail(arrived[e])
  OBVIOUS
<1>3. Sound(wire[e], arrived[p], wire[p], arrived[e], mb[e], mb[p].remote)
  BY <1>0, SoundNow
<1>4. arrived[e] # << >> /\ Head(arrived[e]) = "message"
  BY DEF Receive
<1>5. Sound(w, arrived[p], wire[p], c, mb[e], mb[p].remote)
  BY <1>2, <1>3, <1>4, SoundTakes
<1>6. /\ arrived' = [arrived EXCEPT ![e] = c] /\ rx' = rx
      /\ wire' = [wire EXCEPT ![e] = w] /\ mb' = [mb EXCEPT ![e] = mb[e]]
      /\ sent' \in [Ends -> Seq({"message", "tensor"})] /\ pool' \in [Ends -> Nat]
  BY <1>1, <1>2 DEF Receive, SendAck, ChannelOK
<1>7. Moves(e, p, c, mb[e], w)
  BY <1>0, <1>5, <1>6 DEF Moves
<1>8. /\ ChannelOK' /\ OneInFlight'
      /\ Pipe'[e] = FlightOf(arrived[p], rx[p], w, mb[e].q)
      /\ Pipe'[p] = FlightOf(c, rx[e], wire[p], mb[p].q)
  BY <1>7, ChannelStep
<1>9. /\ Pipe[e] = FlightOf(arrived[p], rx[p], wire[e], mb[e].q)
      /\ Pipe[p] = FlightOf(arrived[e], rx[e], wire[p], mb[p].q)
  BY <1>0, PipeIs, TwoEnds
<1>10. FlightOf(arrived[p], rx[p], w, mb[e].q) = FlightOf(arrived[p], rx[p], wire[e], mb[e].q)
  <2>1. PICK a \in Completions, r \in {rx[p]}, q \in Seq(Message), v \in Seq(Write) :
         a = arrived[p] /\ q = mb[e].q /\ v = wire[e]
    BY <1>0 DEF ChannelOK, Completions, Buffer
  <2>2. Single(v, a)
    BY <1>3, <2>1 DEF Sound, Single, Flow
  <2>3. PICK x \in Write : x = AckWrite /\ x.to = "ack"
    BY AckIsWrite, Zenon
  <2>4. FlightOf(a, r, Append(v, x), q) = FlightOf(a, r, v, q)
    BY <2>2, <2>3, FlightPosts
  <2> QED  BY <1>2, <2>1, <2>3, <2>4
<1>11. \E r \in Message \cup {NoMessage}, q \in Seq(Message) :
         r = rx[e] /\ Pipe[p] = <<r>> \o q /\ Pipe'[p] = q
  <2>1. PICK a \in Completions, r \in Message \cup {NoMessage}, q \in Seq(Message), v \in Seq(Write) :
         a = arrived[e] /\ r = rx[e] /\ q = mb[p].q /\ v = wire[p]
    BY <1>0 DEF ChannelOK, Completions, Buffer
  <2>2. Single(v, a)
    BY <1>3, <2>1 DEF Sound, Single, Flow
  <2>3. FlightOf(a, r, v, q) = <<r>> \o q /\ FlightOf(Tail(a), r, v, q) = q
    BY <1>4, <2>1, <2>2, FlightHandles
  <2> QED  BY <1>2, <1>8, <1>9, <2>1, <2>3
<1>12. PICK r \in Message \cup {NoMessage}, q \in Seq(Message) :
         r = rx[e] /\ Pipe[p] = <<r>> \o q /\ Pipe'[p] = q
  BY <1>11
<1>13. <<r>> \o q # << >> /\ Tail(<<r>> \o q) = q
  OBVIOUS
<1>14. Abstract!Take(Pipe[p], Pipe'[p])
  BY <1>12, <1>13 DEF Abstract!Take
<1> QED  BY <1>0, <1>8, <1>9, <1>10, <1>12, <1>14

\* The endpoint e answers the message in its memory: an ack is posted and then the
\* answer m is enqueued.
LEMMA AnswerStep ==
    ASSUME ChannelOK, OneInFlight, NEW e \in Ends, NEW m \in Message, Receive(e, "message"),
           Transmit(e, <<m>>, <<AckWrite>>), rx' = rx, sent' = sent, pool' = pool
    PROVE  /\ ChannelOK' /\ OneInFlight'
           /\ Abstract!Enqueue(Pipe[e], Pipe'[e])
           /\ Abstract!Take(Pipe[Peer(e)], Pipe'[Peer(e)])
           /\ Len(Pipe[Peer(e)]) = Len(Pipe'[Peer(e)]) + 1
           /\ Len(Pipe'[Peer(e)]) \in Nat
           /\ Pipe'[e] = Append(Pipe[e], m)
           /\ Pipe[Peer(e)] = <<rx[e]>> \o Pipe'[Peer(e)] /\ Pipe'[Peer(e)] \in Seq(Message)
<1>0. PICK p \in Ends : p = Peer(e)
  BY TwoEnds
<1>1. <<m>> \in Seq(Message) /\ <<AckWrite>> \in Seq(Write)
  BY AckIsWrite
<1>2. PICK buf \in Buffer, w \in Seq(Write) : Transmits(e, <<m>>, <<AckWrite>>, buf, w)
  BY <1>1, TransmitFacts
<1>3. mb[e] \in Buffer /\ mb[e].q \in Seq(Message) /\ wire[e] \in Seq(Write)
  BY DEF ChannelOK, Buffer
<1>4. w = Append(wire[e], AckWrite) /\ buf.q = Append(mb[e].q, m) /\ buf.remote = mb[e].remote
  BY <1>2, <1>3 DEF Transmits
<1>5. Sound(wire[e], arrived[p], wire[p], arrived[e], mb[e], mb[p].remote)
  BY <1>0, SoundNow
<1>6. arrived[e] # << >> /\ Head(arrived[e]) = "message"
  BY DEF Receive
<1>7. PICK c : c = Tail(arrived[e])
  OBVIOUS
<1>8. Sound(w, arrived[p], wire[p], c, mb[e], mb[p].remote)
  BY <1>4, <1>5, <1>6, <1>7, SoundTakes
<1>9. Sound(w, arrived[p], wire[p], c, buf, mb[p].remote)
  BY <1>4, <1>8, SoundQueue
<1>10. /\ arrived' = [arrived EXCEPT ![e] = c] /\ rx' = rx
       /\ sent' \in [Ends -> Seq({"message", "tensor"})] /\ pool' \in [Ends -> Nat]
  BY <1>7 DEF Receive, ChannelOK
<1>11. Moves(e, p, c, buf, w)
  BY <1>0, <1>2, <1>9, <1>10 DEF Moves, Transmits
<1>12. /\ ChannelOK' /\ OneInFlight'
       /\ Pipe'[e] = FlightOf(arrived[p], rx[p], w, buf.q)
       /\ Pipe'[p] = FlightOf(c, rx[e], wire[p], mb[p].q)
  BY <1>11, ChannelStep
<1>13. /\ Pipe[e] = FlightOf(arrived[p], rx[p], wire[e], mb[e].q)
       /\ Pipe[p] = FlightOf(arrived[e], rx[e], wire[p], mb[p].q)
  BY <1>0, PipeIs, TwoEnds
<1>14. Abstract!Enqueue(Pipe[e], Pipe'[e]) /\ Pipe'[e] = Append(Pipe[e], m)
  <2>1. PICK a \in Completions, r \in Message \cup {NoMessage}, q \in Seq(Message), v \in Seq(Write) :
         a = arrived[p] /\ r = rx[p] /\ q = mb[e].q /\ v = wire[e]
    BY <1>0 DEF ChannelOK, Completions, Buffer
  <2>2. Single(v, a) /\ Single(w, a)
    BY <1>5, <1>9, <2>1 DEF Sound, Single, Flow
  <2>3. PICK x \in Write : x = AckWrite /\ x.to = "ack"
    BY AckIsWrite, Zenon
  <2>4. FlightOf(a, r, Append(v, x), q) = FlightOf(a, r, v, q)
    BY <2>2, <2>3, FlightPosts
  <2>5. Pipe[e] = FlightOf(a, r, w, q) /\ Pipe'[e] = FlightOf(a, r, w, Append(q, m))
    BY <1>4, <1>12, <1>13, <2>1, <2>3, <2>4
  <2>6. PICK old, new : old = Pipe[e] /\ new = Pipe'[e]
    OBVIOUS
  <2>7. Abstract!Enqueue(old, new) /\ new = Append(old, m)
    BY <2>2, <2>5, <2>6, FlightEnqueue
  <2> QED  BY <2>6, <2>7
<1>15. \E r \in Message \cup {NoMessage}, q \in Seq(Message) :
         r = rx[e] /\ Pipe[p] = <<r>> \o q /\ Pipe'[p] = q
  <2>1. PICK a \in Completions, r \in Message \cup {NoMessage}, q \in Seq(Message), v \in Seq(Write) :
         a = arrived[e] /\ r = rx[e] /\ q = mb[p].q /\ v = wire[p]
    BY <1>0 DEF ChannelOK, Completions, Buffer
  <2>2. Single(v, a)
    BY <1>5, <2>1 DEF Sound, Single, Flow
  <2>3. FlightOf(a, r, v, q) = <<r>> \o q /\ FlightOf(Tail(a), r, v, q) = q
    BY <1>6, <2>1, <2>2, FlightHandles
  <2> QED  BY <1>7, <1>12, <1>13, <2>1, <2>3
<1>16. PICK r \in Message \cup {NoMessage}, q \in Seq(Message) :
         r = rx[e] /\ Pipe[p] = <<r>> \o q /\ Pipe'[p] = q
  BY <1>15
<1>17. /\ <<r>> \o q # << >> /\ Tail(<<r>> \o q) = q
       /\ Len(<<r>> \o q) = Len(q) + 1 /\ Len(q) \in Nat
  OBVIOUS
<1>18. Abstract!Take(Pipe[p], Pipe'[p])
  BY <1>16, <1>17 DEF Abstract!Take
<1> QED  BY <1>0, <1>12, <1>14, <1>16, <1>17, <1>18

LEMMA TensorArrivedStep ==
    ASSUME ChannelOK, OneInFlight, NEW e \in Ends, Receive(e, "tensor"),
           mb' = mb, wire' = wire, rx' = rx, sent' = sent, pool' = pool
    PROVE  /\ ChannelOK' /\ OneInFlight'
           /\ Pipe'[e] = Pipe[e] /\ Pipe'[Peer(e)] = Pipe[Peer(e)]
<1>0. PICK p \in Ends : p = Peer(e)
  BY TwoEnds
<1>1. /\ mb[e] \in Buffer /\ mb \in [Ends -> Buffer] /\ arrived \in [Ends -> Completions]
      /\ wire \in [Ends -> Seq(Write)]
  BY DEF ChannelOK, Completions
<1>2. PICK c : c = Tail(arrived[e])
  OBVIOUS
<1>3. Sound(wire[e], arrived[p], wire[p], arrived[e], mb[e], mb[p].remote)
  BY <1>0, SoundNow
<1>4. arrived[e] # << >> /\ Head(arrived[e]) = "tensor"
  BY DEF Receive
<1>5. Sound(wire[e], arrived[p], wire[p], c, mb[e], mb[p].remote)
  BY <1>2, <1>3, <1>4, SoundHandles
<1>6. /\ arrived' = [arrived EXCEPT ![e] = c] /\ rx' = rx
      /\ wire' = [wire EXCEPT ![e] = wire[e]] /\ mb' = [mb EXCEPT ![e] = mb[e]]
      /\ sent' \in [Ends -> Seq({"message", "tensor"})] /\ pool' \in [Ends -> Nat]
  BY <1>1, <1>2 DEF Receive, ChannelOK
<1>7. Moves(e, p, c, mb[e], wire[e])
  BY <1>0, <1>5, <1>6 DEF Moves
<1>8. /\ ChannelOK' /\ OneInFlight'
      /\ Pipe'[e] = FlightOf(arrived[p], rx[p], wire[e], mb[e].q)
      /\ Pipe'[p] = FlightOf(c, rx[e], wire[p], mb[p].q)
  BY <1>7, ChannelStep
<1>9. /\ Pipe[e] = FlightOf(arrived[p], rx[p], wire[e], mb[e].q)
      /\ Pipe[p] = FlightOf(arrived[e], rx[e], wire[p], mb[p].q)
  BY <1>0, PipeIs, TwoEnds
<1>10. FlightOf(c, rx[e], wire[p], mb[p].q) = FlightOf(arrived[e], rx[e], wire[p], mb[p].q)
  <2>1. PICK a \in Completions, r \in Message \cup {NoMessage}, q \in Seq(Message), w \in Seq(Write) :
         a = arrived[e] /\ r = rx[e] /\ q = mb[p].q /\ w = wire[p]
    BY <1>0 DEF ChannelOK, Completions, Buffer
  <2>2. Single(w, a)
    BY <1>3, <2>1 DEF Sound, Single, Flow
  <2>3. FlightOf(Tail(a), r, w, q) = FlightOf(a, r, w, q)
    BY <1>4, <2>1, <2>2, FlightHandles
  <2> QED  BY <1>2, <2>1, <2>3
<1> QED  BY <1>0, <1>8, <1>9, <1>10

-----------------------------------------------------------------------------
(* The network.                                                            *)

LEMMA FlightDelivers ==
    ASSUME NEW w \in Seq(Write), NEW a \in Completions, NEW q \in Seq(Message), NEW r, Single(w, a), w # << >>,
           NEW to \in {"message", "ack", "tensor"}, to = Head(w).to, Single(Tail(w), Append(a, to))
    PROVE  /\ to = "message" => FlightOf(Append(a, to), Head(w).msg, Tail(w), q) = FlightOf(a, r, w, q)
           /\ to # "message" => /\ FlightOf(Append(a, to), r, Tail(w), q) = FlightOf(a, r, w, q)
                                /\ FlightOf(a, r, Tail(w), q) = FlightOf(a, r, w, q)
<1>0. Append(a, to) \in Completions /\ Tail(w) \in Seq(Write)
  BY DEF Completions
<1>1. PICK b \in Completions : b = Append(a, to)
  BY <1>0
<1>2. PICK t \in Seq(Write) : t = Tail(w)
  BY <1>0
<1>3. Head(w) = w[1] /\ 1 \in 1..Len(w)
  OBVIOUS
<1>4. ASSUME to = "message" PROVE FlightOf(b, Head(w).msg, t, q) = FlightOf(a, r, w, q)
  <2>1. 1 \in Posted(w, "message")
    BY <1>3, <1>4 DEF Posted
  <2>2. FlightOf(a, r, w, q) = <<w[1].msg>> \o q
    BY <2>1, FlightOnWire
  <2>3. Len(a) + 1 \in At(b, "message")
    BY <1>1, <1>4 DEF At, Completions
  <2>4. PICK m : m = Head(w).msg
    OBVIOUS
  <2>5. FlightOf(b, m, t, q) = <<m>> \o q
    <3>1. Single(t, b)
      BY <1>1, <1>2
    <3> QED  BY <2>3, <3>1, FlightInMemory
  <2> QED  BY <1>3, <2>2, <2>4, <2>5
<1>5. ASSUME to # "message"
      PROVE  FlightOf(b, r, t, q) = FlightOf(a, r, w, q) /\ FlightOf(a, r, t, q) = FlightOf(a, r, w, q)
  <2>1. At(b, "message") = At(a, "message")
    BY <1>1, <1>5, AtAppend DEF Completions
  <2>2. Single(t, a) /\ Single(t, b)
    BY <1>1, <1>2, <2>1 DEF Single
  <2>3. CASE At(a, "message") # {}
    <3>1. FlightOf(a, r, w, q) = <<r>> \o q
      BY <2>3, FlightInMemory
    <3>2. FlightOf(a, r, t, q) = <<r>> \o q
      BY <2>2, <2>3, FlightInMemory
    <3>3. FlightOf(b, r, t, q) = <<r>> \o q
      BY <2>1, <2>2, <2>3, FlightInMemory
    <3> QED  BY <3>1, <3>2, <3>3
  <2>4. CASE Posted(w, "message") # {}
    <3>1. PICK k \in Posted(w, "message") : TRUE
      BY <2>4
    <3>2. k # 1 /\ k \in 1..Len(w) /\ Len(w) \in Nat /\ Len(t) = Len(w) - 1
      BY <1>2, <1>3, <1>5, <3>1 DEF Posted
    <3>3. PICK j : j = k - 1
      OBVIOUS
    <3>4. j \in 1..Len(t) /\ j + 1 = k
      BY <3>2, <3>3
    <3>5. t[j] = w[k]
      BY <1>2, <3>4
    <3>6. j \in Posted(t, "message")
      BY <3>1, <3>4, <3>5 DEF Posted
    <3>7. FlightOf(a, r, w, q) = <<w[k].msg>> \o q
      BY <3>1, FlightOnWire, ZenonT(30)
    <3>8. FlightOf(a, r, t, q) = <<t[j].msg>> \o q
      BY <2>2, <3>6, FlightOnWire, ZenonT(30)
    <3>9. FlightOf(b, r, t, q) = <<t[j].msg>> \o q
      BY <2>2, <3>6, FlightOnWire, ZenonT(30)
    <3> QED  BY <3>5, <3>7, <3>8, <3>9
  <2>5. CASE At(a, "message") = {} /\ Posted(w, "message") = {}
    <3>1. Posted(t, "message") = {}
      BY <1>2, <2>5, PostedTail
    <3>2. FlightOf(a, r, w, q) = q
      BY <2>5, FlightQueued
    <3>3. FlightOf(a, r, t, q) = q
      BY <2>2, <2>5, <3>1, FlightQueued
    <3>4. FlightOf(b, r, t, q) = q
      BY <2>1, <2>2, <2>5, <3>1, FlightQueued
    <3> QED  BY <3>2, <3>3, <3>4
  <2> QED  BY <2>3, <2>4, <2>5
<1> QED  BY <1>1, <1>2, <1>4, <1>5

\* A write that is lost on the way.
LEMMA FlowDrops ==
    ASSUME NEW w \in Seq(Write), NEW a, NEW v \in Seq(Write), NEW b, NEW remote, Flow(w, a, v, b, remote)
    PROVE  /\ w # << >> => Flow(Tail(w), a, v, b, remote)
           /\ v # << >> => Flow(w, a, Tail(v), b, remote)
<1>1. w # << >> => /\ AtMostOne(Posted(w, "message")) => AtMostOne(Posted(Tail(w), "message"))
                   /\ Posted(w, "message") = {} => Posted(Tail(w), "message") = {}
  BY PostedTail
<1>2. v # << >> => /\ AtMostOne(Posted(v, "ack")) => AtMostOne(Posted(Tail(v), "ack"))
                   /\ Posted(v, "ack") = {} => Posted(Tail(v), "ack") = {}
  BY PostedTail
<1> QED  BY <1>1, <1>2 DEF Flow

LEMMA WriteTo ==
    ASSUME NEW x \in Write
    PROVE  x.to \in {"message", "ack", "tensor"} /\ (x.to = "message" => x.msg \in Message)
  BY DEF Write

LEMMA DeliverStep ==
    ASSUME ChannelOK, OneInFlight, NEW e \in Ends, Deliver(e)
    PROVE  /\ ChannelOK' /\ OneInFlight'
           /\ Pipe'[e] = Pipe[e] /\ Pipe'[Peer(e)] = Pipe[Peer(e)]
<1>0. PICK p \in Ends : p = Peer(e) /\ p # e /\ Peer(p) = e /\ Ends = {e, p}
  BY TwoEnds
<1>1. /\ mb \in [Ends -> Buffer] /\ rx \in [Ends -> Message \cup {NoMessage}]
      /\ wire \in [Ends -> Seq(Write)] /\ arrived \in [Ends -> Completions]
      /\ sent \in [Ends -> Seq({"message", "tensor"})] /\ pool \in [Ends -> Nat]
  BY DEF ChannelOK, Completions
<1>2. PICK w \in Seq(Write), a \in Completions : w = wire[e] /\ a = arrived[p]
  BY <1>1
<1>3. w # << >>
  BY <1>2 DEF Deliver
<1>4. PICK x \in Write : x = Head(w)
  BY <1>3
<1>5. PICK to \in {"message", "ack", "tensor"} : to = x.to
  BY WriteTo
<1>6. Flow(w, a, wire[p], arrived[e], mb[e].remote) /\ Flow(wire[p], arrived[e], w, a, mb[p].remote)
  BY <1>0, <1>2 DEF OneInFlight
<1>7. /\ wire' = [wire EXCEPT ![e] = Tail(w)] /\ mb' = mb /\ pool' = pool
  BY <1>2 DEF Deliver
<1>8. \/ to = "tensor" /\ rx' = rx /\ arrived' = arrived /\ sent' = sent
      \/ /\ rx' = IF to = "message" THEN [rx EXCEPT ![p] = x.msg] ELSE rx
         /\ arrived' = [arrived EXCEPT ![p] = Append(a, to)]
         /\ sent' = IF to = "ack" THEN sent ELSE [sent EXCEPT ![e] = Append(@, to)]
  BY <1>0, <1>1, <1>2, <1>4, <1>5 DEF Deliver
<1>9. Tail(w) \in Seq(Write) /\ Append(a, to) \in Completions
  BY <1>3 DEF Completions
<1>10. wire' \in [Ends -> Seq(Write)] /\ wire'[e] = Tail(w) /\ wire'[p] = wire[p]
  BY <1>0, <1>1, <1>7, <1>9
<1>11. /\ Flow(Tail(w), Append(a, to), wire[p], arrived[e], mb[e].remote)
       /\ Flow(wire[p], arrived[e], Tail(w), Append(a, to), mb[p].remote)
  <2>1. PICK v \in Seq(Write), c \in Completions : v = wire[p] /\ c = arrived[e]
    BY <1>1
  <2>2. Flow(w, a, v, c, mb[e].remote) /\ Flow(v, c, w, a, mb[p].remote)
    BY <1>6, <2>1
  <2>3. Flow(Tail(w), Append(a, to), v, c, mb[e].remote)
    BY <1>3, <1>4, <1>5, <2>2, FlowDelivers
  <2>4. Flow(v, c, Tail(w), Append(a, to), mb[p].remote)
    BY <1>3, <1>4, <1>5, <2>2, FlowDelivers
  <2> QED  BY <2>1, <2>3, <2>4
<1>12. Single(w, a) /\ Single(Tail(w), Append(a, to))
  BY <1>6, <1>11 DEF Single, Flow
<1>13. PICK q \in Seq(Message), r \in Message \cup {NoMessage} : q = mb[e].q /\ r = rx[p]
  BY <1>1 DEF Buffer
<1>14. /\ to = "message" => FlightOf(Append(a, to), x.msg, Tail(w), q) = FlightOf(a, r, w, q)
       /\ to # "message" => /\ FlightOf(Append(a, to), r, Tail(w), q) = FlightOf(a, r, w, q)
                            /\ FlightOf(a, r, Tail(w), q) = FlightOf(a, r, w, q)
  BY <1>3, <1>4, <1>5, <1>12, FlightDelivers
<1>15. /\ Pipe[e] = FlightOf(a, r, w, q)
       /\ Pipe[p] = FlightOf(arrived[e], rx[e], wire[p], mb[p].q)
  BY <1>0, <1>2, <1>13, PipeIs
<1>16. ASSUME ChannelOK', OneInFlight', rx'[e] = rx[e], arrived'[e] = arrived[e],
              FlightOf(arrived'[p], rx'[p], Tail(w), q) = FlightOf(a, r, w, q)
       PROVE  Pipe'[e] = Pipe[e] /\ Pipe'[p] = Pipe[p]
  <2>1. Pipe'[e] = FlightOf(arrived'[p], rx'[p], wire'[e], mb'[e].q)
    BY <1>0, <1>16, PipeIsNext
  <2>2. Pipe'[p] = FlightOf(arrived'[e], rx'[e], wire'[p], mb'[p].q)
    BY <1>0, <1>16, PipeIsNext
  <2> QED  BY <1>7, <1>10, <1>13, <1>15, <1>16, <2>1, <2>2
<1>17. ASSUME Flow(wire'[e], arrived'[p], wire'[p], arrived'[e], mb'[e].remote),
              Flow(wire'[p], arrived'[e], wire'[e], arrived'[p], mb'[p].remote)
       PROVE  OneInFlight'
  <2>1. \A d \in Ends : d = e \/ d = p
    BY <1>0
  <2> QED  BY <1>0, <1>17, <2>1 DEF OneInFlight
<1>18. CASE to = "tensor" /\ rx' = rx /\ arrived' = arrived /\ sent' = sent
  <2>1. ChannelOK'
    BY <1>1, <1>7, <1>10, <1>18 DEF ChannelOK, Completions
  <2>2. /\ Flow(Tail(w), a, wire[p], arrived[e], mb[e].remote)
        /\ Flow(wire[p], arrived[e], Tail(w), a, mb[p].remote)
    <3>1. wire[p] \in Seq(Write)
      BY <1>1
    <3> QED  BY <1>3, <1>6, <3>1, FlowDrops
  <2>3. OneInFlight'
    BY <1>2, <1>7, <1>10, <1>17, <1>18, <2>2
  <2>4. Pipe'[e] = Pipe[e] /\ Pipe'[p] = Pipe[p]
    BY <1>2, <1>13, <1>14, <1>16, <1>18, <2>1, <2>3
  <2> QED  BY <1>0, <2>1, <2>3, <2>4
<1>19. CASE /\ rx' = IF to = "message" THEN [rx EXCEPT ![p] = x.msg] ELSE rx
            /\ arrived' = [arrived EXCEPT ![p] = Append(a, to)]
            /\ sent' = IF to = "ack" THEN sent ELSE [sent EXCEPT ![e] = Append(@, to)]
  <2>1. arrived' \in [Ends -> Completions] /\ arrived'[e] = arrived[e] /\ arrived'[p] = Append(a, to)
    BY <1>0, <1>1, <1>9, <1>19
  <2>2. to = "message" => x.msg \in Message
    BY <1>5, WriteTo
  <2>3. /\ rx' \in [Ends -> Message \cup {NoMessage}] /\ rx'[e] = rx[e]
        /\ rx'[p] = IF to = "message" THEN x.msg ELSE rx[p]
    BY <1>0, <1>1, <1>19, <2>2
  <2>4. sent' \in [Ends -> Seq({"message", "tensor"})]
    <3>1. to # "ack" => Append(sent[e], to) \in Seq({"message", "tensor"})
      BY <1>1
    <3> QED  BY <1>1, <1>19, <3>1
  <2>5. ChannelOK'
    BY <1>1, <1>7, <1>10, <2>1, <2>3, <2>4 DEF ChannelOK, Completions
  <2>6. OneInFlight'
    BY <1>7, <1>10, <1>11, <1>17, <2>1
  <2>7. FlightOf(arrived'[p], rx'[p], Tail(w), q) = FlightOf(a, r, w, q)
    BY <1>13, <1>14, <2>1, <2>3
  <2>8. Pipe'[e] = Pipe[e] /\ Pipe'[p] = Pipe[p]
    BY <1>16, <2>1, <2>3, <2>5, <2>6, <2>7
  <2> QED  BY <1>0, <2>5, <2>6, <2>8
<1> QED  BY <1>8, <1>18, <1>19

-----------------------------------------------------------------------------
(* The buffers that are created.                                           *)

LEMMA SizeFacts ==
    ASSUME NEW f \in TensorSizes
    PROVE  f \in [Steps -> Nat \ {0}] /\ \A s \in Steps : f[s] \in Sizes
<1>1. f \in [Steps -> Nat \ {0}]
  BY SizesAssumption
<1>2. \A s \in Steps : f[s] \in Range(f)
  BY <1>1 DEF Range
<1> QED  BY <1>1, <1>2 DEF Sizes

LEMMA SizesAreNumbers == Sizes \subseteq Nat \ {0} /\ None \notin Sizes
<1>1. ASSUME NEW f \in TensorSizes PROVE Range(f) \subseteq Nat \ {0}
  BY SizesAssumption DEF Range
<1> QED  BY <1>1 DEF Sizes, None

LEMMA ReachedFacts ==
    ASSUME NEW f \in [Steps -> Nat \ {0}], NEW n \in Nat
    PROVE  /\ IsFiniteSet(Reached(f, n)) /\ Cardinality(Reached(f, n)) \in Nat
           /\ Cardinality(Reached(f, n)) <= Cardinality(Steps)
<1> DEFINE R == Reached(f, n)
           g == [k \in R |-> CHOOSE s \in Steps : f[s] = k]
<1>1. \A k \in R : \E s \in Steps : f[s] = k
  BY DEF Reached
<1> HIDE DEF R
<1>2. \A k \in R : g[k] \in Steps /\ f[g[k]] = k
  BY <1>1
<1>3. g \in [R -> Steps]
  BY <1>2
<1> HIDE DEF g
<1>4. g \in Injection(R, Steps)
  BY <1>2, <1>3 DEF Injection, IsInjective
<1>5. IsFiniteSet(R) /\ Cardinality(R) <= Cardinality(Steps)
  BY <1>4, FS_Injection, StepsAssumption
<1>6. Cardinality(R) \in Nat
  BY <1>5, FS_CardinalityType
<1> QED  BY <1>5, <1>6 DEF R

\* A buffer for a larger tensor.
LEMMA ReachedGrows ==
    ASSUME NEW f \in [Steps -> Nat \ {0}], NEW n \in Nat, NEW s \in Steps, f[s] > n
    PROVE  Cardinality(Reached(f, n)) + 1 <= Cardinality(Reached(f, f[s]))
<1> DEFINE R == Reached(f, n)
           T == Reached(f, f[s])
<1>1. R \cup {f[s]} \subseteq T /\ f[s] \notin R
  BY DEF Reached
<1>2. /\ IsFiniteSet(R) /\ Cardinality(R) \in Nat
      /\ IsFiniteSet(T) /\ Cardinality(T) \in Nat
  BY ReachedFacts
<1> HIDE DEF R, T
<1>3. Cardinality(R \cup {f[s]}) = Cardinality(R) + 1
  BY <1>1, <1>2, FS_AddElement
<1>4. Cardinality(R \cup {f[s]}) <= Cardinality(T)
  BY <1>1, <1>2, FS_Subset
<1> QED  BY <1>3, <1>4 DEF R, T

\* The thread t goes on to another part of SendNextItem, or ends.
LEMMA AskingFacts ==
    ASSUME NEW S \in SUBSET Thread, IsFiniteSet(S), NEW t \in S, NEW u \in Thread
    PROVE  /\ IsFiniteSet(S \ {t}) /\ IsFiniteSet(S \cup {u}) /\ IsFiniteSet((S \ {t}) \cup {u})
           /\ Cardinality(Asking(S)) \in Nat
           /\ Cardinality(Asking(S \cup {u})) \in Nat
           /\ Cardinality(Asking(S \ {t})) \in Nat
           /\ Cardinality(Asking((S \ {t}) \cup {u})) \in Nat
           /\ t.at \in {"create", "ask"} => Cardinality(Asking(S \ {t})) + 1 = Cardinality(Asking(S))
           /\ t.at \notin {"create", "ask"} => Asking(S \ {t}) = Asking(S)
           /\ Cardinality(Asking((S \ {t}) \cup {u})) <= Cardinality(Asking(S \ {t})) + 1
           /\ u.at \notin {"create", "ask"} => /\ Asking((S \ {t}) \cup {u}) = Asking(S \ {t})
                                               /\ Asking(S \cup {u}) = Asking(S)
<1>1. IsFiniteSet(S \ {t}) /\ IsFiniteSet(S \cup {u}) /\ IsFiniteSet((S \ {t}) \cup {u})
  BY FS_AddElement, FS_RemoveElement
<1>2. ASSUME NEW A \in SUBSET Thread, IsFiniteSet(A)
      PROVE  IsFiniteSet(Asking(A)) /\ Cardinality(Asking(A)) \in Nat
  <2>1. Asking(A) \in SUBSET A
    BY DEF Asking
  <2>2. IsFiniteSet(Asking(A))
    BY <1>2, <2>1, FS_Subset
  <2> QED  BY <2>2, FS_CardinalityType
<1>3. /\ S \ {t} \in SUBSET Thread /\ S \cup {u} \in SUBSET Thread
      /\ (S \ {t}) \cup {u} \in SUBSET Thread
  OBVIOUS
<1>4. /\ Cardinality(Asking(S)) \in Nat /\ IsFiniteSet(Asking(S))
      /\ Cardinality(Asking(S \cup {u})) \in Nat
      /\ Cardinality(Asking(S \ {t})) \in Nat /\ IsFiniteSet(Asking(S \ {t}))
      /\ Cardinality(Asking((S \ {t}) \cup {u})) \in Nat
  BY <1>1, <1>2, <1>3
<1>5. ASSUME t.at \in {"create", "ask"} PROVE Cardinality(Asking(S \ {t})) + 1 = Cardinality(Asking(S))
  <2>1. Asking(S \ {t}) = Asking(S) \ {t} /\ t \in Asking(S)
    BY <1>5 DEF Asking
  <2>2. PICK A, B : A = Asking(S) /\ B = Asking(S \ {t})
    OBVIOUS
  <2>3. B = A \ {t} /\ t \in A /\ IsFiniteSet(A)
    BY <1>4, <2>1, <2>2
  <2>4. Cardinality(B) = Cardinality(A) - 1
    BY <2>3, FS_RemoveElement
  <2>5. Cardinality(A) \in Nat
    BY <1>4, <2>2
  <2>6. Cardinality(B) + 1 = Cardinality(A)
    BY <2>4, <2>5
  <2> QED  BY <2>2, <2>6
<1>6. t.at \notin {"create", "ask"} => Asking(S \ {t}) = Asking(S)
  BY DEF Asking
<1>7. Cardinality(Asking((S \ {t}) \cup {u})) <= Cardinality(Asking(S \ {t})) + 1
  <2>1. \/ Asking((S \ {t}) \cup {u}) = Asking(S \ {t})
        \/ Asking((S \ {t}) \cup {u}) = Asking(S \ {t}) \cup {u}
    BY DEF Asking
  <2>2. PICK A : A = Asking(S \ {t})
    OBVIOUS
  <2>3. IsFiniteSet(A) /\ Cardinality(A) \in Nat
    BY <1>4, <2>2
  <2>4. Cardinality(A \cup {u}) = IF u \in A THEN Cardinality(A) ELSE Cardinality(A) + 1
    BY <2>3, FS_AddElement
  <2>5. Cardinality(A \cup {u}) <= Cardinality(A) + 1 /\ Cardinality(A) <= Cardinality(A) + 1
    BY <2>3, <2>4
  <2> QED  BY <2>1, <2>2, <2>5
<1>8. u.at \notin {"create", "ask"} => /\ Asking((S \ {t}) \cup {u}) = Asking(S \ {t})
                                       /\ Asking(S \cup {u}) = Asking(S)
  BY DEF Asking
<1> QED  BY <1>1, <1>4, <1>5, <1>6, <1>7, <1>8

LEMMA PipeLength ==
    ASSUME ChannelOK, OneInFlight, NEW e \in Ends
    PROVE  Len(Pipe[e]) \in Nat /\ Pipe[e] \in Seq(Message \cup {NoMessage})
<1>1. PICK p \in Ends : p = Peer(e)
  BY TwoEnds
<1>2. PICK a \in Completions, r \in Message \cup {NoMessage}, q \in Seq(Message), w \in Seq(Write) :
         a = arrived[p] /\ r = rx[p] /\ q = mb[e].q /\ w = wire[e]
  BY <1>1 DEF ChannelOK, Completions, Buffer
<1>3. Sound(w, a, wire[p], arrived[e], mb[e], mb[p].remote)
  BY <1>1, <1>2, SoundNow
<1>4. Single(w, a)
  BY <1>3 DEF Sound, Single, Flow
<1>5. Pipe[e] = FlightOf(a, r, w, q)
  BY <1>1, <1>2, PipeIs
<1>6. CASE At(a, "message") # {}
  <2>1. Pipe[e] = <<r>> \o q
    BY <1>4, <1>5, <1>6, FlightInMemory
  <2> QED  BY <2>1
<1>7. CASE Posted(w, "message") # {}
  <2>1. PICK k \in Posted(w, "message") : TRUE
    BY <1>7
  <2>2. Pipe[e] = <<w[k].msg>> \o q
    BY <1>4, <1>5, FlightOnWire
  <2>3. w[k].msg \in Message
    BY <2>1, WriteTo DEF Posted
  <2> QED  BY <2>2, <2>3
<1>8. CASE At(a, "message") = {} /\ Posted(w, "message") = {}
  <2>1. Pipe[e] = q
    BY <1>4, <1>5, <1>8, FlightQueued
  <2> QED  BY <2>1
<1> QED  BY <1>6, <1>7, <1>8

-----------------------------------------------------------------------------
(* The steps keep the invariant and move the pipe.                         *)

PipeStep ==
    \A e \in Ends : \/ Pipe'[e] = Pipe[e]
                    \/ Abstract!Take(Pipe[e], Pipe'[e])
                    \/ Abstract!Enqueue(Pipe[e], Pipe'[e])

LEMMA TwoNames == /\ "src" \in Ends /\ "dst" \in Ends /\ Peer("src") = "dst" /\ Peer("dst") = "src"
                  /\ \A e \in Ends : e = "src" \/ e = "dst"
  BY DEF Ends, Peer

\* A step that leaves the pipe alone.
LEMMA Quiet ==
    ASSUME NEW e \in Ends, Pipe'[e] = Pipe[e], Pipe'[Peer(e)] = Pipe[Peer(e)]
    PROVE  PipeStep /\ Pipe'["src"] = Pipe["src"]
  BY TwoNames DEF PipeStep

LEMMA GrowthKept ==
    ASSUME Growth, Pipe'["src"] = Pipe["src"], rb'.addr = rb.addr, size' = size,
           Asking(sending') = Asking(sending), tb'.size = tb.size,
           tb'.local = tb.local \/ tb'.local # "none"
    PROVE  Growth'
  BY DEF Growth

LEMMA DeliverKeeps ==
    ASSUME IInv, NEW e \in Ends, Deliver(e)
    PROVE  IInv' /\ PipeStep
<1>1. ChannelOK /\ OneInFlight /\ TensorOK /\ Growth
  BY DEF IInv
<1>2. /\ ChannelOK' /\ OneInFlight'
      /\ Pipe'[e] = Pipe[e] /\ Pipe'[Peer(e)] = Pipe[Peer(e)]
  BY <1>1, DeliverStep
<1>3. PipeStep /\ Pipe'["src"] = Pipe["src"]
  BY <1>2, Quiet
<1>4. /\ rb' \in [addr : Addrs \cup {None}, size : Sizes \cup {None}, data : Steps \cup {None}]
      /\ rb'.addr = rb.addr
  <2>1. rb \in [addr : Addrs \cup {None}, size : Sizes \cup {None}, data : Steps \cup {None}]
    BY <1>1 DEF TensorOK
  <2>2. PICK x \in Write : x = Head(wire[e])
    BY <1>1 DEF ChannelOK, Deliver
  <2>3. rb' = rb \/ (x.to = "tensor" /\ rb' = [rb EXCEPT !.data = x.step])
    BY <2>2 DEF Deliver
  <2>4. x.to = "tensor" => x.step \in Steps
    BY DEF Write
  <2> QED  BY <2>1, <2>3, <2>4
<1>5. fatal' \in BOOLEAN
  <2>1. fatal' = TRUE \/ fatal' = fatal
    BY DEF Deliver
  <2> QED  BY <1>1, <2>1 DEF TensorOK
<1>6. TensorOK'
  BY <1>1, <1>4, <1>5 DEF TensorOK, Deliver, srcVars, history
<1>7. Growth'
  BY <1>1, <1>3, <1>4, GrowthKept DEF Deliver, srcVars
<1> QED  BY <1>2, <1>3, <1>6, <1>7 DEF IInv

LEMMA WriteCompletedKeeps ==
    ASSUME IInv, NEW e \in Ends, WriteCompleted(e)
    PROVE  IInv' /\ PipeStep
<1>1. ChannelOK /\ OneInFlight /\ TensorOK /\ Growth
  BY DEF IInv
<1>2. /\ ChannelOK' /\ OneInFlight'
      /\ Pipe'[e] = Pipe[e] /\ Pipe'[Peer(e)] = Pipe[Peer(e)]
  BY <1>1, WriteCompletedStep
<1>3. PipeStep /\ Pipe'["src"] = Pipe["src"]
  BY <1>2, Quiet
<1>4. /\ tb' = tb \/ tb' = [tb EXCEPT !.local = "idle"]
      /\ tasks' = tasks \/ tasks' = tasks + 1
  BY DEF WriteCompleted
<1>5. TensorOK'
  BY <1>1, <1>4 DEF TensorOK, WriteCompleted, dstVars, history, Status
<1>6. tb'.size = tb.size /\ (tb'.local = tb.local \/ tb'.local # "none")
  BY <1>1, <1>4 DEF TensorOK
<1>7. Growth'
  BY <1>1, <1>3, <1>6, GrowthKept DEF WriteCompleted, dstVars
<1> QED  BY <1>2, <1>3, <1>5, <1>7 DEF IInv

LEMMA SendNextItemKeeps ==
    ASSUME IInv, NEW e \in Ends, SendNextItem(e)
    PROVE  IInv' /\ PipeStep
<1>1. ChannelOK /\ OneInFlight /\ TensorOK /\ Growth
  BY DEF IInv
<1>2. /\ ChannelOK' /\ OneInFlight'
      /\ Pipe'[e] = Pipe[e] /\ Pipe'[Peer(e)] = Pipe[Peer(e)]
  BY <1>1, SendNextItemStep
<1>3. PipeStep /\ Pipe'["src"] = Pipe["src"]
  BY <1>2, Quiet
<1>4. TensorOK'
  BY <1>1 DEF TensorOK, SendNextItem, srcVars, dstVars, history
<1>5. Growth'
  BY <1>1, <1>3, GrowthKept DEF SendNextItem, srcVars, dstVars
<1> QED  BY <1>2, <1>3, <1>4, <1>5 DEF IInv

LEMMA HandleAckKeeps ==
    ASSUME IInv, NEW e \in Ends, HandleAck(e)
    PROVE  IInv' /\ PipeStep
<1>1. ChannelOK /\ OneInFlight /\ TensorOK /\ Growth
  BY DEF IInv
<1>2. /\ ChannelOK' /\ OneInFlight'
      /\ Pipe'[e] = Pipe[e] /\ Pipe'[Peer(e)] = Pipe[Peer(e)]
  BY <1>1, HandleAckStep
<1>3. PipeStep /\ Pipe'["src"] = Pipe["src"]
  BY <1>2, Quiet
<1>4. TensorOK'
  BY <1>1 DEF TensorOK, HandleAck, srcVars, dstVars, history
<1>5. Growth'
  BY <1>1, <1>3, GrowthKept DEF HandleAck, srcVars, dstVars
<1> QED  BY <1>2, <1>3, <1>4, <1>5 DEF IInv

LEMMA HandleTensorWriteKeeps ==
    ASSUME IInv, HandleTensorWrite
    PROVE  IInv' /\ PipeStep
<1>1. ChannelOK /\ OneInFlight /\ TensorOK /\ Growth
  BY DEF IInv
<1>2. /\ ChannelOK' /\ OneInFlight'
      /\ Pipe'["dst"] = Pipe["dst"] /\ Pipe'["src"] = Pipe["src"]
  BY <1>1, TensorArrivedStep, TwoNames DEF HandleTensorWrite
<1>3. PipeStep
  BY <1>2, TwoNames DEF PipeStep
<1>4. recvDone' \in [Steps -> Nat] /\ fatal' \in BOOLEAN
  <2>1. /\ recvDone \in [Steps -> Nat] /\ fatal \in BOOLEAN
        /\ rb \in [addr : Addrs \cup {None}, size : Sizes \cup {None}, data : Steps \cup {None}]
    BY <1>1 DEF TensorOK
  <2>2. CASE rb.data = None
    BY <2>1, <2>2 DEF HandleTensorWrite
  <2>3. CASE rb.data # None
    <3>1. PICK d \in Steps : d = rb.data
      BY <2>1, <2>3
    <3>2. recvDone[d] + 1 \in Nat
      BY <2>1
    <3>3. recvDone' = [recvDone EXCEPT ![d] = recvDone[d] + 1] /\ fatal' = fatal
      BY <2>3, <3>1 DEF HandleTensorWrite
    <3> QED  BY <2>1, <3>2, <3>3
  <2> QED  BY <2>2, <2>3
<1>5. TensorOK'
  BY <1>1, <1>4 DEF TensorOK, HandleTensorWrite, srcVars, history
<1>6. Growth'
  BY <1>1, <1>2, GrowthKept DEF HandleTensorWrite, srcVars
<1> QED  BY <1>2, <1>3, <1>5, <1>6 DEF IInv

LEMMA MessagesAre ==
    /\ \A s \in Steps : TensorRequest(s) \in Message
    /\ BufferIdle \in Message
    /\ \A n \in Sizes : BufferRequest(n) \in Message
    /\ \A n \in Sizes, a \in Addrs : BufferResponse(n, a) \in Message
  BY DEF Message, TensorRequest, BufferIdle, BufferRequest, BufferResponse

LEMMA MessageFields ==
    ASSUME NEW m \in Message \cup {NoMessage}
    PROVE  /\ m.type = "TENSOR_REQUEST" => m.step \in Steps
           /\ m.type = "BUFFER_REQUEST" => m.size \in Sizes
           /\ m.type = "BUFFER_RESPONSE" => m.addr \in Addrs
<1>1. CASE m \in [type : {"TENSOR_REQUEST"}, step : Steps]
  BY <1>1
<1>2. CASE m \in [type : {"BUFFER_IDLE"}]
  BY <1>2
<1>3. CASE m \in [type : {"BUFFER_REQUEST"}, size : Sizes]
  BY <1>3
<1>4. CASE m \in [type : {"BUFFER_RESPONSE"}, size : Sizes, addr : Addrs]
  BY <1>4
<1>5. CASE m = NoMessage
  BY <1>5 DEF NoMessage
<1> QED  BY <1>1, <1>2, <1>3, <1>4, <1>5 DEF Message

LEMMA RecvFromRemoteAsyncKeeps ==
    ASSUME IInv, NEW s \in Steps, RecvFromRemoteAsync(s)
    PROVE  IInv' /\ PipeStep
<1>1. ChannelOK /\ OneInFlight /\ TensorOK /\ Growth
  BY DEF IInv
<1>2. PICK m \in Message : m = TensorRequest(s)
  BY MessagesAre
<1>3. Transmit("dst", <<m>>, << >>) /\ Kept /\ pool' = pool
  BY <1>2 DEF RecvFromRemoteAsync, Kept
<1>4. /\ ChannelOK' /\ OneInFlight'
      /\ Abstract!Enqueue(Pipe["dst"], Pipe'["dst"]) /\ Pipe'["src"] = Pipe["src"]
  BY <1>1, <1>3, EnqueueStep, TwoNames
<1>5. PipeStep
  BY <1>4, TwoNames DEF PipeStep
<1>6. TensorOK'
  BY <1>1 DEF TensorOK, RecvFromRemoteAsync, srcVars, history
<1>7. Growth'
  BY <1>1, <1>4, GrowthKept DEF RecvFromRemoteAsync, srcVars
<1> QED  BY <1>4, <1>5, <1>6, <1>7 DEF IInv

LEMMA ChannelAside ==
    ASSUME ChannelOK, OneInFlight, UNCHANGED chanVars
    PROVE  /\ ChannelOK' /\ OneInFlight' /\ PipeStep
           /\ Pipe'["src"] = Pipe["src"] /\ Pipe'["dst"] = Pipe["dst"]
<1>1. ChannelOK' /\ OneInFlight'
  BY DEF ChannelOK, OneInFlight, chanVars
<1>2. \A e \in Ends : Pipe'[e] = Pipe[e]
  <2> SUFFICES ASSUME NEW e \in Ends PROVE Pipe'[e] = Pipe[e]
    OBVIOUS
  <2>1. Pipe[e] = FlightOf(arrived[Peer(e)], rx[Peer(e)], wire[e], mb[e].q)
    BY PipeIs
  <2>2. Pipe'[e] = FlightOf(arrived'[Peer(e)], rx'[Peer(e)], wire'[e], mb'[e].q)
    BY <1>1, PipeIsNext
  <2> QED  BY <2>1, <2>2 DEF chanVars
<1> QED  BY <1>1, <1>2, TwoNames DEF PipeStep

LEMMA RunRecvCallbackKeeps ==
    ASSUME IInv, NEW s \in Steps, RunRecvCallback(s)
    PROVE  IInv' /\ PipeStep
<1>1. ChannelOK /\ OneInFlight /\ TensorOK /\ Growth
  BY DEF IInv
<1>2. recvDone' \in [Steps -> Nat]
  <2>1. recvDone \in [Steps -> Nat] /\ recvDone[s] > 0 /\ recvDone' = [recvDone EXCEPT ![s] = @ - 1]
    BY <1>1 DEF TensorOK, RunRecvCallback
  <2>2. recvDone[s] - 1 \in Nat
    BY <2>1
  <2> QED  BY <2>1, <2>2
<1>3. CASE s \notin callbacks \/ rb.data = None
  <2>1. UNCHANGED chanVars
    BY <1>3 DEF RunRecvCallback, chanVars
  <2>2. ChannelOK' /\ OneInFlight' /\ PipeStep /\ Pipe'["src"] = Pipe["src"]
    BY <1>1, <2>1, ChannelAside
  <2>3. TensorOK'
    BY <1>1, <1>2, <1>3 DEF TensorOK, RunRecvCallback, srcVars, history
  <2>4. Growth'
    BY <1>1, <2>2, GrowthKept DEF RunRecvCallback, srcVars
  <2> QED  BY <2>2, <2>3, <2>4 DEF IInv
<1>4. CASE ~(s \notin callbacks \/ rb.data = None)
  <2>1. PICK m \in Message : m = BufferIdle
    BY MessagesAre
  <2>2. Transmit("dst", <<m>>, << >>) /\ Kept /\ pool' = pool
    BY <1>4, <2>1 DEF RunRecvCallback, Kept, Release
  <2>3. /\ ChannelOK' /\ OneInFlight'
        /\ Abstract!Enqueue(Pipe["dst"], Pipe'["dst"]) /\ Pipe'["src"] = Pipe["src"]
    BY <1>1, <2>2, EnqueueStep, TwoNames
  <2>4. PipeStep
    BY <2>3, TwoNames DEF PipeStep
  <2>5. got' \in [Steps -> Steps \cup {None}] /\ callbacks' \subseteq Steps /\ fatal' = fatal
    BY <1>1, <1>4 DEF TensorOK, RunRecvCallback
  <2>6. TensorOK'
    BY <1>1, <1>2, <2>5 DEF TensorOK, RunRecvCallback, srcVars, history
  <2>7. Growth'
    BY <1>1, <2>3, GrowthKept DEF RunRecvCallback, srcVars
  <2> QED  BY <2>3, <2>4, <2>6, <2>7 DEF IInv
<1> QED  BY <1>3, <1>4

LEMMA RequestBufferKeeps ==
    ASSUME IInv, NEW t \in sending, RequestBuffer(t)
    PROVE  IInv' /\ PipeStep
<1>1. ChannelOK /\ OneInFlight /\ TensorOK /\ Growth
  BY DEF IInv
<1>2. sending \in SUBSET Thread /\ IsFiniteSet(sending) /\ t \in Thread /\ t.step \in Steps /\ t.at = "ask"
  BY <1>1 DEF TensorOK, Thread, RequestBuffer
<1>3. size[t.step] \in Sizes
  BY <1>1, <1>2, SizeFacts DEF TensorOK
<1>4. PICK m \in Message : m = BufferRequest(size[t.step])
  BY <1>3, MessagesAre
<1>5. Transmit("src", <<m>>, << >>) /\ Kept /\ pool' = pool
  BY <1>4 DEF RequestBuffer, Kept
<1>6. /\ ChannelOK' /\ OneInFlight'
      /\ Abstract!Enqueue(Pipe["src"], Pipe'["src"]) /\ Pipe'["dst"] = Pipe["dst"]
      /\ Len(Pipe'["src"]) = Len(Pipe["src"]) + 1
  BY <1>1, <1>5, EnqueueStep, TwoNames
<1>7. PipeStep
  BY <1>6, TwoNames DEF PipeStep
<1>8. sending' = sending \ {t} /\ IsFiniteSet(sending \ {t})
  BY <1>2, AskingFacts DEF RequestBuffer
<1>9. TensorOK'
  BY <1>1, <1>8 DEF TensorOK, RequestBuffer, dstVars, history
<1>10. /\ Cardinality(Asking(sending')) + 1 = Cardinality(Asking(sending))
       /\ Cardinality(Asking(sending')) \in Nat
  BY <1>2, <1>8, AskingFacts
<1>11. Len(Pipe["src"]) \in Nat
  BY <1>1, PipeLength, TwoNames
<1>12. rb.addr \in Nat /\ rb' = rb /\ tb' = tb /\ size' = size
  BY <1>1 DEF TensorOK, Addrs, None, RequestBuffer, dstVars
<1>13. Growth'
  <2>1. rb.addr + Cardinality(Asking(sending')) + Len(Pipe'["src"])
          = rb.addr + Cardinality(Asking(sending)) + Len(Pipe["src"])
    <3>1. PICK k \in Nat, l \in Nat, a \in Nat : /\ k = Cardinality(Asking(sending')) /\ l = Len(Pipe["src"])
                                                  /\ a = rb.addr
      BY <1>10, <1>11, <1>12
    <3>2. Cardinality(Asking(sending)) = k + 1 /\ Len(Pipe'["src"]) = l + 1
      BY <1>6, <1>10, <3>1
    <3>3. a + k + (l + 1) = a + (k + 1) + l
      OBVIOUS
    <3> QED  BY <3>1, <3>2, <3>3, Zenon
  <2> QED  BY <1>1, <1>12, <2>1 DEF Growth
<1> QED  BY <1>6, <1>7, <1>9, <1>13 DEF IInv

LEMMA WriteTensorKeeps ==
    ASSUME IInv, NEW t \in sending, WriteTensor(t)
    PROVE  IInv' /\ PipeStep
<1>1. ChannelOK /\ OneInFlight /\ TensorOK /\ Growth
  BY DEF IInv
<1>2. sending \in SUBSET Thread /\ IsFiniteSet(sending) /\ t \in Thread /\ t.step \in Steps /\ t.at = "write"
  BY <1>1 DEF TensorOK, Thread, WriteTensor
<1>3. size[t.step] \in Sizes /\ tb.addr \in Addrs \cup {None}
  BY <1>1, <1>2, SizeFacts DEF TensorOK
<1>4. TensorWrite(t.step, size[t.step], tb.addr) \in Write
      /\ TensorWrite(t.step, size[t.step], tb.addr).to = "tensor"
  BY <1>2, <1>3 DEF TensorWrite, Write
<1>5. PICK x \in Write : x = TensorWrite(t.step, size[t.step], tb.addr) /\ x.to = "tensor"
  BY <1>4, Zenon
<1>6. wire' = [wire EXCEPT !["src"] = Append(@, x)] /\ mb' = mb /\ Kept /\ pool' = pool
  BY <1>5 DEF WriteTensor, Kept
<1>7. /\ ChannelOK' /\ OneInFlight'
      /\ Pipe'["src"] = Pipe["src"] /\ Pipe'["dst"] = Pipe["dst"]
  BY <1>1, <1>5, <1>6, PostStep, TwoNames
<1>8. PipeStep
  BY <1>7, TwoNames DEF PipeStep
<1>9. sending' = sending \ {t} /\ IsFiniteSet(sending \ {t}) /\ Asking(sending') = Asking(sending)
  BY <1>2, AskingFacts DEF WriteTensor
<1>10. TensorOK'
  BY <1>1, <1>9 DEF TensorOK, WriteTensor, dstVars, history
<1>11. Growth'
  BY <1>1, <1>7, <1>9, GrowthKept DEF WriteTensor, dstVars
<1> QED  BY <1>7, <1>8, <1>10, <1>11 DEF IInv

\* A message that the source handles with an ack.
LEMMA SourceTakes ==
    ASSUME ChannelOK, OneInFlight, Receive("src", "message"), SendAck("src"),
           rx' = rx, sent' = sent, pool' = pool
    PROVE  ChannelOK' /\ OneInFlight' /\ PipeStep /\ Pipe'["src"] = Pipe["src"]
<1>1. /\ ChannelOK' /\ OneInFlight' /\ Pipe'["src"] = Pipe["src"]
      /\ Abstract!Take(Pipe["dst"], Pipe'["dst"])
  BY TakeStep, TwoNames
<1>2. PipeStep
  BY <1>1, TwoNames DEF PipeStep
<1> QED  BY <1>1, <1>2

LEMMA HandleTensorRequestKeeps ==
    ASSUME IInv, HandleTensorRequest
    PROVE  IInv' /\ PipeStep
<1>1. ChannelOK /\ OneInFlight /\ TensorOK /\ Growth
  BY DEF IInv
<1>2. ChannelOK' /\ OneInFlight' /\ PipeStep /\ Pipe'["src"] = Pipe["src"]
  BY <1>1, SourceTakes DEF HandleTensorRequest, ReceiveMessage
<1>3. rx["src"].step \in Steps
  BY <1>1, MessageFields, TwoNames DEF ChannelOK, HandleTensorRequest, ReceiveMessage
<1>4. /\ tb' \in [q : Seq(Steps), local : Status, remote : Status, size : Sizes \cup {None},
                  addr : Addrs \cup {None}]
      /\ tb'.size = tb.size /\ tb'.local = tb.local
  <2>1. tb \in [q : Seq(Steps), local : Status, remote : Status, size : Sizes \cup {None},
               addr : Addrs \cup {None}]
    BY <1>1 DEF TensorOK
  <2>2. Append(tb.q, rx["src"].step) \in Seq(Steps)
    BY <1>3, <2>1
  <2>3. tb' = [tb EXCEPT !.q = Append(tb.q, rx["src"].step)]
    BY DEF HandleTensorRequest, EnqueueItem
  <2> QED  BY <2>1, <2>2, <2>3
<1>5. TensorOK'
  BY <1>1, <1>4 DEF TensorOK, HandleTensorRequest, dstVars, history
<1>6. Growth'
  BY <1>1, <1>2, <1>4, GrowthKept DEF HandleTensorRequest, dstVars
<1> QED  BY <1>2, <1>5, <1>6 DEF IInv

LEMMA HandleBufferIdleKeeps ==
    ASSUME IInv, HandleBufferIdle
    PROVE  IInv' /\ PipeStep
<1>1. ChannelOK /\ OneInFlight /\ TensorOK /\ Growth
  BY DEF IInv
<1>2. ChannelOK' /\ OneInFlight' /\ PipeStep /\ Pipe'["src"] = Pipe["src"]
  BY <1>1, SourceTakes DEF HandleBufferIdle, ReceiveMessage
<1>3. /\ tb' \in [q : Seq(Steps), local : Status, remote : Status, size : Sizes \cup {None},
                  addr : Addrs \cup {None}]
      /\ tb'.size = tb.size /\ tb'.local = tb.local
  BY <1>1 DEF TensorOK, HandleBufferIdle, Status
<1>4. TensorOK'
  BY <1>1, <1>3 DEF TensorOK, HandleBufferIdle, dstVars, history
<1>5. Growth'
  BY <1>1, <1>2, <1>3, GrowthKept DEF HandleBufferIdle, dstVars
<1> QED  BY <1>2, <1>4, <1>5 DEF IInv

LEMMA HandleBufferResponseKeeps ==
    ASSUME IInv, HandleBufferResponse
    PROVE  IInv' /\ PipeStep
<1>1. ChannelOK /\ OneInFlight /\ TensorOK /\ Growth
  BY DEF IInv
<1>2. ChannelOK' /\ OneInFlight' /\ PipeStep /\ Pipe'["src"] = Pipe["src"]
  BY <1>1, SourceTakes DEF HandleBufferResponse, ReceiveMessage
<1>3. rx["src"].addr \in Addrs
  BY <1>1, MessageFields, TwoNames DEF ChannelOK, HandleBufferResponse, ReceiveMessage
<1>4. \/ tb' = tb /\ response' = response /\ fatal' = TRUE
      \/ tb' = [tb EXCEPT !.addr = rx["src"].addr, !.remote = "idle"] /\ response' = 1 /\ fatal' = fatal
  BY DEF HandleBufferResponse
<1>5. /\ tb' \in [q : Seq(Steps), local : Status, remote : Status, size : Sizes \cup {None},
                  addr : Addrs \cup {None}]
      /\ tb'.size = tb.size /\ tb'.local = tb.local
  BY <1>1, <1>3, <1>4 DEF TensorOK, Status
<1>6. response' \in 0..2 /\ fatal' \in BOOLEAN
  <2>1. response \in 0..2 /\ fatal \in BOOLEAN
    BY <1>1 DEF TensorOK
  <2>2. response' \in 0..2
    BY <1>4, <2>1
  <2>3. fatal' \in BOOLEAN
    BY <1>4, <2>1, Zenon
  <2> QED  BY <2>2, <2>3
<1>7. TensorOK'
  BY <1>1, <1>5, <1>6 DEF TensorOK, HandleBufferResponse, dstVars, history
<1>8. Growth'
  BY <1>1, <1>2, <1>5, GrowthKept DEF HandleBufferResponse, dstVars
<1> QED  BY <1>2, <1>7, <1>8 DEF IInv

LEMMA HandleBufferRequestKeeps ==
    ASSUME IInv, HandleBufferRequest
    PROVE  IInv' /\ PipeStep
<1>1. ChannelOK /\ OneInFlight /\ TensorOK /\ Growth
  BY DEF IInv
<1>2. rx["dst"].size \in Sizes
  BY <1>1, MessageFields, TwoNames DEF ChannelOK, HandleBufferRequest, ReceiveMessage
<1>3. /\ rb.addr \in Nat /\ tb.size \in Nat /\ size \in [Steps -> Nat \ {0}]
      /\ sending \in SUBSET Thread /\ IsFiniteSet(sending)
  <2>0. rb.addr \in Nat
    BY <1>1 DEF TensorOK, Addrs, None
  <2>1. tb.size \in Nat
    <3>1. PICK n : n = tb.size
      OBVIOUS
    <3>2. n \in Sizes \cup {0}
      BY <1>1, <3>1 DEF TensorOK, None
    <3>3. n \in Nat
      BY <3>2, SizesAreNumbers
    <3> QED  BY <3>1, <3>3
  <2>2. size \in [Steps -> Nat \ {0}]
    BY <1>1, SizeFacts DEF TensorOK
  <2>3. sending \in SUBSET Thread /\ IsFiniteSet(sending)
    BY <1>1 DEF TensorOK
  <2> QED  BY <2>0, <2>1, <2>2, <2>3
<1>4. Cardinality(Asking(sending)) \in Nat
  <2>1. Asking(sending) \in SUBSET sending
    BY DEF Asking
  <2>2. IsFiniteSet(Asking(sending))
    BY <1>3, <2>1, FS_Subset
  <2> QED  BY <2>2, FS_CardinalityType
<1>5. /\ Cardinality(Reached(size, tb.size)) \in Nat
      /\ Cardinality(Reached(size, tb.size)) <= Cardinality(Steps)
  BY <1>3, ReachedFacts
<1>6. Receive("dst", "message") /\ rx' = rx /\ sent' = sent /\ pool' = pool
  BY DEF HandleBufferRequest, ReceiveMessage
<1>7. Pipe["src"] # << >> /\ Len(Pipe["src"]) > 0 /\ Len(Pipe["src"]) \in Nat
  <2>1. PICK a \in Completions, r \in Message \cup {NoMessage}, q \in Seq(Message), w \in Seq(Write) :
         a = arrived["dst"] /\ r = rx["dst"] /\ q = mb["src"].q /\ w = wire["src"]
    BY <1>1, TwoNames DEF ChannelOK, Completions, Buffer
  <2>2. Sound(w, a, wire["dst"], arrived["src"], mb["src"], mb["dst"].remote)
    BY <1>1, <2>1, SoundNow, TwoNames
  <2>3. Single(w, a) /\ a # << >> /\ Head(a) = "message"
    BY <1>6, <2>1, <2>2 DEF Sound, Single, Flow, Receive
  <2>4. Pipe["src"] = FlightOf(a, r, w, q)
    BY <1>1, <2>1, PipeIs, TwoNames
  <2>5. FlightOf(a, r, w, q) = <<r>> \o q
    BY <2>3, FlightHandles
  <2>6. <<r>> \o q # << >> /\ Len(<<r>> \o q) > 0 /\ Len(<<r>> \o q) \in Nat
    OBVIOUS
  <2> QED  BY <2>4, <2>5, <2>6
<1>8. rb.addr + 1 \in Addrs
  <2>1. Cardinality(Steps) \in Nat
    BY StepsAssumption, FS_CardinalityType
  <2>2. rb.addr + 1 <= Cardinality(Steps)
    BY <1>1, <1>3, <1>4, <1>5, <1>7, <2>1 DEF Growth
  <2> QED  BY <1>3, <2>1, <2>2 DEF Addrs
<1>9. PICK m \in Message : m = BufferResponse(rx["dst"].size, rb.addr + 1)
  BY <1>2, <1>8, MessagesAre
<1>10. Transmit("dst", <<m>>, <<AckWrite>>)
  BY <1>9 DEF HandleBufferRequest
<1>11. /\ ChannelOK' /\ OneInFlight'
       /\ Abstract!Enqueue(Pipe["dst"], Pipe'["dst"])
       /\ Abstract!Take(Pipe["src"], Pipe'["src"])
       /\ Len(Pipe["src"]) = Len(Pipe'["src"]) + 1 /\ Len(Pipe'["src"]) \in Nat
  BY <1>1, <1>6, <1>10, AnswerStep, TwoNames
<1>12. PipeStep
  BY <1>11, TwoNames DEF PipeStep
<1>13. /\ rb' \in [addr : Addrs \cup {None}, size : Sizes \cup {None}, data : Steps \cup {None}]
       /\ rb'.addr = rb.addr + 1
  BY <1>2, <1>8 DEF HandleBufferRequest
<1>14. TensorOK'
  BY <1>1, <1>13 DEF TensorOK, HandleBufferRequest, srcVars, history
<1>15. Growth'
  <2>1. PICK k \in Nat, l \in Nat, a \in Nat : /\ k = Cardinality(Asking(sending)) /\ l = Len(Pipe'["src"])
                                               /\ a = rb.addr
    BY <1>3, <1>4, <1>11
  <2>2. rb'.addr + Cardinality(Asking(sending)) + Len(Pipe'["src"])
          = rb.addr + Cardinality(Asking(sending)) + Len(Pipe["src"])
    BY <1>11, <1>13, <2>1
  <2>3. tb' = tb /\ sending' = sending /\ size' = size
    BY DEF HandleBufferRequest, srcVars
  <2> QED  BY <1>1, <2>2, <2>3 DEF Growth
<1> QED  BY <1>11, <1>12, <1>14, <1>15 DEF IInv

LEMMA PopKeyKeeps ==
    ASSUME IInv, PopKey
    PROVE  IInv' /\ PipeStep
<1>1. ChannelOK /\ OneInFlight /\ TensorOK /\ Growth
  BY DEF IInv
<1>2. ChannelOK' /\ OneInFlight' /\ PipeStep /\ Pipe'["src"] = Pipe["src"]
  BY <1>1, ChannelAside DEF PopKey
<1>3. /\ tb \in [q : Seq(Steps), local : Status, remote : Status, size : Sizes \cup {None},
                 addr : Addrs \cup {None}]
      /\ sending \in SUBSET Thread /\ IsFiniteSet(sending) /\ tasks' \in Nat
  BY <1>1 DEF TensorOK, PopKey
<1>4. /\ tb' \in [q : Seq(Steps), local : Status, remote : Status, size : Sizes \cup {None},
                  addr : Addrs \cup {None}]
      /\ tb'.size = tb.size /\ tb'.local = tb.local
      /\ sending' \in SUBSET Thread /\ IsFiniteSet(sending') /\ Asking(sending') = Asking(sending)
  <2>1. CASE tb.q = << >>
    BY <1>3, <2>1 DEF PopKey
  <2>2. CASE tb.q # << >>
    <3>1. Head(tb.q) \in Steps /\ Tail(tb.q) \in Seq(Steps)
      BY <1>3, <2>2
    <3>2. tb' = [tb EXCEPT !.q = Tail(tb.q)]
      BY <2>2 DEF PopKey
    <3>3. PICK u \in Thread : u = [step |-> Head(tb.q), at |-> "recv"]
      BY <3>1 DEF Thread
    <3>4. sending' = sending \cup {u} /\ u.at = "recv"
      BY <2>2, <3>3 DEF PopKey
    <3>5. IsFiniteSet(sending')
      BY <1>3, <3>4, FS_AddElement
    <3>6. Asking(sending') = Asking(sending)
      BY <3>4 DEF Asking
    <3> QED  BY <1>3, <3>1, <3>2, <3>4, <3>5, <3>6
  <2> QED  BY <2>1, <2>2
<1>5. TensorOK'
  BY <1>1, <1>3, <1>4 DEF TensorOK, PopKey, dstVars, history
<1>6. Growth'
  BY <1>1, <1>2, <1>4, GrowthKept DEF PopKey, dstVars
<1> QED  BY <1>2, <1>5, <1>6 DEF IInv

LEMMA DecideTransmissionKeeps ==
    ASSUME IInv, NEW t \in sending, DecideTransmission(t)
    PROVE  IInv' /\ PipeStep
<1>1. ChannelOK /\ OneInFlight /\ TensorOK /\ Growth
  BY DEF IInv
<1>2. ChannelOK' /\ OneInFlight' /\ PipeStep /\ Pipe'["src"] = Pipe["src"]
  BY <1>1, ChannelAside DEF DecideTransmission
<1>3. sending \in SUBSET Thread /\ IsFiniteSet(sending) /\ t \in Thread /\ t.step \in Steps /\ t.at = "recv"
  BY <1>1 DEF TensorOK, Thread, DecideTransmission
<1>4. tb \in [q : Seq(Steps), local : Status, remote : Status, size : Sizes \cup {None},
              addr : Addrs \cup {None}]
  BY <1>1 DEF TensorOK
<1>5. size \in TensorSizes /\ size \in [Steps -> Nat \ {0}] /\ size[t.step] \in Sizes
  BY <1>1, <1>3, SizeFacts DEF TensorOK
<1>6. /\ size' = size /\ requested' = requested /\ fatal' = fatal /\ tasks' = tasks
      /\ response' = response /\ rb' = rb /\ recvDone' = recvDone /\ callbacks' = callbacks
      /\ got' = got /\ missed' = missed
  BY DEF DecideTransmission, dstVars
<1>7. raced' \in BOOLEAN /\ resized' \in BOOLEAN
  <2>1. raced \in BOOLEAN /\ resized \in BOOLEAN
    BY <1>1 DEF TensorOK
  <2>2. /\ raced' = raced \/ raced' = (raced \/ response > 0)
        /\ resized' = resized \/ resized' = (resized \/ tb.local # "none")
    BY DEF DecideTransmission
  <2> QED  BY <2>1, <2>2, Zenon
<1>8. ASSUME NEW at \in {"create", "write", "putback"}, Move(t, at)
      PROVE  /\ sending' \in SUBSET Thread /\ IsFiniteSet(sending')
             /\ at # "create" => Asking(sending') = Asking(sending)
             /\ Cardinality(Asking(sending')) \in Nat /\ Cardinality(Asking(sending)) \in Nat
             /\ Cardinality(Asking(sending')) <= Cardinality(Asking(sending)) + 1
  <2>0. [t EXCEPT !.at = at] \in Thread /\ [t EXCEPT !.at = at].at = at
    BY <1>3 DEF Thread
  <2>1. PICK u \in Thread : u = [t EXCEPT !.at = at] /\ u.at = at
    BY <2>0, Zenon
  <2>2. sending' = (sending \ {t}) \cup {u}
    BY <1>8, <2>1 DEF Move
  <2>3. Asking(sending \ {t}) = Asking(sending)
    BY <1>3, AskingFacts
  <2>4. /\ IsFiniteSet((sending \ {t}) \cup {u})
        /\ Cardinality(Asking(sending)) \in Nat
        /\ Cardinality(Asking((sending \ {t}) \cup {u})) \in Nat
        /\ Cardinality(Asking((sending \ {t}) \cup {u})) <= Cardinality(Asking(sending \ {t})) + 1
        /\ u.at \notin {"create", "ask"} => Asking((sending \ {t}) \cup {u}) = Asking(sending \ {t})
    BY <1>3, <2>1, AskingFacts
  <2> QED  BY <1>3, <2>1, <2>2, <2>3, <2>4
<1>9. CASE /\ NeedsBuffer(t.step)
           /\ tb' = [tb EXCEPT !.size = size[t.step], !.local = "idle"]
           /\ Move(t, "create")
  <2>1. /\ sending' \in SUBSET Thread /\ IsFiniteSet(sending')
        /\ Cardinality(Asking(sending')) \in Nat /\ Cardinality(Asking(sending)) \in Nat
        /\ Cardinality(Asking(sending')) <= Cardinality(Asking(sending)) + 1
    BY <1>8, <1>9
  <2>2. /\ tb' \in [q : Seq(Steps), local : Status, remote : Status, size : Sizes \cup {None},
                    addr : Addrs \cup {None}]
        /\ tb'.size = size[t.step] /\ tb'.local = "idle"
    BY <1>4, <1>5, <1>9 DEF Status
  <2>3. TensorOK'
    BY <1>1, <1>6, <1>7, <2>1, <2>2 DEF TensorOK
  <2>4. PICK n \in Nat : n = tb.size
    BY <1>4, SizesAreNumbers DEF None
  <2>5. size[t.step] > n
    <3>1. size[t.step] \in Nat \ {0}
      BY <1>3, <1>5
    <3>2. tb.local = "none" => n = 0
      BY <1>1, <2>4 DEF Growth, None
    <3> QED  BY <1>9, <2>4, <3>1, <3>2 DEF NeedsBuffer
  <2>6. PICK f \in [Steps -> Nat \ {0}], s \in Steps : f = size /\ s = t.step
    BY <1>3, <1>5
  <2>7. Cardinality(Reached(f, n)) + 1 <= Cardinality(Reached(f, f[s]))
    BY <2>5, <2>6, ReachedGrows
  <2>8. Cardinality(Reached(f, n)) \in Nat /\ Cardinality(Reached(f, f[s])) \in Nat
    <3>1. f[s] \in Nat
      BY <2>6
    <3> QED  BY <3>1, ReachedFacts
  <2>9. Growth'
    <3>1. PICK k \in Nat, k1 \in Nat, l \in Nat, a \in Nat :
            /\ k = Cardinality(Asking(sending)) /\ k1 = Cardinality(Asking(sending'))
            /\ l = Len(Pipe["src"]) /\ a = rb.addr
      <4>1. rb.addr \in Nat
        BY <1>1 DEF TensorOK, Addrs, None
      <4>2. Len(Pipe["src"]) \in Nat
        BY <1>1, PipeLength, TwoNames
      <4> QED  BY <2>1, <4>1, <4>2
    <3>2. PICK c \in Nat, c1 \in Nat : c = Cardinality(Reached(f, n)) /\ c1 = Cardinality(Reached(f, f[s]))
      BY <2>8
    <3>3. a + k + l <= c /\ c + 1 <= c1 /\ k1 <= k + 1
      BY <1>1, <2>1, <2>4, <2>6, <2>7, <3>1, <3>2 DEF Growth
    <3>4. a + k1 + l <= c1
      BY <3>3
    <3>5. rb'.addr + Cardinality(Asking(sending')) + Len(Pipe'["src"]) = a + k1 + l
      BY <1>2, <1>6, <3>1
    <3>6. Cardinality(Reached(size', tb'.size)) = c1
      BY <1>6, <2>2, <2>6, <3>2
    <3> QED  BY <2>2, <3>4, <3>5, <3>6 DEF Growth
  <2> QED  BY <1>2, <2>3, <2>9 DEF IInv
<1>10. CASE /\ \/ tb' = tb
               \/ tb' = [tb EXCEPT !.local = "busy", !.remote = "busy"]
            /\ Move(t, "write") \/ Move(t, "putback")
  <2>1. sending' \in SUBSET Thread /\ IsFiniteSet(sending') /\ Asking(sending') = Asking(sending)
    BY <1>8, <1>10
  <2>2. /\ tb' \in [q : Seq(Steps), local : Status, remote : Status, size : Sizes \cup {None},
                    addr : Addrs \cup {None}]
        /\ tb'.size = tb.size /\ (tb'.local = tb.local \/ tb'.local # "none")
    BY <1>4, <1>10 DEF Status
  <2>3. TensorOK'
    BY <1>1, <1>6, <1>7, <2>1, <2>2 DEF TensorOK
  <2>4. Growth'
    BY <1>1, <1>2, <1>6, <2>1, <2>2, GrowthKept
  <2> QED  BY <1>2, <2>3, <2>4 DEF IInv
<1> QED  BY <1>9, <1>10 DEF DecideTransmission

LEMMA PutBackKeyKeeps ==
    ASSUME IInv, NEW t \in sending, PutBackKey(t)
    PROVE  IInv' /\ PipeStep
<1>1. ChannelOK /\ OneInFlight /\ TensorOK /\ Growth
  BY DEF IInv
<1>2. ChannelOK' /\ OneInFlight' /\ PipeStep /\ Pipe'["src"] = Pipe["src"]
  BY <1>1, ChannelAside DEF PutBackKey
<1>3. /\ sending \in SUBSET Thread /\ IsFiniteSet(sending) /\ t \in Thread /\ t.step \in Steps
      /\ t.at \in {"create", "putback"}
  BY <1>1 DEF TensorOK, Thread, PutBackKey
<1>4. /\ tb' \in [q : Seq(Steps), local : Status, remote : Status, size : Sizes \cup {None},
                  addr : Addrs \cup {None}]
      /\ tb'.size = tb.size /\ tb'.local = tb.local
  <2>1. tb \in [q : Seq(Steps), local : Status, remote : Status, size : Sizes \cup {None},
               addr : Addrs \cup {None}]
    BY <1>1 DEF TensorOK
  <2>2. Append(tb.q, t.step) \in Seq(Steps)
    BY <1>3, <2>1
  <2>3. tb' = [tb EXCEPT !.q = Append(tb.q, t.step)]
    BY DEF PutBackKey, EnqueueItem
  <2> QED  BY <2>1, <2>2, <2>3
<1>5. missed' \in BOOLEAN
  <2>1. missed \in BOOLEAN
    BY <1>1 DEF TensorOK
  <2>2. missed' = (missed \/ (t.at = "putback" /\ NobodyWakes))
    BY DEF PutBackKey
  <2> QED  BY <2>1, <2>2, Zenon
<1>6. /\ size' = size /\ requested' = requested /\ fatal' = fatal /\ tasks' = tasks
      /\ response' = response /\ rb' = rb /\ recvDone' = recvDone /\ callbacks' = callbacks
      /\ got' = got /\ raced' = raced /\ resized' = resized
  BY DEF PutBackKey, dstVars
<1>7. /\ sending' \in SUBSET Thread /\ IsFiniteSet(sending')
      /\ Cardinality(Asking(sending')) \in Nat /\ Cardinality(Asking(sending)) \in Nat
      /\ Cardinality(Asking(sending')) <= Cardinality(Asking(sending))
  <2>1. CASE t.at = "create"
    <3>0. [t EXCEPT !.at = "ask"] \in Thread
      BY <1>3 DEF Thread
    <3>1. PICK u \in Thread : u = [t EXCEPT !.at = "ask"]
      BY <3>0, Zenon
    <3>2. sending' = (sending \ {t}) \cup {u}
      BY <2>1, <3>1 DEF PutBackKey, Move
    <3>3. /\ IsFiniteSet((sending \ {t}) \cup {u})
          /\ Cardinality(Asking(sending)) \in Nat
          /\ Cardinality(Asking(sending \ {t})) \in Nat
          /\ Cardinality(Asking((sending \ {t}) \cup {u})) \in Nat
          /\ Cardinality(Asking(sending \ {t})) + 1 = Cardinality(Asking(sending))
          /\ Cardinality(Asking((sending \ {t}) \cup {u})) <= Cardinality(Asking(sending \ {t})) + 1
      BY <1>3, <2>1, AskingFacts
    <3> QED  BY <1>3, <3>2, <3>3
  <2>2. CASE t.at # "create"
    <3>1. sending' = sending \ {t}
      BY <2>2 DEF PutBackKey
    <3>2. /\ IsFiniteSet(sending \ {t}) /\ Cardinality(Asking(sending)) \in Nat
          /\ Asking(sending \ {t}) = Asking(sending)
      BY <1>3, <2>2, AskingFacts
    <3> QED  BY <1>3, <3>1, <3>2
  <2> QED  BY <2>1, <2>2
<1>8. TensorOK'
  BY <1>1, <1>4, <1>5, <1>6, <1>7 DEF TensorOK
<1>9. Growth'
  <2>1. PICK k \in Nat, k1 \in Nat, l \in Nat, a \in Nat :
            /\ k = Cardinality(Asking(sending)) /\ k1 = Cardinality(Asking(sending'))
            /\ l = Len(Pipe["src"]) /\ a = rb.addr
    <3>1. rb.addr \in Nat
      BY <1>1 DEF TensorOK, Addrs, None
    <3>2. Len(Pipe["src"]) \in Nat
      BY <1>1, PipeLength, TwoNames
    <3> QED  BY <1>7, <3>1, <3>2
  <2>2. PICK c \in Nat : c = Cardinality(Reached(size, tb.size))
    <3>1. size \in [Steps -> Nat \ {0}]
      BY <1>1, SizeFacts DEF TensorOK
    <3>2. PICK n : n = tb.size
      OBVIOUS
    <3>3. n \in Nat
      BY <1>1, <3>2, SizesAreNumbers DEF TensorOK, None
    <3>4. Cardinality(Reached(size, n)) \in Nat
      BY <3>1, <3>3, ReachedFacts
    <3> QED  BY <3>2, <3>4
  <2>3. a + k + l <= c /\ k1 <= k
    BY <1>1, <1>7, <2>1, <2>2 DEF Growth
  <2>4. a + k1 + l <= c
    BY <2>3
  <2>5. rb'.addr + Cardinality(Asking(sending')) + Len(Pipe'["src"]) = a + k1 + l
    BY <1>2, <1>6, <2>1
  <2>6. Cardinality(Reached(size', tb'.size)) = c
    BY <1>4, <1>6, <2>2
  <2> QED  BY <1>1, <1>4, <2>4, <2>5, <2>6 DEF Growth
<1> QED  BY <1>2, <1>8, <1>9 DEF IInv

LEMMA FinishBufferResponseKeeps ==
    ASSUME IInv, FinishBufferResponse
    PROVE  IInv' /\ PipeStep
<1>1. ChannelOK /\ OneInFlight /\ TensorOK /\ Growth
  BY DEF IInv
<1>2. ChannelOK' /\ OneInFlight' /\ PipeStep /\ Pipe'["src"] = Pipe["src"]
  BY <1>1, ChannelAside DEF FinishBufferResponse
<1>3. /\ tb' = [tb EXCEPT !.local = "idle"] \/ tb' = [tb EXCEPT !.remote = "idle"]
      /\ tasks' = tasks \/ tasks' = tasks + 1
      /\ response' = (response + 1) % 3
  BY DEF FinishBufferResponse
<1>4. response' \in 0..2
  BY <1>1, <1>3 DEF TensorOK
<1>5. /\ tb' \in [q : Seq(Steps), local : Status, remote : Status, size : Sizes \cup {None},
                  addr : Addrs \cup {None}]
      /\ tb'.size = tb.size /\ (tb'.local = tb.local \/ tb'.local # "none")
  BY <1>1, <1>3 DEF TensorOK, Status
<1>6. tasks' \in Nat
  BY <1>1, <1>3 DEF TensorOK
<1>7. TensorOK'
  BY <1>1, <1>4, <1>5, <1>6 DEF TensorOK, FinishBufferResponse, dstVars, history
<1>8. Growth'
  BY <1>1, <1>2, <1>5, GrowthKept DEF FinishBufferResponse, dstVars
<1> QED  BY <1>2, <1>7, <1>8 DEF IInv

LEMMA StutterKeeps ==
    ASSUME IInv, UNCHANGED vars
    PROVE  IInv' /\ PipeStep
<1>1. ChannelOK /\ OneInFlight /\ TensorOK /\ Growth
  BY DEF IInv
<1>2. ChannelOK' /\ OneInFlight' /\ PipeStep /\ Pipe'["src"] = Pipe["src"]
  BY <1>1, ChannelAside DEF vars
<1>3. TensorOK'
  BY <1>1 DEF TensorOK, vars, srcVars, dstVars, history
<1>4. Growth'
  BY <1>1, <1>2, GrowthKept DEF vars, srcVars, dstVars
<1> QED  BY <1>2, <1>3, <1>4 DEF IInv

LEMMA NextKeeps ==
    ASSUME IInv, [Next]_vars
    PROVE  IInv' /\ PipeStep
<1>1. ASSUME NEW e \in Ends, Deliver(e) PROVE IInv' /\ PipeStep
  BY <1>1, DeliverKeeps
<1>2. ASSUME NEW e \in Ends, SendNextItem(e) PROVE IInv' /\ PipeStep
  BY <1>2, SendNextItemKeeps
<1>3. ASSUME NEW e \in Ends, Process_CQ(e) PROVE IInv' /\ PipeStep
  BY <1>3, WriteCompletedKeeps, HandleAckKeeps, HandleTensorRequestKeeps, HandleBufferIdleKeeps,
     HandleBufferResponseKeeps, FinishBufferResponseKeeps, HandleBufferRequestKeeps,
     HandleTensorWriteKeeps DEF Process_CQ
<1>4. ASSUME NEW t \in sending, TransmitTensor(t) PROVE IInv' /\ PipeStep
  BY <1>4, DecideTransmissionKeeps, PutBackKeyKeeps, RequestBufferKeeps, WriteTensorKeeps
     DEF TransmitTensor
<1>5. CASE PopKey
  BY <1>5, PopKeyKeeps
<1>6. ASSUME NEW s \in Steps, RunRecvCallback(s) PROVE IInv' /\ PipeStep
  BY <1>6, RunRecvCallbackKeeps
<1>7. ASSUME NEW s \in Steps, RecvFromRemoteAsync(s) PROVE IInv' /\ PipeStep
  BY <1>7, RecvFromRemoteAsyncKeeps
<1>8. CASE UNCHANGED vars
  BY <1>8, StutterKeeps
<1> QED  BY <1>1, <1>2, <1>3, <1>4, <1>5, <1>6, <1>7, <1>8 DEF Next, Working

LEMMA InitKeeps ==
    ASSUME Init
    PROVE  IInv /\ Pipe = [e \in Ends |-> << >>]
<1>1. ChannelOK
  <2>1. [q |-> << >>, local |-> "idle", remote |-> "idle"] \in Buffer
    BY DEF Buffer
  <2> QED  BY <2>1 DEF Init, ChannelOK
<1>2. \A e \in Ends : wire[e] = << >> /\ arrived[e] = << >> /\ mb[e].q = << >>
  BY DEF Init
<1>3. /\ At(<< >>, "message") = {} /\ At(<< >>, "ack") = {}
      /\ Posted(<< >>, "message") = {} /\ Posted(<< >>, "ack") = {}
  BY DEF At, Posted
<1>4. OneInFlight
  <2> SUFFICES ASSUME NEW e \in Ends
               PROVE  Flow(wire[e], arrived[Peer(e)], wire[Peer(e)], arrived[e], mb[e].remote)
    BY DEF OneInFlight
  <2>1. wire[e] = << >> /\ arrived[Peer(e)] = << >> /\ wire[Peer(e)] = << >> /\ arrived[e] = << >>
    BY <1>2, TwoEnds
  <2>2. AtMostOne({})
    BY DEF AtMostOne
  <2>3. \A r : Flow(<< >>, << >>, << >>, << >>, r)
    BY <1>3, <2>2 DEF Flow
  <2> QED  BY <2>1, <2>3
<1>5. \A e \in Ends : Pipe[e] = << >>
  <2> SUFFICES ASSUME NEW e \in Ends PROVE Pipe[e] = << >>
    OBVIOUS
  <2>1. Pipe[e] = FlightOf(arrived[Peer(e)], rx[Peer(e)], wire[e], mb[e].q)
    BY <1>1, PipeIs
  <2>2. PICK a \in Completions, w \in Seq(Write), q \in Seq(Message) : a = << >> /\ w = << >> /\ q = << >>
    <3>1. << >> \in Completions /\ << >> \in Seq(Write) /\ << >> \in Seq(Message)
      BY DEF Completions
    <3> QED  BY <3>1, Zenon
  <2>3. Single(w, a) /\ At(a, "message") = {} /\ Posted(w, "message") = {}
    BY <1>3, <2>2 DEF Single, AtMostOne
  <2>4. \A r : FlightOf(a, r, w, q) = q
    BY <2>3, FlightQueued
  <2> QED  BY <1>2, <2>1, <2>2, <2>4, TwoEnds
<1>6. Pipe = [e \in Ends |-> << >>]
  BY <1>5 DEF Pipe
<1>7. IsFiniteSet({}) /\ Cardinality({}) = 0
  BY FS_EmptySet
<1>8. TensorOK
  <2>1. /\ size \in TensorSizes /\ requested \subseteq Steps /\ callbacks \subseteq Steps
        /\ recvDone \in [Steps -> Nat] /\ got \in [Steps -> Steps \cup {None}]
    BY DEF Init
  <2>2. /\ tb \in [q : Seq(Steps), local : Status, remote : Status, size : Sizes \cup {None},
                   addr : Addrs \cup {None}]
        /\ rb \in [addr : Addrs \cup {None}, size : Sizes \cup {None}, data : Steps \cup {None}]
    BY DEF Init, Status
  <2>3. /\ tasks \in Nat /\ response \in 0..2
        /\ sending \subseteq Thread /\ IsFiniteSet(sending)
    BY <1>7 DEF Init
  <2>4. fatal \in BOOLEAN /\ raced \in BOOLEAN /\ resized \in BOOLEAN /\ missed \in BOOLEAN
    BY DEF Init
  <2> QED  BY <2>1, <2>2, <2>3, <2>4 DEF TensorOK
<1>9. Growth
  <2>1. Asking(sending) = {}
    BY DEF Init, Asking
  <2>2. Len(Pipe["src"]) = 0
    BY <1>5, TwoNames
  <2>3. size \in [Steps -> Nat \ {0}]
    BY SizeFacts DEF Init
  <2>4. Cardinality(Reached(size, 0)) \in Nat
    BY <2>3, ReachedFacts
  <2>5. rb.addr = 0 /\ tb.size = 0
    BY DEF Init, None
  <2> QED  BY <1>7, <2>1, <2>2, <2>4, <2>5 DEF Growth, None
<1> QED  BY <1>1, <1>4, <1>6, <1>8, <1>9 DEF IInv

LEMMA Invariance == Spec => []IInv
<1>1. Init => IInv
  BY InitKeeps
<1>2. IInv /\ [Next]_vars => IInv'
  BY NextKeeps
<1> QED  BY <1>1, <1>2, PTL DEF Spec

\* Every queue, buffer and message in the channel has its type, and the destination has
\* an address for every buffer it is asked for: however the steps interleave, it creates
\* no more of them than there are steps.
THEOREM TypeCorrect == Spec => []TypeOK
<1>1. IInv => TypeOK
  <2> SUFFICES ASSUME IInv PROVE TypeOK
    OBVIOUS
  <2>1. ASSUME NEW e \in Ends
        PROVE  /\ mb[e].q \in Seq(Message) /\ mb[e].local \in Status /\ mb[e].remote \in Status
               /\ rx[e] \in Message \cup {NoMessage}
               /\ \A i \in DOMAIN arrived[e] : arrived[e][i] \in {"message", "ack", "tensor"}
               /\ \A i \in DOMAIN sent[e] : sent[e][i] \in {"message", "tensor"}
               /\ pool[e] \in Nat
    BY DEF IInv, ChannelOK, Buffer, Status
  <2>2. TensorOK
    BY DEF IInv
  <2> QED  BY <2>1, <2>2 DEF TensorOK, Thread, TypeOK
<1> QED  BY <1>1, Invariance, PTL

\* The message layer of the channel, RdmaMessageBuffer with the acks of Process_CQ, is a
\* pipe in each direction: what an endpoint enqueues its peer handles once, unchanged
\* and in the order of the enqueues, although all pass through one buffer.
THEOREM ChannelIsAPipe == Spec => ImplementsPipe
<1>1. Init => Abstract!Init
  BY InitKeeps DEF Abstract!Init
<1>2. IInv /\ [Next]_vars => [Abstract!Next]_Pipe
  BY NextKeeps DEF PipeStep, Abstract!Next
<1> QED  BY <1>1, <1>2, Invariance, PTL DEF Spec, ImplementsPipe, Abstract!Spec

-----------------------------------------------------------------------------
(* A step is handed its own tensor.  As long as the buffer is created once  *)
(* and no tensor overtakes the handling of BUFFER_RESPONSE, two things are  *)
(* in one place at a time: the right to use the destination's buffer, and   *)
(* the key of every step that waits.  Both are counted.                     *)

Count(s, S) == Cardinality({i \in 1..Len(s) : s[i] \in S})

OneIf(b) == IF b THEN 1 ELSE 0

TensorWrites == [to : {"tensor"}, step : Steps, size : Sizes, addr : Addrs \cup {None}]
WritesOf(s) == {x \in TensorWrites : x.step = s}
\* The writes that would fail at the buffer b of the destination.
Misfits(b) == {x \in TensorWrites : x.addr # b.addr \/ x.size > b.size}

OfType(type) == {m \in Message : m.type = type}
\* Requests for a buffer of another size than n, and answers about another one than at a.
Strays(n) == Message \ {BufferRequest(n)}
WrongResponses(n, a) == OfType("BUFFER_RESPONSE") \ {BufferResponse(n, a)}

\* Threads of the source that are about to write a tensor, and those with the key of s.
Writing(S) == S \cap [step : Steps, at : {"write"}]
Holders(S, s) == S \cap [step : {s}, at : {"recv", "create", "write", "putback"}]

\* The steps whose callback is scheduled.
Received(f) == {s \in Steps : f[s] > 0}

Writers    == Cardinality(Writing(sending))
OnWire     == Count(wire["src"], TensorWrites)
Arrived    == Count(arrived["dst"], {"tensor"})
Scheduled  == Cardinality(Received(recvDone))
Idles      == Count(Pipe["dst"], OfType("BUFFER_IDLE"))
Askers     == Cardinality(Asking(sending))
Asked      == Len(Pipe["src"])
Responses  == Count(Pipe["dst"], OfType("BUFFER_RESPONSE"))

\* The destination's buffer is used by a tensor on its way to it, by the callback that
\* reads it and by the message that gives it back; before that it is created.
InUse    == Writers + OnWire + Arrived + Scheduled + Idles
Creating == Askers + Asked + Responses

RemoteToken == InUse + Creating + OneIf(tb.remote = "idle") <= OneIf(tb.local # "none")

\* The places where the key of step s may be.
Requests(s)  == Count(Pipe["dst"], {TensorRequest(s)})
Queued(s)    == Count(tb.q, {s})
HeldBy(s)    == Cardinality(Holders(sending, s))
OnWireOf(s)  == Count(wire["src"], WritesOf(s))
InBuffer(s)  == OneIf(Arrived > 0 /\ rb.data = s)

Keys(s) == Requests(s) + Queued(s) + HeldBy(s) + OnWireOf(s) + InBuffer(s) + recvDone[s]

KeyToken == \A s \in Steps : Keys(s) <= OneIf(s \in callbacks)

\* What the source takes the destination's buffer for.
Remote ==
    /\ tb.local = "none" => tb.remote = "none"
    /\ Creating > 0 => tb.remote = "none"
    /\ InUse > 0 => tb.remote # "none"
    /\ tb.remote # "none" => tb.addr = rb.addr /\ tb.size = rb.size
    /\ response > 0 => tb.remote = "idle"

\* The tensors on their way fit into the buffer.
Fitting ==
    /\ \A t \in sending : /\ t.at = "write" => size[t.step] <= tb.size
                          /\ t.at \in {"create", "ask"} => size[t.step] = tb.size
    /\ Count(wire["src"], Misfits(rb)) = 0 /\ Count(wire["dst"], TensorWrites) = 0

\* The buffer that is asked for is the one that is created.
Agreed ==
    /\ Count(Pipe["src"], Strays(tb.size)) = 0
    /\ Count(Pipe["dst"], WrongResponses(tb.size, rb.addr)) = 0
    /\ Responses > 0 => rb.size = tb.size

\* What the buffer holds until its callback has run.
Holding ==
    /\ Arrived > 0 => rb.data \in Steps
    /\ \A s \in Steps : recvDone[s] > 0 => rb.data = s

Unharmed ==
    /\ ~fatal /\ callbacks \subseteq requested
    /\ \A s \in Steps : got[s] \in {s, None}

Own == RemoteToken /\ KeyToken /\ Remote /\ Fitting /\ Agreed /\ Holding /\ Unharmed

OwnInv == ~raced /\ ~resized => Own

-----------------------------------------------------------------------------
(* Counting.                                                               *)

LEMMA CountType ==
    ASSUME NEW T, NEW s \in Seq(T), NEW S
    PROVE  /\ IsFiniteSet({i \in 1..Len(s) : s[i] \in S})
           /\ Count(s, S) \in Nat /\ Count(s, S) <= Len(s)
<1> DEFINE A == {i \in 1..Len(s) : s[i] \in S}
<1>1. Len(s) \in Nat
  OBVIOUS
<1>2. IsFiniteSet(1..Len(s)) /\ Cardinality(1..Len(s)) = Len(s)
  BY <1>1, FS_Interval
<1>3. A \in SUBSET (1..Len(s))
  OBVIOUS
<1> HIDE DEF A
<1>4. IsFiniteSet(A) /\ Cardinality(A) <= Len(s)
  BY <1>2, <1>3, FS_Subset
<1>5. Cardinality(A) \in Nat
  BY <1>4, FS_CardinalityType
<1> QED  BY <1>4, <1>5 DEF Count, A

LEMMA CountFewer ==
    ASSUME NEW T, NEW s \in Seq(T), NEW S, NEW R, R \subseteq S
    PROVE  Count(s, R) <= Count(s, S)
<1> DEFINE A == {i \in 1..Len(s) : s[i] \in S}
           B == {i \in 1..Len(s) : s[i] \in R}
<1>1. B \in SUBSET A
  OBVIOUS
<1>2. IsFiniteSet(A)
  BY CountType
<1> HIDE DEF A, B
<1>3. Cardinality(B) <= Cardinality(A)
  BY <1>1, <1>2, FS_Subset
<1> QED  BY <1>3 DEF Count, A, B

LEMMA CountNone ==
    ASSUME NEW S
    PROVE  Count(<< >>, S) = 0
<1>1. {i \in 1..Len(<< >>) : << >>[i] \in S} = {}
  OBVIOUS
<1> QED  BY <1>1, FS_EmptySet DEF Count

LEMMA CountAppend ==
    ASSUME NEW T, NEW s \in Seq(T), NEW y \in T, NEW S
    PROVE  Count(Append(s, y), S) = Count(s, S) + OneIf(y \in S)
<1> PICK t, n : t = Append(s, y) /\ n = Len(s) + 1
  OBVIOUS
<1> DEFINE A == {i \in 1..Len(s) : s[i] \in S}
           B == {i \in 1..Len(t) : t[i] \in S}
<1>1. /\ n \in Nat /\ Len(t) = n /\ t[n] = y
      /\ \A i \in 1..Len(s) : t[i] = s[i] /\ i \in 1..n
      /\ \A i \in 1..n : i \in 1..Len(s) \/ i = n
      /\ n \notin 1..Len(s)
  OBVIOUS
<1>2. IsFiniteSet(A) /\ Cardinality(A) \in Nat
  BY CountType DEF Count
<1>3. CASE y \in S
  <2>1. B = A \cup {n} /\ n \notin A
    BY <1>1, <1>3
  <2> HIDE DEF A, B
  <2>2. Cardinality(A \cup {n}) = Cardinality(A) + 1
    BY <1>2, <2>1, FS_AddElement
  <2> QED  BY <1>3, <2>1, <2>2 DEF Count, A, B, OneIf
<1>4. CASE y \notin S
  <2>1. B = A
    BY <1>1, <1>4
  <2> HIDE DEF A, B
  <2>2. Cardinality(B) = Cardinality(A) + 0
    BY <1>2, <2>1
  <2> QED  BY <1>4, <2>2 DEF Count, A, B, OneIf
<1> QED  BY <1>3, <1>4

LEMMA CountCons ==
    ASSUME NEW T, NEW s \in Seq(T), NEW x \in T, NEW S
    PROVE  Count(<<x>> \o s, S) = OneIf(x \in S) + Count(s, S)
<1> PICK t, n : t = <<x>> \o s /\ n = Len(s)
  OBVIOUS
<1> DEFINE A == {i \in 1..Len(s) : s[i] \in S}
           B == {i \in 1..Len(t) : t[i] \in S}
           C == {i \in B : i # 1}
           f == [i \in A |-> i + 1]
<1>1. /\ n \in Nat /\ Len(t) = n + 1 /\ t[1] = x
      /\ \A i \in 1..n : t[i + 1] = s[i] /\ i + 1 \in 1..(n + 1) /\ i + 1 # 1
      /\ \A i \in 1..(n + 1) : i = 1 \/ (i - 1 \in 1..n /\ (i - 1) + 1 = i)
  <2>1. <<x>> \in Seq(T) /\ Len(<<x>>) = 1 /\ <<x>>[1] = x
    OBVIOUS
  <2>2. n \in Nat
    BY LenProperties
  <2>3. Len(t) = n + 1 /\ t[1] = x /\ \A i \in 1..n : t[i + 1] = s[i]
    BY <2>1, <2>2, ConcatProperties
  <2> QED  BY <2>2, <2>3
<1>2. IsFiniteSet(A) /\ Cardinality(A) \in Nat /\ Count(s, S) = Cardinality(A)
  BY CountType DEF Count
<1>3. \A i \in A : i + 1 \in C /\ i \in Int
  BY <1>1
<1>4. \A k \in C : k - 1 \in A /\ (k - 1) + 1 = k
  BY <1>1
<1>5. x \in S <=> 1 \in B
  BY <1>1
<1>6. Count(t, S) = Cardinality(B)
  BY DEF Count
<1> HIDE DEF A, B
<1>7. f \in Bijection(A, C)
  <2>1. f \in [A -> C]
    BY <1>3
  <2>2. \A i, j \in A : f[i] = f[j] => i = j
    BY <1>3
  <2>3. \A k \in C : \E i \in A : f[i] = k
    BY <1>4
  <2> HIDE DEF f, C
  <2> QED  BY <2>1, <2>2, <2>3 DEF Bijection, Injection, Surjection, IsInjective
<1>8. IsFiniteSet(C) /\ Cardinality(C) = Cardinality(A)
  <2>1. ExistsBijection(A, C)
    BY <1>7 DEF ExistsBijection
  <2> HIDE DEF C
  <2> QED  BY <1>2, <2>1, FS_Bijection
<1>9. /\ x \in S => B = C \cup {1} /\ 1 \notin C
      /\ x \notin S => B = C
  BY <1>5
<1> HIDE DEF C
<1>10. Cardinality(B) = OneIf(x \in S) + Cardinality(A)
  <2>1. CASE x \in S
    <3>1. Cardinality(C \cup {1}) = Cardinality(C) + 1
      BY <1>8, <1>9, <2>1, FS_AddElement
    <3>2. OneIf(x \in S) = 1
      BY <2>1 DEF OneIf
    <3>3. Cardinality(B) = Cardinality(A) + 1
      BY <1>8, <1>9, <2>1, <3>1
    <3> QED  BY <1>2, <3>2, <3>3
  <2>2. CASE x \notin S
    BY <1>2, <1>8, <1>9, <2>2 DEF OneIf
  <2> QED  BY <2>1, <2>2
<1> QED  BY <1>2, <1>6, <1>10

LEMMA CountTail ==
    ASSUME NEW T, NEW s \in Seq(T), s # << >>, NEW S
    PROVE  Count(s, S) = OneIf(Head(s) \in S) + Count(Tail(s), S)
<1>1. Head(s) \in T /\ Tail(s) \in Seq(T) /\ s = <<Head(s)>> \o Tail(s)
  OBVIOUS
<1>2. PICK x \in T, t \in Seq(T) : x = Head(s) /\ t = Tail(s)
  BY <1>1
<1>3. Count(<<x>> \o t, S) = OneIf(x \in S) + Count(t, S)
  BY CountCons
<1> QED  BY <1>1, <1>2, <1>3

\* A thread of a finite set moves on: how many are in P.
LEMMA PartFacts ==
    ASSUME NEW S, IsFiniteSet(S), NEW P, NEW t, NEW u
    PROVE  /\ IsFiniteSet(S \cap P) /\ Cardinality(S \cap P) \in Nat
           /\ Cardinality((S \cup {u}) \cap P) \in Nat
           /\ Cardinality((S \cup {u}) \cap P) <= Cardinality(S \cap P) + OneIf(u \in P)
           /\ t \in S => /\ Cardinality((S \ {t}) \cap P) \in Nat
                         /\ Cardinality((S \ {t}) \cap P) = Cardinality(S \cap P) - OneIf(t \in P)
<1> PICK A : A = S \cap P
  OBVIOUS
<1>1. IsFiniteSet(A) /\ Cardinality(A) \in Nat
  <2>1. A \in SUBSET S
    OBVIOUS
  <2>2. IsFiniteSet(A)
    BY <2>1, FS_Subset
  <2> QED  BY <2>2, FS_CardinalityType
<1>2. /\ Cardinality((S \cup {u}) \cap P) \in Nat
      /\ Cardinality((S \cup {u}) \cap P) <= Cardinality(A) + OneIf(u \in P)
  <2>1. CASE u \in P
    <3>1. (S \cup {u}) \cap P = A \cup {u}
      BY <2>1
    <3>2. Cardinality(A \cup {u}) = IF u \in A THEN Cardinality(A) ELSE Cardinality(A) + 1
      BY <1>1, FS_AddElement
    <3> QED  BY <1>1, <2>1, <3>1, <3>2 DEF OneIf
  <2>2. CASE u \notin P
    <3>1. (S \cup {u}) \cap P = A
      BY <2>2
    <3>2. OneIf(u \in P) = 0
      BY <2>2 DEF OneIf
    <3>3. Cardinality(A) \in Nat /\ Cardinality(A) <= Cardinality(A) + 0
      BY <1>1
    <3> QED  BY <3>1, <3>2, <3>3, Zenon
  <2> QED  BY <2>1, <2>2
<1>3. ASSUME t \in S
      PROVE  /\ Cardinality((S \ {t}) \cap P) \in Nat
             /\ Cardinality((S \ {t}) \cap P) = Cardinality(A) - OneIf(t \in P)
  <2>1. CASE t \in P
    <3>1. (S \ {t}) \cap P = A \ {t} /\ t \in A
      BY <1>3, <2>1
    <3>2. Cardinality(A \ {t}) = Cardinality(A) - 1 /\ IsFiniteSet(A \ {t})
      BY <1>1, <3>1, FS_RemoveElement
    <3>3. Cardinality(A \ {t}) \in Nat
      BY <3>2, FS_CardinalityType
    <3> QED  BY <1>1, <2>1, <3>1, <3>2, <3>3 DEF OneIf
  <2>2. CASE t \notin P
    <3>1. (S \ {t}) \cap P = A
      BY <2>2
    <3> QED  BY <1>1, <2>2, <3>1 DEF OneIf
  <2> QED  BY <2>1, <2>2
<1> QED  BY <1>1, <1>2, <1>3

\* The counters are numbers.
Numbers ==
    /\ Writers \in Nat /\ OnWire \in Nat /\ Arrived \in Nat /\ Scheduled \in Nat /\ Idles \in Nat
    /\ Askers \in Nat /\ Asked \in Nat /\ Responses \in Nat
    /\ InUse \in Nat /\ Creating \in Nat
    /\ \A s \in Steps : /\ Requests(s) \in Nat /\ Queued(s) \in Nat /\ HeldBy(s) \in Nat
                        /\ OnWireOf(s) \in Nat /\ InBuffer(s) \in Nat /\ recvDone[s] \in Nat
                        /\ Keys(s) \in Nat
    /\ IsFiniteSet(Received(recvDone)) /\ sending \in SUBSET Thread /\ IsFiniteSet(sending)
    /\ Pipe["src"] \in Seq(Message \cup {NoMessage}) /\ Pipe["dst"] \in Seq(Message \cup {NoMessage})
    /\ wire["src"] \in Seq(Write) /\ wire["dst"] \in Seq(Write) /\ arrived["dst"] \in Completions
    /\ tb.q \in Seq(Steps) /\ recvDone \in [Steps -> Nat]

LEMMA NumbersNow == IInv => Numbers
<1> SUFFICES ASSUME IInv PROVE Numbers
  OBVIOUS
<1>1. ChannelOK /\ OneInFlight /\ TensorOK
  BY DEF IInv
<1>2. /\ Pipe["src"] \in Seq(Message \cup {NoMessage}) /\ Asked \in Nat
      /\ Pipe["dst"] \in Seq(Message \cup {NoMessage})
  BY <1>1, PipeLength, TwoNames DEF Asked
<1>3. wire["src"] \in Seq(Write) /\ wire["dst"] \in Seq(Write) /\ arrived["dst"] \in Completions
  BY <1>1, TwoNames DEF ChannelOK, Completions
<1>4. tb.q \in Seq(Steps) /\ recvDone \in [Steps -> Nat] /\ sending \in SUBSET Thread /\ IsFiniteSet(sending)
  BY <1>1 DEF TensorOK
<1>5. OnWire \in Nat /\ Arrived \in Nat /\ Idles \in Nat /\ Responses \in Nat
  BY <1>2, <1>3, CountType DEF OnWire, Arrived, Idles, Responses, Completions
<1>6. Writers \in Nat
  BY <1>4, PartFacts DEF Writers, Writing
<1>7. Askers \in Nat
  <2>1. Asking(sending) \in SUBSET sending
    BY DEF Asking
  <2>2. IsFiniteSet(Asking(sending))
    BY <1>4, <2>1, FS_Subset
  <2> QED  BY <2>2, FS_CardinalityType DEF Askers
<1>8. IsFiniteSet(Received(recvDone)) /\ Scheduled \in Nat
  <2>1. Received(recvDone) \in SUBSET Steps
    BY DEF Received
  <2>2. IsFiniteSet(Received(recvDone))
    BY <2>1, FS_Subset, StepsAssumption
  <2> QED  BY <2>2, FS_CardinalityType DEF Scheduled
<1>9. ASSUME NEW s \in Steps
      PROVE  /\ Requests(s) \in Nat /\ Queued(s) \in Nat /\ HeldBy(s) \in Nat
             /\ OnWireOf(s) \in Nat /\ InBuffer(s) \in Nat /\ recvDone[s] \in Nat
             /\ Keys(s) \in Nat
  <2>1. Requests(s) \in Nat /\ Queued(s) \in Nat /\ OnWireOf(s) \in Nat
    BY <1>2, <1>3, <1>4, CountType DEF Requests, Queued, OnWireOf
  <2>2. HeldBy(s) \in Nat
    BY <1>4, PartFacts DEF HeldBy, Holders
  <2>3. InBuffer(s) \in Nat
    BY DEF InBuffer, OneIf
  <2>4. recvDone[s] \in Nat
    BY <1>4
  <2>5. Keys(s) \in Nat
    BY <2>1, <2>2, <2>3, <2>4 DEF Keys
  <2> QED  BY <2>1, <2>2, <2>3, <2>4, <2>5
<1>10. InUse \in Nat /\ Creating \in Nat
  BY <1>2, <1>5, <1>6, <1>7, <1>8 DEF InUse, Creating
<1> QED  BY <1>2, <1>3, <1>4, <1>5, <1>6, <1>7, <1>8, <1>9, <1>10 DEF Numbers

LEMMA NumbersNext == (IInv => Numbers)'
  BY NumbersNow, PTL

-----------------------------------------------------------------------------
(* The message layer posts no tensors.                                     *)

SameTensors == \A e \in Ends : \A S \in SUBSET TensorWrites : Count(wire'[e], S) = Count(wire[e], S)

LEMMA NoTensor ==
    ASSUME NEW w \in Seq(Write), NEW x \in Write, x.to # "tensor", NEW S \in SUBSET TensorWrites
    PROVE  Append(w, x) \in Seq(Write) /\ Count(Append(w, x), S) = Count(w, S)
<1>1. x \notin S
  BY DEF TensorWrites
<1>2. OneIf(x \in S) = 0
  BY <1>1 DEF OneIf
<1>3. Count(Append(w, x), S) = Count(w, S) + OneIf(x \in S)
  BY CountAppend
<1>4. Count(w, S) \in Nat
  BY CountType
<1> QED  BY <1>2, <1>3, <1>4

LEMMA SendsNoTensor ==
    ASSUME NEW w \in Seq(Write), NEW buf \in Buffer, NEW bb, NEW ww, Sends(buf, w, bb, ww),
           NEW S \in SUBSET TensorWrites
    PROVE  Count(ww, S) = Count(w, S)
<1>1. CASE ~CanSend(buf)
  BY <1>1 DEF Sends, SendNextMessage
<1>2. CASE CanSend(buf)
  <2>1. Head(buf.q) \in Message
    BY <1>2 DEF CanSend, Buffer
  <2>2. MessageWrite(Head(buf.q)) \in Write /\ MessageWrite(Head(buf.q)).to = "message"
    BY <2>1 DEF MessageWrite, Write
  <2>3. PICK x \in Write : x = MessageWrite(Head(buf.q)) /\ x.to = "message"
    BY <2>2, Zenon
  <2>4. ww = Append(w, x)
    BY <1>2, <2>3 DEF Sends, SendNextMessage
  <2> QED  BY <2>3, <2>4, NoTensor
<1> QED  BY <1>1, <1>2

LEMMA TransmitNoTensor ==
    ASSUME ChannelOK, NEW e \in Ends, NEW m \in Message,
           \/ Transmit(e, <<m>>, << >>)
           \/ Transmit(e, << >>, << >>)
           \/ Transmit(e, <<m>>, <<AckWrite>>)
    PROVE  SameTensors
<1>1. wire \in [Ends -> Seq(Write)]
  BY DEF ChannelOK
<1>2. ASSUME NEW ms \in Seq(Message), NEW acks \in Seq(Write), Transmit(e, ms, acks),
             acks = << >> \/ acks = <<AckWrite>>
      PROVE  SameTensors
  <2> SUFFICES ASSUME NEW d \in Ends, NEW S \in SUBSET TensorWrites
               PROVE  Count(wire'[d], S) = Count(wire[d], S)
    BY DEF SameTensors
  <2>1. PICK buf \in Buffer, w \in Seq(Write) : Transmits(e, ms, acks, buf, w)
    BY <1>2, TransmitFacts
  <2>2. PICK bb, ww : Sends(buf, w, bb, ww) /\ wire' = [wire EXCEPT ![e] = ww] /\ w = wire[e] \o acks
    BY <2>1 DEF Transmits
  <2>3. Count(ww, S) = Count(w, S)
    <3>1. Sends(buf, w, bb, ww)
      BY <2>2
    <3> QED  BY <3>1, SendsNoTensor
  <2>4. Count(w, S) = Count(wire[e], S)
    <3>1. PICK v \in Seq(Write) : v = wire[e]
      BY <1>1
    <3>2. CASE acks = << >>
      BY <2>2, <3>1, <3>2
    <3>3. CASE acks = <<AckWrite>>
      <4>1. PICK x \in Write : x = AckWrite /\ x.to = "ack"
        BY AckIsWrite, Zenon
      <4>2. w = Append(v, x)
        BY <2>2, <3>1, <3>3, <4>1
      <4>3. Count(Append(v, x), S) = Count(v, S)
        BY <4>1, NoTensor
      <4> QED  BY <3>1, <4>2, <4>3
    <3> QED  BY <1>2, <3>2, <3>3
  <2>5. wire'[d] = IF d = e THEN ww ELSE wire[d]
    BY <1>1, <2>2
  <2> QED  BY <2>3, <2>4, <2>5
<1>3. /\ <<m>> \in Seq(Message) /\ << >> \in Seq(Message)
      /\ << >> \in Seq(Write) /\ <<AckWrite>> \in Seq(Write)
  BY AckIsWrite
<1> QED  BY <1>2, <1>3

LEMMA SendAckNoTensor ==
    ASSUME ChannelOK, NEW e \in Ends, SendAck(e)
    PROVE  SameTensors
<1> SUFFICES ASSUME NEW d \in Ends, NEW S \in SUBSET TensorWrites
             PROVE  Count(wire'[d], S) = Count(wire[d], S)
  BY DEF SameTensors
<1>1. wire \in [Ends -> Seq(Write)]
  BY DEF ChannelOK
<1>2. PICK x \in Write : x = AckWrite /\ x.to = "ack"
  BY AckIsWrite, Zenon
<1>3. PICK v \in Seq(Write) : v = wire[e]
  BY <1>1
<1>4. Count(Append(v, x), S) = Count(v, S)
  BY <1>2, NoTensor
<1>5. wire'[d] = IF d = e THEN Append(v, x) ELSE wire[d]
  BY <1>1, <1>2, <1>3 DEF SendAck
<1> QED  BY <1>3, <1>4, <1>5

LEMMA HandleAckNoTensor ==
    ASSUME ChannelOK, NEW e \in Ends, HandleAck(e)
    PROVE  SameTensors
<1> SUFFICES ASSUME NEW d \in Ends, NEW S \in SUBSET TensorWrites
             PROVE  Count(wire'[d], S) = Count(wire[d], S)
  BY DEF SameTensors
<1>1. wire \in [Ends -> Seq(Write)]
  BY DEF ChannelOK
<1>2. PICK buf : buf = [mb[e] EXCEPT !.remote = "idle"]
  OBVIOUS
<1>3. buf \in Buffer
  BY <1>2 DEF ChannelOK, Buffer
<1>4. PICK bb, ww : bb = SendNextMessage(buf, wire[e]).buf /\ ww = SendNextMessage(buf, wire[e]).wire
  OBVIOUS
<1>5. wire' = [wire EXCEPT ![e] = ww]
  BY <1>2, <1>4, Zenon DEF HandleAck
<1>6. PICK w \in Seq(Write) : w = wire[e]
  BY <1>1
<1>7. Sends(buf, w, bb, ww)
  BY <1>4, <1>6 DEF Sends
<1>8. Count(ww, S) = Count(w, S)
  BY <1>3, <1>7, SendsNoTensor
<1>9. wire'[d] = IF d = e THEN ww ELSE wire[d]
  BY <1>1, <1>5
<1> QED  BY <1>6, <1>8, <1>9

-----------------------------------------------------------------------------
(* What a step does to the counters.                                       *)

\* The writes of tensors are the same.
WritesKept ==
    /\ OnWire' = OnWire /\ \A s \in Steps : OnWireOf(s)' = OnWireOf(s)
    /\ \A b : Count(wire'["src"], Misfits(b)) = Count(wire["src"], Misfits(b))
    /\ Count(wire'["dst"], TensorWrites) = Count(wire["dst"], TensorWrites)

LEMMA WritesAreKept ==
    ASSUME SameTensors \/ wire' = wire
    PROVE  WritesKept
<1>1. CASE wire' = wire
  BY <1>1 DEF WritesKept, OnWire, OnWireOf
<1>2. CASE SameTensors
  <2>1. ASSUME NEW S \in SUBSET TensorWrites
        PROVE  /\ Count(wire'["src"], S) = Count(wire["src"], S)
               /\ Count(wire'["dst"], S) = Count(wire["dst"], S)
    BY <1>2, TwoNames DEF SameTensors
  <2>2. /\ TensorWrites \in SUBSET TensorWrites
        /\ \A s : WritesOf(s) \in SUBSET TensorWrites
        /\ \A b : Misfits(b) \in SUBSET TensorWrites
    BY DEF WritesOf, Misfits
  <2> QED  BY <2>1, <2>2 DEF WritesKept, OnWire, OnWireOf
<1> QED  BY <1>1, <1>2

\* The messages of a direction are the same.
AnswersKept ==
    /\ Idles' = Idles /\ Responses' = Responses /\ \A s \in Steps : Requests(s)' = Requests(s)
    /\ \A n, a : Count(Pipe'["dst"], WrongResponses(n, a)) = Count(Pipe["dst"], WrongResponses(n, a))

AskedKept ==
    /\ Asked' = Asked
    /\ \A n : Count(Pipe'["src"], Strays(n)) = Count(Pipe["src"], Strays(n))

LEMMA MessagesKept ==
    /\ Pipe'["dst"] = Pipe["dst"] => AnswersKept
    /\ Pipe'["src"] = Pipe["src"] => AskedKept
  BY DEF AnswersKept, AskedKept, Idles, Responses, Requests, Asked

\* The threads of the source are the same.
ThreadsKept == Writers' = Writers /\ Askers' = Askers /\ \A s \in Steps : HeldBy(s)' = HeldBy(s)

LEMMA SendingKept == sending' = sending => ThreadsKept
  BY DEF ThreadsKept, Writers, Askers, HeldBy

\* The completions of tensors and their callbacks are the same.
BufferKept ==
    /\ Arrived' = Arrived /\ Scheduled' = Scheduled /\ recvDone' = recvDone
    /\ \A s \in Steps : InBuffer(s)' = InBuffer(s)

LEMMA TensorsKept ==
    ASSUME Arrived' = Arrived, recvDone' = recvDone, rb'.data = rb.data
    PROVE  BufferKept
  BY DEF BufferKept, Scheduled, InBuffer

LEMMA RemoteKept ==
    ASSUME RemoteToken, Remote, Numbers, Numbers', InUse' <= InUse, Creating' <= Creating,
           tb'.remote = tb.remote, tb'.local = tb.local \/ tb'.local = "idle",
           tb'.addr = tb.addr, tb'.size = tb.size,
           (rb'.addr = rb.addr /\ rb'.size = rb.size) \/ tb.remote = "none",
           response' > 0 => response > 0
    PROVE  RemoteToken' /\ Remote'
<1>1. InUse \in Nat /\ InUse' \in Nat /\ Creating \in Nat /\ Creating' \in Nat
  BY DEF Numbers
<1>2. RemoteToken'
  <2>1. PICK x \in 0..1, y \in 0..1, z \in 0..1 :
          /\ x = OneIf(tb.remote = "idle") /\ y = OneIf(tb.local # "none") /\ z = OneIf(tb'.local # "none")
    BY DEF OneIf
  <2>2. OneIf(tb'.remote = "idle") = x
    BY <2>1
  <2>3. y <= z
    BY <2>1 DEF OneIf
  <2>4. PICK i \in Nat, j \in Nat, k \in Nat, l \in Nat :
          i = InUse /\ j = InUse' /\ k = Creating /\ l = Creating'
    BY <1>1
  <2>5. i + k + x <= y /\ j <= i /\ l <= k
    BY <2>1, <2>4 DEF RemoteToken
  <2>6. j + l + x <= z
    BY <2>3, <2>5
  <2> QED  BY <2>1, <2>2, <2>4, <2>6 DEF RemoteToken
<1>3. Remote'
  BY <1>1 DEF Remote
<1> QED  BY <1>2, <1>3

LEMMA KeysKept ==
    ASSUME KeyToken, Numbers, Numbers', callbacks \subseteq callbacks',
           \A s \in Steps : Keys(s)' <= Keys(s)
    PROVE  KeyToken'
<1> SUFFICES ASSUME NEW s \in Steps PROVE Keys(s)' <= OneIf(s \in callbacks')
  BY DEF KeyToken
<1>1. Keys(s) \in Nat /\ Keys(s)' \in Nat
  BY DEF Numbers
<1>2. Keys(s) <= OneIf(s \in callbacks) /\ Keys(s)' <= Keys(s)
  BY DEF KeyToken
<1> QED  BY <1>1, <1>2 DEF OneIf

LEMMA FittingKept ==
    ASSUME Fitting, WritesKept, size' = size, tb'.size = tb.size, rb'.addr = rb.addr, rb'.size = rb.size,
           \A t \in sending' \ sending : /\ t.at = "write" => size[t.step] <= tb.size
                                         /\ t.at \in {"create", "ask"} => size[t.step] = tb.size
    PROVE  Fitting'
<1>1. Misfits(rb') = Misfits(rb)
  BY DEF Misfits
<1>2. Count(wire'["src"], Misfits(rb')) = 0 /\ Count(wire'["dst"], TensorWrites) = 0
  BY <1>1 DEF Fitting, WritesKept
<1>3. \A t \in sending' : /\ t.at = "write" => size'[t.step] <= tb'.size
                          /\ t.at \in {"create", "ask"} => size'[t.step] = tb'.size
  BY DEF Fitting
<1> QED  BY <1>2, <1>3 DEF Fitting

LEMMA AgreedKept ==
    ASSUME Agreed, AnswersKept, AskedKept, tb'.size = tb.size, rb'.addr = rb.addr, rb'.size = rb.size
    PROVE  Agreed'
  BY DEF Agreed, AnswersKept, AskedKept

LEMMA HoldingKept ==
    ASSUME Holding, BufferKept, rb'.data = rb.data
    PROVE  Holding'
  BY DEF Holding, BufferKept

LEMMA UnharmedKept ==
    ASSUME Unharmed, fatal' = fatal, callbacks' = callbacks, requested' = requested, got' = got
    PROVE  Unharmed'
  BY DEF Unharmed

LEMMA SumsKept ==
    ASSUME ThreadsKept, WritesKept, AnswersKept, BufferKept
    PROVE  /\ InUse' = InUse
           /\ tb'.q = tb.q => \A s \in Steps : Keys(s)' = Keys(s)
  BY DEF InUse, Keys, Queued, ThreadsKept, WritesKept, AnswersKept, BufferKept

\* Steps of the message layer leave everything in its place.
LEMMA QuietKeeps ==
    ASSUME Own, IInv, IInv', WritesKept, Pipe' = Pipe \/ (Pipe'["src"] = Pipe["src"] /\ Pipe'["dst"] = Pipe["dst"]),
           Arrived' = Arrived,
           UNCHANGED <<size, sending, response, rb, recvDone, callbacks, got, requested, fatal>>,
           tb' = tb \/ tb' = [tb EXCEPT !.local = "idle"]
    PROVE  Own'
<1>1. Numbers /\ Numbers'
  BY NumbersNow, NumbersNext
<1>2. AnswersKept /\ AskedKept /\ ThreadsKept /\ BufferKept
  BY MessagesKept, SendingKept, TensorsKept
<1>3. /\ tb'.remote = tb.remote /\ (tb'.local = tb.local \/ tb'.local = "idle")
      /\ tb'.addr = tb.addr /\ tb'.size = tb.size /\ tb'.q = tb.q
  BY DEF IInv, TensorOK
<1>4. RemoteToken /\ KeyToken /\ Remote /\ Fitting /\ Agreed /\ Holding /\ Unharmed
  BY DEF Own
<1>5. InUse' = InUse /\ Creating' = Creating /\ \A s \in Steps : Keys(s)' = Keys(s)
  BY <1>2, <1>3, SumsKept DEF Creating, ThreadsKept, AskedKept, AnswersKept
<1>6. RemoteToken' /\ Remote'
  <2>1. InUse \in Nat /\ Creating \in Nat
    BY <1>1 DEF Numbers
  <2> QED  BY <1>1, <1>3, <1>4, <1>5, <2>1, RemoteKept
<1>7. KeyToken'
  <2>1. \A s \in Steps : Keys(s) \in Nat
    BY <1>1 DEF Numbers
  <2> QED  BY <1>1, <1>4, <1>5, <2>1, KeysKept
<1>8. Fitting'
  BY <1>3, <1>4, FittingKept
<1>9. Agreed' /\ Holding' /\ Unharmed'
  BY <1>2, <1>3, <1>4, AgreedKept, HoldingKept, UnharmedKept
<1> QED  BY <1>6, <1>7, <1>8, <1>9 DEF Own

LEMMA SendNextItemOwn ==
    ASSUME Own, IInv, IInv', NEW e \in Ends, SendNextItem(e)
    PROVE  Own'
<1>1. ChannelOK /\ OneInFlight
  BY DEF IInv
<1>2. Pipe'["src"] = Pipe["src"] /\ Pipe'["dst"] = Pipe["dst"]
  BY <1>1, SendNextItemStep, TwoNames
<1>3. PICK m \in Message : TRUE
  BY MessagesAre
<1>4. SameTensors
  BY <1>1, <1>3, TransmitNoTensor DEF SendNextItem
<1>5. WritesKept
  BY <1>4, WritesAreKept
<1>6. Arrived' = Arrived
  BY DEF SendNextItem, Arrived
<1>7. UNCHANGED <<size, sending, response, rb, recvDone, callbacks, got, requested, fatal, tb>>
  BY DEF SendNextItem, srcVars, dstVars
<1> QED  BY <1>2, <1>5, <1>6, <1>7, QuietKeeps

\* A completion at the destination that is no tensor.
LEMMA ArrivedTail ==
    ASSUME ChannelOK, NEW e \in Ends, NEW to, to # "tensor", Receive(e, to)
    PROVE  Arrived' = Arrived
<1>1. arrived \in [Ends -> Completions] /\ "dst" \in Ends
  BY TwoNames DEF ChannelOK, Completions
<1>2. arrived[e] # << >> /\ Head(arrived[e]) = to /\ arrived' = [arrived EXCEPT ![e] = Tail(@)]
  BY DEF Receive
<1>3. CASE e # "dst"
  BY <1>1, <1>2, <1>3 DEF Arrived
<1>4. CASE e = "dst"
  <2>1. PICK a \in Completions : a = arrived["dst"]
    BY <1>1
  <2>2. Count(a, {"tensor"}) = OneIf(Head(a) \in {"tensor"}) + Count(Tail(a), {"tensor"})
    BY <1>2, <1>4, <2>1, CountTail DEF Completions
  <2>3. OneIf(Head(a) \in {"tensor"}) = 0
    BY <1>2, <1>4, <2>1 DEF OneIf
  <2>4. Count(Tail(a), {"tensor"}) \in Nat
    <3>1. Tail(a) \in Completions
      BY <1>2, <1>4, <2>1 DEF Completions
    <3> QED  BY <3>1, CountType DEF Completions
  <2>5. arrived'["dst"] = Tail(a)
    BY <1>1, <1>2, <1>4, <2>1
  <2> QED  BY <2>1, <2>2, <2>3, <2>4, <2>5 DEF Arrived
<1> QED  BY <1>3, <1>4

LEMMA HandleAckOwn ==
    ASSUME Own, IInv, IInv', NEW e \in Ends, HandleAck(e)
    PROVE  Own'
<1>1. ChannelOK /\ OneInFlight
  BY DEF IInv
<1>2. Pipe'["src"] = Pipe["src"] /\ Pipe'["dst"] = Pipe["dst"]
  BY <1>1, HandleAckStep, TwoNames
<1>3. WritesKept
  BY <1>1, HandleAckNoTensor, WritesAreKept
<1>4. Arrived' = Arrived
  BY <1>1, ArrivedTail DEF HandleAck
<1>5. UNCHANGED <<size, sending, response, rb, recvDone, callbacks, got, requested, fatal, tb>>
  BY DEF HandleAck, srcVars, dstVars
<1> QED  BY <1>2, <1>3, <1>4, <1>5, QuietKeeps

LEMMA WriteCompletedOwn ==
    ASSUME Own, IInv, IInv', NEW e \in Ends, WriteCompleted(e)
    PROVE  Own'
<1>1. ChannelOK /\ OneInFlight
  BY DEF IInv
<1>2. Pipe'["src"] = Pipe["src"] /\ Pipe'["dst"] = Pipe["dst"]
  BY <1>1, WriteCompletedStep, TwoNames
<1>3. WritesKept
  BY WritesAreKept DEF WriteCompleted
<1>4. Arrived' = Arrived
  BY DEF WriteCompleted, Arrived
<1>5. /\ UNCHANGED <<size, sending, response, rb, recvDone, callbacks, got, requested, fatal>>
      /\ tb' = tb \/ tb' = [tb EXCEPT !.local = "idle"]
  BY DEF WriteCompleted, dstVars
<1> QED  BY <1>2, <1>3, <1>4, <1>5, QuietKeeps

LEMMA StutterOwn ==
    ASSUME Own, IInv, IInv', UNCHANGED vars
    PROVE  Own'
<1>1. ChannelOK /\ OneInFlight
  BY DEF IInv
<1>2. Pipe'["src"] = Pipe["src"] /\ Pipe'["dst"] = Pipe["dst"]
  BY <1>1, ChannelAside DEF vars
<1>3. UNCHANGED <<size, sending, response, rb, recvDone, callbacks, got, requested, fatal, tb, wire, arrived>>
  BY DEF vars, chanVars, srcVars, dstVars
<1>4. Arrived' = Arrived /\ WritesKept
  BY <1>3, WritesAreKept DEF Arrived
<1> QED  BY <1>2, <1>3, <1>4, QuietKeeps

-----------------------------------------------------------------------------
(* One message more or less in a direction.                                *)

AnyMessages == Seq(Message \cup {NoMessage})

\* P holds what Q does, and m.
More(P, Q, m) == \A S : Count(P, S) = Count(Q, S) + OneIf(m \in S)

LEMMA MoreAppend ==
    ASSUME NEW T, NEW s \in Seq(T), NEW y \in T
    PROVE  More(Append(s, y), s, y)
  BY CountAppend DEF More

LEMMA MoreCons ==
    ASSUME NEW T, NEW s \in Seq(T), NEW x \in T
    PROVE  More(<<x>> \o s, s, x)
<1> SUFFICES ASSUME NEW S PROVE Count(<<x>> \o s, S) = Count(s, S) + OneIf(x \in S)
  BY DEF More
<1>1. Count(<<x>> \o s, S) = OneIf(x \in S) + Count(s, S)
  BY CountCons
<1>2. Count(s, S) \in Nat /\ OneIf(x \in S) \in Nat
  BY CountType DEF OneIf
<1> QED  BY <1>1, <1>2

LEMMA MoreOrNot ==
    ASSUME NEW P \in AnyMessages, NEW Q \in AnyMessages, NEW m, More(P, Q, m), NEW S
    PROVE  /\ Count(P, S) \in Nat /\ Count(Q, S) \in Nat
           /\ m \in S => Count(P, S) = Count(Q, S) + 1
           /\ m \notin S => Count(P, S) = Count(Q, S)
<1>1. Count(P, S) \in Nat /\ Count(Q, S) \in Nat
  BY CountType DEF AnyMessages
<1>2. Count(P, S) = Count(Q, S) + OneIf(m \in S)
  BY DEF More
<1>3. /\ m \in S => OneIf(m \in S) = 1
      /\ m \notin S => OneIf(m \in S) = 0
  BY DEF OneIf
<1> QED  BY <1>1, <1>2, <1>3

\* The kinds of messages.
LEMMA Kinds ==
    /\ \A s \in Steps : /\ TensorRequest(s) \notin OfType("BUFFER_IDLE")
                        /\ TensorRequest(s) \notin OfType("BUFFER_RESPONSE")
                        /\ \A r \in Steps : TensorRequest(s) = TensorRequest(r) => s = r
                        /\ BufferIdle # TensorRequest(s)
                        /\ \A n, a : BufferResponse(n, a) # TensorRequest(s)
    /\ BufferIdle \in OfType("BUFFER_IDLE") /\ BufferIdle \notin OfType("BUFFER_RESPONSE")
    /\ \A n, a : BufferResponse(n, a) \notin OfType("BUFFER_IDLE")
    /\ \A n \in Sizes, a \in Addrs : BufferResponse(n, a) \in OfType("BUFFER_RESPONSE")
<1>1. \A s \in Steps : TensorRequest(s).type = "TENSOR_REQUEST" /\ TensorRequest(s).step = s
  BY DEF TensorRequest
<1>2. BufferIdle.type = "BUFFER_IDLE"
  BY DEF BufferIdle
<1>3. \A n, a : BufferResponse(n, a).type = "BUFFER_RESPONSE"
  BY DEF BufferResponse
<1> QED  BY <1>1, <1>2, <1>3, MessagesAre DEF OfType

\* What the direction from the destination holds of interest.
Others(P, Q) ==
    \A n, a : Count(P, WrongResponses(n, a)) = Count(Q, WrongResponses(n, a))

LEMMA MoreRequest ==
    ASSUME NEW P \in AnyMessages, NEW Q \in AnyMessages, NEW s0 \in Steps, More(P, Q, TensorRequest(s0))
    PROVE  /\ Count(P, OfType("BUFFER_IDLE")) = Count(Q, OfType("BUFFER_IDLE"))
           /\ Count(P, OfType("BUFFER_RESPONSE")) = Count(Q, OfType("BUFFER_RESPONSE"))
           /\ Others(P, Q)
           /\ Count(P, {TensorRequest(s0)}) = Count(Q, {TensorRequest(s0)}) + 1
           /\ \A s \in Steps : s # s0 => Count(P, {TensorRequest(s)}) = Count(Q, {TensorRequest(s)})
<1>1. PICK m : m = TensorRequest(s0)
  OBVIOUS
<1>2. ASSUME NEW S
      PROVE  /\ m \in S => Count(P, S) = Count(Q, S) + 1
             /\ m \notin S => Count(P, S) = Count(Q, S)
  BY <1>1, MoreOrNot
<1>3. /\ m \notin OfType("BUFFER_IDLE") /\ m \notin OfType("BUFFER_RESPONSE")
      /\ m \in {TensorRequest(s0)} /\ \A s \in Steps : s # s0 => m \notin {TensorRequest(s)}
      /\ \A n, a : m \notin WrongResponses(n, a)
  BY <1>1, Kinds DEF WrongResponses
<1> QED  BY <1>2, <1>3 DEF Others

LEMMA MoreIdle ==
    ASSUME NEW P \in AnyMessages, NEW Q \in AnyMessages, More(P, Q, BufferIdle)
    PROVE  /\ Count(P, OfType("BUFFER_IDLE")) = Count(Q, OfType("BUFFER_IDLE")) + 1
           /\ Count(P, OfType("BUFFER_RESPONSE")) = Count(Q, OfType("BUFFER_RESPONSE"))
           /\ Others(P, Q)
           /\ \A s \in Steps : Count(P, {TensorRequest(s)}) = Count(Q, {TensorRequest(s)})
<1>1. PICK m : m = BufferIdle
  OBVIOUS
<1>2. ASSUME NEW S
      PROVE  /\ m \in S => Count(P, S) = Count(Q, S) + 1
             /\ m \notin S => Count(P, S) = Count(Q, S)
  BY <1>1, MoreOrNot
<1>3. /\ m \in OfType("BUFFER_IDLE") /\ m \notin OfType("BUFFER_RESPONSE")
      /\ \A s \in Steps : m \notin {TensorRequest(s)}
      /\ \A n, a : m \notin WrongResponses(n, a)
  BY <1>1, Kinds DEF WrongResponses
<1> QED  BY <1>2, <1>3 DEF Others

LEMMA MoreResponse ==
    ASSUME NEW P \in AnyMessages, NEW Q \in AnyMessages, NEW n0 \in Sizes, NEW a0 \in Addrs,
           More(P, Q, BufferResponse(n0, a0))
    PROVE  /\ Count(P, OfType("BUFFER_IDLE")) = Count(Q, OfType("BUFFER_IDLE"))
           /\ Count(P, OfType("BUFFER_RESPONSE")) = Count(Q, OfType("BUFFER_RESPONSE")) + 1
           /\ Count(P, WrongResponses(n0, a0)) = Count(Q, WrongResponses(n0, a0))
           /\ \A n, a : BufferResponse(n0, a0) # BufferResponse(n, a) => Count(P, WrongResponses(n, a)) > 0
           /\ \A s \in Steps : Count(P, {TensorRequest(s)}) = Count(Q, {TensorRequest(s)})
<1>1. PICK m : m = BufferResponse(n0, a0)
  OBVIOUS
<1>2. ASSUME NEW S
      PROVE  /\ m \in S => Count(P, S) = Count(Q, S) + 1
             /\ m \notin S => Count(P, S) = Count(Q, S)
             /\ Count(Q, S) \in Nat
  BY <1>1, MoreOrNot
<1>3. /\ m \notin OfType("BUFFER_IDLE") /\ m \in OfType("BUFFER_RESPONSE")
      /\ \A s \in Steps : m \notin {TensorRequest(s)}
      /\ m \notin WrongResponses(n0, a0)
      /\ \A n, a : m # BufferResponse(n, a) => m \in WrongResponses(n, a)
  BY <1>1, Kinds DEF WrongResponses
<1>4. \A n, a : m # BufferResponse(n, a) => Count(P, WrongResponses(n, a)) > 0
  <2> SUFFICES ASSUME NEW n, NEW a, m # BufferResponse(n, a) PROVE Count(P, WrongResponses(n, a)) > 0
    OBVIOUS
  <2>1. PICK S : S = WrongResponses(n, a)
    OBVIOUS
  <2>2. m \in S
    BY <1>3, <2>1
  <2>3. Count(P, S) = Count(Q, S) + 1 /\ Count(Q, S) \in Nat
    BY <1>2, <2>2
  <2> QED  BY <2>1, <2>3
<1> QED  BY <1>1, <1>2, <1>3, <1>4

\* The messages by their types.
LEMMA TypesOfMessages ==
    ASSUME NEW m \in Message \cup {NoMessage}
    PROVE  /\ m.type = "TENSOR_REQUEST" => m.step \in Steps /\ m = TensorRequest(m.step)
           /\ m.type = "BUFFER_IDLE" => m = BufferIdle
           /\ m.type = "BUFFER_REQUEST" => m.size \in Sizes /\ m = BufferRequest(m.size) /\ m \in Message
           /\ m.type = "BUFFER_RESPONSE" => /\ m.size \in Sizes /\ m.addr \in Addrs
                                            /\ m = BufferResponse(m.size, m.addr)
<1>1. CASE m \in [type : {"TENSOR_REQUEST"}, step : Steps]
  BY <1>1 DEF TensorRequest
<1>2. CASE m \in [type : {"BUFFER_IDLE"}]
  BY <1>2 DEF BufferIdle
<1>3. CASE m \in [type : {"BUFFER_REQUEST"}, size : Sizes]
  <2>1. m \in Message
    BY <1>3 DEF Message
  <2> QED  BY <1>3, <2>1 DEF BufferRequest
<1>4. CASE m \in [type : {"BUFFER_RESPONSE"}, size : Sizes, addr : Addrs]
  BY <1>4 DEF BufferResponse
<1>5. CASE m = NoMessage
  BY <1>5 DEF NoMessage
<1> QED  BY <1>1, <1>2, <1>3, <1>4, <1>5 DEF Message

-----------------------------------------------------------------------------
(* The steps of the destination.                                           *)

LEMMA RecvFromRemoteAsyncOwn ==
    ASSUME Own, IInv, IInv', NEW r \in Steps, RecvFromRemoteAsync(r)
    PROVE  Own'
<1>1. ChannelOK /\ OneInFlight /\ Numbers /\ Numbers'
  BY NumbersNow, NumbersNext DEF IInv
<1>2. RemoteToken /\ KeyToken /\ Remote /\ Fitting /\ Agreed /\ Holding /\ Unharmed
  BY DEF Own
<1>3. PICK m \in Message : m = TensorRequest(r)
  BY MessagesAre
<1>4. Transmit("dst", <<m>>, << >>) /\ Kept /\ pool' = pool
  BY <1>3 DEF RecvFromRemoteAsync, Kept
<1>5. Pipe'["dst"] = Append(Pipe["dst"], m) /\ Pipe'["src"] = Pipe["src"]
  BY <1>1, <1>4, EnqueueStep, TwoNames
<1>6. WritesKept
  BY <1>1, <1>4, TransmitNoTensor, TwoNames, WritesAreKept
<1>7. /\ UNCHANGED <<size, got, rb, recvDone, fatal, tb, sending, response, arrived>>
      /\ requested' = requested \cup {r} /\ callbacks' = callbacks \cup {r} /\ r \notin requested
  BY DEF RecvFromRemoteAsync, srcVars
<1>8. PICK P \in AnyMessages, Q \in AnyMessages : P = Pipe'["dst"] /\ Q = Pipe["dst"]
  BY <1>1 DEF Numbers, AnyMessages
<1>9. More(P, Q, m)
  <2>1. P = Append(Q, m) /\ Q \in Seq(Message \cup {NoMessage}) /\ m \in Message \cup {NoMessage}
    BY <1>5, <1>8 DEF AnyMessages
  <2> QED  BY <2>1, MoreAppend
<1>10. /\ Idles' = Idles /\ Responses' = Responses /\ Others(P, Q)
       /\ Requests(r)' = Requests(r) + 1
       /\ \A s \in Steps : s # r => Requests(s)' = Requests(s)
  BY <1>3, <1>8, <1>9, MoreRequest DEF Idles, Responses, Requests
<1>11. AskedKept /\ ThreadsKept
  BY <1>5, <1>7, MessagesKept, SendingKept
<1>12. BufferKept
  <2>1. Arrived' = Arrived
    BY <1>7 DEF Arrived
  <2> QED  BY <1>7, <2>1, TensorsKept
<1>13. RemoteToken' /\ Remote'
  <2>1. InUse' = InUse /\ Creating' = Creating /\ InUse \in Nat /\ Creating \in Nat
    BY <1>1, <1>6, <1>10, <1>11, <1>12
       DEF InUse, Creating, WritesKept, AskedKept, ThreadsKept, BufferKept, Numbers
  <2> QED  BY <1>1, <1>2, <1>7, <2>1, RemoteKept
<1>14. KeyToken'
  <2> SUFFICES ASSUME NEW s \in Steps PROVE Keys(s)' <= OneIf(s \in callbacks')
    BY DEF KeyToken
  <2>1. /\ Queued(s)' = Queued(s) /\ HeldBy(s)' = HeldBy(s) /\ OnWireOf(s)' = OnWireOf(s)
        /\ InBuffer(s)' = InBuffer(s) /\ recvDone'[s] = recvDone[s]
    BY <1>6, <1>7, <1>11, <1>12 DEF Queued, WritesKept, ThreadsKept, BufferKept
  <2>2. Keys(s) <= OneIf(s \in callbacks) /\ Keys(s) \in Nat
    BY <1>1, <1>2 DEF KeyToken, Numbers
  <2>3. CASE s # r
    <3>1. Keys(s)' = Keys(s)
      BY <1>10, <2>1, <2>3 DEF Keys
    <3>2. s \in callbacks' <=> s \in callbacks
      BY <1>7, <2>3
    <3> QED  BY <2>2, <3>1, <3>2 DEF OneIf
  <2>4. CASE s = r
    <3>1. s \notin callbacks /\ s \in callbacks'
      BY <1>2, <1>7, <2>4 DEF Unharmed
    <3>2. Keys(s) = 0
      BY <2>2, <3>1 DEF OneIf
    <3>3. Keys(s)' = Keys(s) + 1
      <4>1. PICK a \in Nat, b \in Nat, c \in Nat, d \in Nat, x \in Nat, y \in Nat :
              /\ a = Requests(s) /\ b = Queued(s) /\ c = HeldBy(s) /\ d = OnWireOf(s)
              /\ x = InBuffer(s) /\ y = recvDone[s]
        BY <1>1 DEF Numbers
      <4>2. Keys(s) = a + b + c + d + x + y
        BY <4>1 DEF Keys
      <4>3. Keys(s)' = (a + 1) + b + c + d + x + y
        BY <1>10, <2>1, <2>4, <4>1 DEF Keys
      <4> QED  BY <4>2, <4>3
    <3> QED  BY <3>1, <3>2, <3>3 DEF OneIf
  <2> QED  BY <2>3, <2>4
<1>15. Fitting'
  BY <1>2, <1>6, <1>7, FittingKept
<1>16. Agreed'
  BY <1>2, <1>7, <1>8, <1>10, <1>11 DEF Agreed, AskedKept, Others
<1>17. Holding'
  BY <1>2, <1>7, <1>12, HoldingKept
<1>18. Unharmed'
  BY <1>2, <1>7 DEF Unharmed
<1> QED  BY <1>13, <1>14, <1>15, <1>16, <1>17, <1>18 DEF Own

\* The callback of s ran: fewer are scheduled.
LEMMA ReceivedFewer ==
    ASSUME NEW f \in [Steps -> Nat], NEW r \in Steps, f[r] = 1, NEW g, g = [f EXCEPT ![r] = f[r] - 1],
           IsFiniteSet(Received(f))
    PROVE  Cardinality(Received(f)) \in Nat /\ Cardinality(Received(g)) = Cardinality(Received(f)) - 1
<1>1. g[r] = 0 /\ \A s \in Steps : s # r => g[s] = f[s]
  OBVIOUS
<1>2. PICK A, B : A = Received(f) /\ B = Received(g)
  OBVIOUS
<1>3. B = A \ {r} /\ r \in A
  BY <1>1, <1>2 DEF Received
<1>4. Cardinality(A) \in Nat /\ Cardinality(A \ {r}) = Cardinality(A) - 1
  BY <1>2, <1>3, FS_CardinalityType, FS_RemoveElement
<1> QED  BY <1>2, <1>3, <1>4

LEMMA RunRecvCallbackOwn ==
    ASSUME Own, IInv, IInv', NEW r \in Steps, RunRecvCallback(r)
    PROVE  Own'
<1>1. ChannelOK /\ OneInFlight /\ TensorOK /\ Numbers /\ Numbers'
  BY NumbersNow, NumbersNext DEF IInv
<1>2. RemoteToken /\ KeyToken /\ Remote /\ Fitting /\ Agreed /\ Holding /\ Unharmed
  BY DEF Own
<1>3. recvDone[r] > 0 /\ recvDone \in [Steps -> Nat] /\ recvDone' = [recvDone EXCEPT ![r] = recvDone[r] - 1]
  BY <1>1 DEF RunRecvCallback, Numbers
<1>4. rb.data = r /\ r # None
  BY <1>2, <1>3, StepsAssumption DEF Holding, None
<1>5. PICK a \in Nat, b \in Nat, c \in Nat, d \in Nat, x \in Nat, y \in Nat :
        /\ a = Requests(r) /\ b = Queued(r) /\ c = HeldBy(r) /\ d = OnWireOf(r)
        /\ x = InBuffer(r) /\ y = recvDone[r]
  BY <1>1 DEF Numbers
<1>6. a + b + c + d + x + y <= OneIf(r \in callbacks) /\ y > 0
  BY <1>2, <1>3, <1>5 DEF KeyToken, Keys
<1>7. r \in callbacks
  BY <1>6 DEF OneIf
<1>8. a = 0 /\ b = 0 /\ c = 0 /\ d = 0 /\ x = 0 /\ y = 1
  BY <1>6 DEF OneIf
<1>9. PICK m \in Message : m = BufferIdle
  BY MessagesAre
<1>10. /\ Transmit("dst", <<m>>, << >>) /\ Kept /\ pool' = pool
       /\ got' = [got EXCEPT ![r] = r] /\ callbacks' = callbacks \ {r}
       /\ UNCHANGED <<size, requested, rb, fatal, tb, sending, response, arrived>>
  BY <1>4, <1>7, <1>9 DEF RunRecvCallback, Kept, Release, srcVars
<1>11. Pipe'["dst"] = Append(Pipe["dst"], m) /\ Pipe'["src"] = Pipe["src"]
  BY <1>1, <1>10, EnqueueStep, TwoNames
<1>12. WritesKept
  BY <1>1, <1>10, TransmitNoTensor, TwoNames, WritesAreKept
<1>13. PICK P \in AnyMessages, Q \in AnyMessages : P = Pipe'["dst"] /\ Q = Pipe["dst"]
  BY <1>1 DEF Numbers, AnyMessages
<1>14. More(P, Q, m)
  <2>1. P = Append(Q, m) /\ Q \in Seq(Message \cup {NoMessage}) /\ m \in Message \cup {NoMessage}
    BY <1>11, <1>13 DEF AnyMessages
  <2> QED  BY <2>1, MoreAppend
<1>15. /\ Idles' = Idles + 1 /\ Responses' = Responses /\ Others(P, Q)
       /\ \A s \in Steps : Requests(s)' = Requests(s)
  BY <1>9, <1>13, <1>14, MoreIdle DEF Idles, Responses, Requests
<1>16. AskedKept /\ ThreadsKept /\ Arrived' = Arrived /\ \A s \in Steps : InBuffer(s)' = InBuffer(s)
  BY <1>10, <1>11, MessagesKept, SendingKept DEF Arrived, InBuffer
<1>17. Scheduled' = Scheduled - 1
  <2>1. recvDone[r] = 1
    BY <1>5, <1>8
  <2>2. IsFiniteSet(Received(recvDone))
    BY <1>1 DEF Numbers
  <2>3. PICK f \in [Steps -> Nat], g \in {recvDone'} : f = recvDone
    BY <1>3
  <2>4. Cardinality(Received(g)) = Cardinality(Received(f)) - 1
    BY <1>3, <2>1, <2>2, <2>3, ReceivedFewer
  <2> QED  BY <2>3, <2>4 DEF Scheduled
<1>18. RemoteToken' /\ Remote'
  <2>1. PICK i \in Nat, j \in Nat, k \in Nat, l \in Nat, n \in Nat :
          i = Writers /\ j = OnWire /\ k = Arrived /\ l = Scheduled /\ n = Idles
    BY <1>1 DEF Numbers
  <2>2. InUse = i + j + k + l + n
    BY <2>1 DEF InUse
  <2>3. InUse' = i + j + k + (l - 1) + (n + 1)
    BY <1>12, <1>15, <1>16, <1>17, <2>1 DEF InUse, WritesKept, ThreadsKept
  <2>4. InUse' <= InUse
    BY <2>2, <2>3
  <2>5. Creating' = Creating /\ Creating \in Nat
    BY <1>1, <1>15, <1>16 DEF Creating, AskedKept, ThreadsKept, Numbers
  <2> QED  BY <1>1, <1>2, <1>10, <2>4, <2>5, RemoteKept
<1>19. ASSUME NEW s \in Steps
       PROVE  /\ Queued(s)' = Queued(s) /\ HeldBy(s)' = HeldBy(s) /\ OnWireOf(s)' = OnWireOf(s)
              /\ InBuffer(s)' = InBuffer(s) /\ Requests(s)' = Requests(s)
              /\ recvDone'[s] = IF s = r THEN recvDone[r] - 1 ELSE recvDone[s]
  BY <1>3, <1>10, <1>12, <1>15, <1>16 DEF Queued, WritesKept, ThreadsKept
<1>20. KeyToken'
  <2> SUFFICES ASSUME NEW s \in Steps PROVE Keys(s)' <= OneIf(s \in callbacks')
    BY DEF KeyToken
  <2>1. CASE s # r
    <3>1. Keys(s)' = Keys(s)
      BY <1>19, <2>1 DEF Keys
    <3>2. s \in callbacks' <=> s \in callbacks
      BY <1>10, <2>1
    <3>3. Keys(s) <= OneIf(s \in callbacks)
      BY <1>2 DEF KeyToken
    <3> QED  BY <3>1, <3>2, <3>3 DEF OneIf
  <2>2. CASE s = r
    <3>1. Keys(s)' = a + b + c + d + x + (y - 1)
      BY <1>5, <1>19, <2>2 DEF Keys
    <3> QED  BY <1>8, <3>1 DEF OneIf
  <2> QED  BY <2>1, <2>2
<1>21. Fitting'
  BY <1>2, <1>10, <1>12, FittingKept
<1>22. Agreed'
  BY <1>2, <1>10, <1>13, <1>15, <1>16 DEF Agreed, AskedKept, Others
<1>23. Holding'
  <2>1. ASSUME NEW s \in Steps, recvDone'[s] > 0 PROVE rb'.data = s
    <3>1. s # r
      BY <1>5, <1>8, <1>19, <2>1
    <3> QED  BY <1>2, <1>10, <1>19, <2>1, <3>1 DEF Holding
  <2> QED  BY <1>2, <1>10, <1>16, <2>1 DEF Holding
<1>24. Unharmed'
  BY <1>1, <1>2, <1>10 DEF Unharmed, TensorOK
<1> QED  BY <1>18, <1>20, <1>21, <1>22, <1>23, <1>24 DEF Own

\* Only one of them has the buffer.
LEMMA OneUser ==
    ASSUME RemoteToken, Numbers
    PROVE  /\ tb.local = "none" => InUse = 0 /\ Creating = 0
           /\ InUse > 0 => InUse = 1 /\ Creating = 0 /\ tb.remote # "idle" /\ tb.local # "none"
           /\ Creating > 0 => InUse = 0 /\ Creating = 1 /\ tb.remote # "idle" /\ tb.local # "none"
           /\ tb.remote = "idle" => InUse = 0 /\ Creating = 0
<1>1. PICK i \in Nat, k \in Nat : i = InUse /\ k = Creating
  BY DEF Numbers
<1>2. PICK x \in 0..1, y \in 0..1 : x = OneIf(tb.remote = "idle") /\ y = OneIf(tb.local # "none")
  BY DEF OneIf
<1>3. i + k + x <= y
  BY <1>1, <1>2 DEF RemoteToken
<1>4. /\ y = 0 => i = 0 /\ k = 0
      /\ i > 0 => i = 1 /\ k = 0 /\ x = 0 /\ y = 1
      /\ k > 0 => i = 0 /\ k = 1 /\ x = 0 /\ y = 1
      /\ x = 1 => i = 0 /\ k = 0
  BY <1>3
<1>5. /\ tb.local = "none" <=> y = 0
      /\ tb.remote = "idle" <=> x = 1
  BY <1>2 DEF OneIf
<1> QED  BY <1>1, <1>4, <1>5

LEMMA NobodyUses ==
    ASSUME Numbers, InUse = 0
    PROVE  /\ Writers = 0 /\ OnWire = 0 /\ Arrived = 0 /\ Scheduled = 0 /\ Idles = 0
           /\ \A s \in Steps : recvDone[s] = 0
<1>1. PICK i \in Nat, j \in Nat, k \in Nat, l \in Nat, n \in Nat :
        i = Writers /\ j = OnWire /\ k = Arrived /\ l = Scheduled /\ n = Idles
  BY DEF Numbers
<1>2. i + j + k + l + n = 0
  BY <1>1 DEF InUse
<1>3. i = 0 /\ j = 0 /\ k = 0 /\ l = 0 /\ n = 0
  BY <1>2
<1>4. Received(recvDone) = {}
  BY <1>1, <1>3, FS_EmptySet DEF Numbers, Scheduled
<1>5. \A s \in Steps : recvDone[s] = 0
  BY <1>4 DEF Received, Numbers
<1> QED  BY <1>1, <1>3, <1>5

LEMMA NobodyCreates ==
    ASSUME Numbers, Creating = 0
    PROVE  Askers = 0 /\ Asked = 0 /\ Responses = 0
<1>1. PICK i \in Nat, j \in Nat, k \in Nat : i = Askers /\ j = Asked /\ k = Responses
  BY DEF Numbers
<1>2. i + j + k = 0
  BY <1>1 DEF Creating
<1> QED  BY <1>1, <1>2

\* A tensor is in the buffer, and nobody else uses it.
LEMMA TensorIsAlone ==
    ASSUME Numbers, InUse = 1, Arrived > 0
    PROVE  /\ Writers = 0 /\ OnWire = 0 /\ Arrived = 1 /\ Scheduled = 0 /\ Idles = 0
           /\ \A s \in Steps : recvDone[s] = 0
<1>1. PICK i \in Nat, j \in Nat, k \in Nat, l \in Nat, n \in Nat :
        i = Writers /\ j = OnWire /\ k = Arrived /\ l = Scheduled /\ n = Idles
  BY DEF Numbers
<1>2. i + j + k + l + n = 1 /\ k > 0
  BY <1>1 DEF InUse
<1>3. i = 0 /\ j = 0 /\ k = 1 /\ l = 0 /\ n = 0
  BY <1>2
<1>4. Received(recvDone) = {}
  BY <1>1, <1>3, FS_EmptySet DEF Numbers, Scheduled
<1>5. \A s \in Steps : recvDone[s] = 0
  BY <1>4 DEF Received, Numbers
<1> QED  BY <1>1, <1>3, <1>5

LEMMA HandleTensorWriteOwn ==
    ASSUME Own, IInv, IInv', HandleTensorWrite
    PROVE  Own'
<1>1. ChannelOK /\ OneInFlight /\ Numbers /\ Numbers'
  BY NumbersNow, NumbersNext DEF IInv
<1>2. RemoteToken /\ KeyToken /\ Remote /\ Fitting /\ Agreed /\ Holding /\ Unharmed
  BY DEF Own
<1>3. /\ Pipe'["dst"] = Pipe["dst"] /\ Pipe'["src"] = Pipe["src"]
  BY <1>1, TensorArrivedStep, TwoNames DEF HandleTensorWrite
<1>4. Arrived = 1 + Arrived'
  <2>1. arrived \in [Ends -> Completions] /\ "dst" \in Ends
    BY <1>1, TwoNames DEF ChannelOK, Completions
  <2>2. arrived["dst"] # << >> /\ Head(arrived["dst"]) = "tensor" /\ arrived' = [arrived EXCEPT !["dst"] = Tail(@)]
    BY DEF HandleTensorWrite, Receive
  <2>3. PICK a \in Completions : a = arrived["dst"]
    BY <2>1
  <2>4. Count(a, {"tensor"}) = OneIf(Head(a) \in {"tensor"}) + Count(Tail(a), {"tensor"})
    BY <2>2, <2>3, CountTail DEF Completions
  <2>5. OneIf(Head(a) \in {"tensor"}) = 1
    BY <2>2, <2>3 DEF OneIf
  <2>6. arrived'["dst"] = Tail(a)
    BY <2>1, <2>2, <2>3
  <2> QED  BY <2>3, <2>4, <2>5, <2>6 DEF Arrived
<1>5. Arrived > 0 /\ Arrived \in Nat /\ Arrived' \in Nat
  <2>1. PICK i \in Nat, j \in Nat : i = Arrived /\ j = Arrived'
    BY <1>1 DEF Numbers
  <2>2. i = 1 + j
    BY <1>4, <2>1
  <2>3. i > 0
    BY <2>2
  <2> QED  BY <2>1, <2>3
<1>6. InUse > 0
  <2>1. PICK i \in Nat, j \in Nat, k \in Nat, l \in Nat, n \in Nat :
          i = Writers /\ j = OnWire /\ k = Arrived /\ l = Scheduled /\ n = Idles
    BY <1>1 DEF Numbers
  <2>2. InUse = i + j + k + l + n /\ k > 0
    BY <1>5, <2>1 DEF InUse
  <2> QED  BY <2>2
<1>7. InUse = 1
  BY <1>1, <1>2, <1>6, OneUser
<1>8. /\ Writers = 0 /\ OnWire = 0 /\ Arrived = 1 /\ Scheduled = 0 /\ Idles = 0
      /\ \A s \in Steps : recvDone[s] = 0
  BY <1>1, <1>5, <1>7, TensorIsAlone
<1>9. Arrived' = 0
  <2>1. PICK j \in Nat : j = Arrived'
    BY <1>5
  <2>2. 1 = 1 + j
    BY <1>4, <1>8, <2>1
  <2>3. j = 0
    BY <2>2
  <2> QED  BY <2>1, <2>3
<1>10. PICK d \in Steps : d = rb.data /\ d # None
  BY <1>2, <1>5, StepsAssumption DEF Holding, None
<1>11. /\ recvDone' = [recvDone EXCEPT ![d] = recvDone[d] + 1]
       /\ UNCHANGED <<fatal, size, requested, wire, tb, sending, response, rb, callbacks, got>>
  BY <1>10 DEF HandleTensorWrite, srcVars
<1>12. /\ recvDone'[d] = 1 /\ \A s \in Steps : s # d => recvDone'[s] = 0
  <2>1. recvDone \in [Steps -> Nat]
    BY <1>1 DEF Numbers
  <2>2. recvDone' = [recvDone EXCEPT ![d] = 1]
    <3>1. recvDone[d] = 0 /\ 0 + 1 = 1
      BY <1>8
    <3> QED  BY <1>11, <3>1, Zenon
  <2> QED  BY <1>8, <2>1, <2>2
<1>13. Scheduled' = 1
  <2>1. Received(recvDone') = {d}
    BY <1>12 DEF Received
  <2> QED  BY <2>1, FS_Singleton DEF Scheduled
<1>14. AnswersKept /\ AskedKept /\ ThreadsKept /\ WritesKept
  BY <1>3, <1>11, MessagesKept, SendingKept, WritesAreKept
<1>15. RemoteToken' /\ Remote'
  <2>1. InUse' = 0 + 0 + 0 + 1 + 0
    BY <1>8, <1>9, <1>13, <1>14 DEF InUse, ThreadsKept, WritesKept, AnswersKept
  <2>2. Creating' = Creating /\ Creating \in Nat
    BY <1>1, <1>14 DEF Creating, AskedKept, ThreadsKept, AnswersKept, Numbers
  <2>3. InUse' <= InUse
    BY <1>7, <2>1
  <2> QED  BY <1>1, <1>2, <1>11, <2>2, <2>3, RemoteKept
<1>16. KeyToken'
  <2> SUFFICES ASSUME NEW s \in Steps PROVE Keys(s)' <= Keys(s)
    BY <1>1, <1>2, <1>11, KeysKept
  <2>1. /\ Queued(s)' = Queued(s) /\ HeldBy(s)' = HeldBy(s) /\ OnWireOf(s)' = OnWireOf(s)
        /\ Requests(s)' = Requests(s)
    BY <1>11, <1>14 DEF Queued, WritesKept, ThreadsKept, AnswersKept
  <2>2. PICK a \in Nat, b \in Nat, c \in Nat, e \in Nat, x \in Nat :
          a = Requests(s) /\ b = Queued(s) /\ c = HeldBy(s) /\ e = OnWireOf(s) /\ x = InBuffer(s)
    BY <1>1 DEF Numbers
  <2>3. Keys(s) = a + b + c + e + x + 0
    BY <1>8, <2>2 DEF Keys
  <2>4. x = IF s = d THEN 1 ELSE 0
    BY <1>8, <1>10, <2>2 DEF InBuffer, OneIf
  <2>5. InBuffer(s)' = 0
    BY <1>9 DEF InBuffer, OneIf
  <2>6. recvDone'[s] = IF s = d THEN 1 ELSE 0
    BY <1>12
  <2>7. Keys(s)' = a + b + c + e + 0 + x
    BY <2>1, <2>2, <2>4, <2>5, <2>6 DEF Keys
  <2> QED  BY <2>3, <2>7
<1>17. Fitting'
  BY <1>2, <1>11, <1>14, FittingKept
<1>18. Agreed'
  BY <1>2, <1>11, <1>14, AgreedKept
<1>19. Holding'
  BY <1>9, <1>10, <1>11, <1>12 DEF Holding
<1>20. Unharmed'
  BY <1>2, <1>11, UnharmedKept
<1> QED  BY <1>15, <1>16, <1>17, <1>18, <1>19, <1>20 DEF Own

LEMMA HandleBufferRequestOwn ==
    ASSUME Own, IInv, IInv', HandleBufferRequest
    PROVE  Own'
<1>1. ChannelOK /\ OneInFlight /\ TensorOK /\ TensorOK' /\ Numbers /\ Numbers'
  BY NumbersNow, NumbersNext DEF IInv
<1>2. RemoteToken /\ KeyToken /\ Remote /\ Fitting /\ Agreed /\ Holding /\ Unharmed
  BY DEF Own
<1>3. PICK r \in Message : r = rx["dst"] /\ r.size \in Sizes /\ r = BufferRequest(r.size)
  BY <1>1, TypesOfMessages, TwoNames DEF ChannelOK, HandleBufferRequest, ReceiveMessage
<1>4. /\ rb' = [addr |-> rb.addr + 1, size |-> r.size, data |-> None]
      /\ Transmit("dst", <<BufferResponse(r.size, rb.addr + 1)>>, <<AckWrite>>)
      /\ UNCHANGED <<size, requested, fatal, tb, sending, response, callbacks, got, recvDone>>
  BY <1>3 DEF HandleBufferRequest, srcVars
<1>5. PICK a0 \in Addrs : a0 = rb.addr + 1
  <2>1. rb'.addr \in Addrs \cup {None} /\ rb.addr \in Nat
    BY <1>1 DEF TensorOK, Addrs, None
  <2> QED  BY <1>4, <2>1 DEF None
<1>6. PICK m \in Message : m = BufferResponse(r.size, a0)
  BY <1>3, MessagesAre
<1>7. Receive("dst", "message") /\ Transmit("dst", <<m>>, <<AckWrite>>) /\ rx' = rx /\ sent' = sent /\ pool' = pool
  BY <1>4, <1>5, <1>6 DEF HandleBufferRequest, ReceiveMessage
<1>8. /\ Pipe'["dst"] = Append(Pipe["dst"], m)
      /\ Pipe["src"] = <<r>> \o Pipe'["src"] /\ Len(Pipe["src"]) = Len(Pipe'["src"]) + 1
  BY <1>1, <1>3, <1>7, AnswerStep, TwoNames
<1>9. WritesKept
  BY <1>1, <1>7, TransmitNoTensor, TwoNames, WritesAreKept
<1>10. Arrived' = Arrived
  BY <1>1, <1>7, ArrivedTail, TwoNames
<1>11. PICK P \in AnyMessages, Q \in AnyMessages, U \in AnyMessages, V \in AnyMessages :
         P = Pipe'["dst"] /\ Q = Pipe["dst"] /\ U = Pipe["src"] /\ V = Pipe'["src"]
  BY <1>1 DEF Numbers, AnyMessages
<1>12. More(P, Q, m) /\ More(U, V, r)
  <2>1. P = Append(Q, m) /\ Q \in Seq(Message \cup {NoMessage}) /\ m \in Message \cup {NoMessage}
    BY <1>8, <1>11 DEF AnyMessages
  <2>2. U = <<r>> \o V /\ V \in Seq(Message \cup {NoMessage}) /\ r \in Message \cup {NoMessage}
    BY <1>8, <1>11 DEF AnyMessages
  <2> QED  BY <2>1, <2>2, MoreAppend, MoreCons
<1>13. /\ Idles' = Idles /\ Responses' = Responses + 1
       /\ Count(P, WrongResponses(r.size, a0)) = Count(Q, WrongResponses(r.size, a0))
       /\ \A s \in Steps : Requests(s)' = Requests(s)
  BY <1>3, <1>6, <1>11, <1>12, MoreResponse DEF Idles, Responses, Requests
<1>14. Asked = Asked' + 1 /\ Asked' \in Nat
  BY <1>1, <1>8 DEF Asked, Numbers
<1>15. Creating' = Creating /\ Creating > 0 /\ Askers' = Askers
  <2>1. PICK i \in Nat, j \in Nat, k \in Nat : i = Askers /\ j = Asked' /\ k = Responses
    BY <1>1, <1>14 DEF Numbers
  <2>2. Creating = i + (j + 1) + k
    BY <1>14, <2>1 DEF Creating
  <2>3. Askers' = Askers
    BY <1>4 DEF Askers
  <2>4. Creating' = i + j + (k + 1)
    BY <1>13, <2>1, <2>3 DEF Creating
  <2> QED  BY <2>2, <2>3, <2>4
<1>16. InUse = 0 /\ Creating = 1 /\ tb.remote = "none"
  BY <1>1, <1>2, <1>15, OneUser DEF Remote
<1>17. /\ Arrived = 0 /\ OnWire = 0 /\ \A s \in Steps : recvDone[s] = 0
  BY <1>1, <1>16, NobodyUses
<1>18. ThreadsKept /\ Scheduled' = Scheduled
  BY <1>4, SendingKept DEF Scheduled
<1>19. InUse' = InUse
  BY <1>9, <1>10, <1>13, <1>18 DEF InUse, WritesKept, ThreadsKept
<1>20. RemoteToken' /\ Remote'
  <2>1. InUse' <= InUse /\ Creating' <= Creating
    BY <1>15, <1>16, <1>19
  <2> QED  BY <1>1, <1>2, <1>4, <1>16, <2>1, RemoteKept
<1>21. KeyToken'
  <2> SUFFICES ASSUME NEW s \in Steps PROVE Keys(s)' <= Keys(s)
    BY <1>1, <1>2, <1>4, KeysKept
  <2>1. /\ Queued(s)' = Queued(s) /\ HeldBy(s)' = HeldBy(s) /\ OnWireOf(s)' = OnWireOf(s)
        /\ Requests(s)' = Requests(s) /\ recvDone'[s] = recvDone[s]
    BY <1>4, <1>9, <1>13, <1>18 DEF Queued, WritesKept, ThreadsKept
  <2>2. InBuffer(s)' = 0 /\ InBuffer(s) = 0
    BY <1>10, <1>17 DEF InBuffer, OneIf
  <2>3. Keys(s)' = Keys(s) /\ Keys(s) \in Nat
    BY <1>1, <2>1, <2>2 DEF Keys, Numbers
  <2> QED  BY <2>3
<1>22. Fitting'
  <2>1. Count(wire'["src"], Misfits(rb')) = 0
    <3>1. wire'["src"] \in Seq(Write) /\ OnWire' = 0
      BY <1>1, <1>9, <1>17 DEF Numbers, WritesKept
    <3>2. Misfits(rb') \subseteq TensorWrites
      BY DEF Misfits
    <3>3. PICK w \in Seq(Write), S \in {Misfits(rb')} : w = wire'["src"]
      BY <3>1
    <3>4. Count(w, S) <= Count(w, TensorWrites) /\ Count(w, S) \in Nat
      BY <3>2, <3>3, CountFewer, CountType
    <3>5. Count(w, TensorWrites) = 0
      BY <3>1, <3>3 DEF OnWire
    <3> QED  BY <3>3, <3>4, <3>5
  <2> QED  BY <1>2, <1>4, <1>9, <2>1 DEF Fitting, WritesKept
<1>23. tb.size = r.size /\ Count(V, Strays(tb.size)) = 0
  <2>1. PICK S : S = Strays(tb.size)
    OBVIOUS
  <2>2. Count(U, S) = 0
    BY <1>2, <1>11, <2>1 DEF Agreed
  <2>3. Count(U, S) \in Nat /\ Count(V, S) \in Nat /\ (r \in S => Count(U, S) = Count(V, S) + 1)
        /\ (r \notin S => Count(U, S) = Count(V, S))
    BY <1>12, MoreOrNot
  <2>4. r \notin S /\ Count(V, S) = 0
    BY <2>2, <2>3
  <2>5. r = BufferRequest(tb.size)
    BY <2>1, <2>4 DEF Strays
  <2>6. r.size = tb.size
    BY <2>5 DEF BufferRequest
  <2> QED  BY <2>1, <2>4, <2>6
<1>24. Agreed'
  <2>1. Responses = 0
    <3>1. PICK i \in Nat, j \in Nat, k \in Nat : i = Askers /\ j = Asked' /\ k = Responses
      BY <1>1, <1>14 DEF Numbers
    <3>2. i + (j + 1) + k = 1
      BY <1>14, <1>16, <3>1 DEF Creating
    <3>3. k = 0
      BY <3>2
    <3> QED  BY <3>1, <3>3
  <2>2. Count(Q, WrongResponses(r.size, a0)) = 0
    <3>1. PICK S : S = WrongResponses(r.size, a0)
      OBVIOUS
    <3>2. S \subseteq OfType("BUFFER_RESPONSE")
      BY <3>1 DEF WrongResponses
    <3>3. Count(Q, S) <= Count(Q, OfType("BUFFER_RESPONSE")) /\ Count(Q, S) \in Nat
      BY <3>2, CountFewer, CountType DEF AnyMessages
    <3>4. Count(Q, OfType("BUFFER_RESPONSE")) = 0
      BY <1>11, <2>1 DEF Responses
    <3> QED  BY <3>1, <3>3, <3>4
  <2>3. rb'.addr = a0 /\ rb'.size = r.size /\ tb'.size = r.size
    BY <1>4, <1>5, <1>23
  <2>4. Count(Pipe'["dst"], WrongResponses(tb'.size, rb'.addr)) = 0
    BY <1>11, <1>13, <2>2, <2>3
  <2>5. Count(Pipe'["src"], Strays(tb'.size)) = 0
    BY <1>4, <1>11, <1>23
  <2> QED  BY <2>3, <2>4, <2>5 DEF Agreed
<1>25. Holding'
  BY <1>4, <1>10, <1>17 DEF Holding
<1>26. Unharmed'
  BY <1>2, <1>4, UnharmedKept
<1> QED  BY <1>20, <1>21, <1>22, <1>24, <1>25, <1>26 DEF Own

-----------------------------------------------------------------------------
(* Process_CQ of the source.                                               *)

LEMMA SourceHandles ==
    ASSUME IInv, IInv', Receive("src", "message"), SendAck("src"), rx' = rx, sent' = sent, pool' = pool
    PROVE  /\ More(Pipe["dst"], Pipe'["dst"], rx["src"]) /\ rx["src"] \in Message \cup {NoMessage}
           /\ Pipe["dst"] \in AnyMessages /\ Pipe'["dst"] \in AnyMessages
           /\ AskedKept /\ WritesKept /\ Arrived' = Arrived
<1>1. ChannelOK /\ OneInFlight /\ Numbers /\ Numbers'
  BY NumbersNow, NumbersNext DEF IInv
<1>2. Pipe'["src"] = Pipe["src"] /\ Pipe["dst"] = <<rx["src"]>> \o Pipe'["dst"]
  BY <1>1, TakeStep, TwoNames
<1>3. PICK r \in Message \cup {NoMessage}, P \in AnyMessages, Q \in AnyMessages :
        r = rx["src"] /\ P = Pipe["dst"] /\ Q = Pipe'["dst"]
  BY <1>1, TwoNames DEF ChannelOK, Numbers, AnyMessages
<1>4. More(P, Q, r)
  <2>1. P = <<r>> \o Q /\ Q \in Seq(Message \cup {NoMessage})
    BY <1>2, <1>3 DEF AnyMessages
  <2> QED  BY <2>1, MoreCons
<1>5. AskedKept
  BY <1>2, MessagesKept
<1>6. WritesKept
  BY <1>1, SendAckNoTensor, TwoNames, WritesAreKept
<1>7. Arrived' = Arrived
  BY <1>1, ArrivedTail, TwoNames
<1> QED  BY <1>3, <1>4, <1>5, <1>6, <1>7

LEMMA HandleTensorRequestOwn ==
    ASSUME Own, IInv, IInv', HandleTensorRequest
    PROVE  Own'
<1>1. TensorOK /\ Numbers /\ Numbers'
  BY NumbersNow, NumbersNext DEF IInv
<1>2. RemoteToken /\ KeyToken /\ Remote /\ Fitting /\ Agreed /\ Holding /\ Unharmed
  BY DEF Own
<1>3. /\ More(Pipe["dst"], Pipe'["dst"], rx["src"]) /\ rx["src"] \in Message \cup {NoMessage}
      /\ Pipe["dst"] \in AnyMessages /\ Pipe'["dst"] \in AnyMessages
      /\ AskedKept /\ WritesKept /\ Arrived' = Arrived
  BY SourceHandles DEF HandleTensorRequest, ReceiveMessage
<1>4. PICK r \in Steps : rx["src"] = TensorRequest(r) /\ r = rx["src"].step
  BY <1>3, TypesOfMessages DEF HandleTensorRequest, ReceiveMessage
<1>5. PICK P \in AnyMessages, Q \in AnyMessages : P = Pipe["dst"] /\ Q = Pipe'["dst"]
  BY <1>3
<1>6. /\ Idles' = Idles /\ Responses' = Responses /\ Others(P, Q)
      /\ Requests(r) = Requests(r)' + 1
      /\ \A s \in Steps : s # r => Requests(s)' = Requests(s)
  <2>1. More(P, Q, TensorRequest(r))
    BY <1>3, <1>4, <1>5
  <2> QED  BY <1>5, <2>1, MoreRequest DEF Idles, Responses, Requests
<1>7. /\ tb'.q = Append(tb.q, r) /\ tb.q \in Seq(Steps)
      /\ tb'.remote = tb.remote /\ tb'.local = tb.local /\ tb'.addr = tb.addr /\ tb'.size = tb.size
  <2>1. tb' = [tb EXCEPT !.q = Append(tb.q, r)]
    BY <1>4 DEF HandleTensorRequest, EnqueueItem
  <2> QED  BY <1>1, <2>1 DEF TensorOK
<1>8. UNCHANGED <<size, requested, fatal, sending, response, rb, recvDone, callbacks, got>>
  BY DEF HandleTensorRequest, dstVars
<1>9. ThreadsKept /\ BufferKept
  BY <1>3, <1>8, SendingKept, TensorsKept
<1>10. RemoteToken' /\ Remote'
  <2>1. InUse' = InUse /\ Creating' = Creating /\ InUse \in Nat /\ Creating \in Nat
    BY <1>1, <1>3, <1>6, <1>9
       DEF InUse, Creating, WritesKept, AskedKept, ThreadsKept, BufferKept, Numbers
  <2> QED  BY <1>1, <1>2, <1>7, <1>8, <2>1, RemoteKept
<1>11. KeyToken'
  <2> SUFFICES ASSUME NEW s \in Steps PROVE Keys(s)' <= Keys(s)
    BY <1>1, <1>2, <1>8, KeysKept
  <2>1. /\ HeldBy(s)' = HeldBy(s) /\ OnWireOf(s)' = OnWireOf(s)
        /\ InBuffer(s)' = InBuffer(s) /\ recvDone'[s] = recvDone[s]
    BY <1>3, <1>9 DEF WritesKept, ThreadsKept, BufferKept
  <2>2. Queued(s)' = Queued(s) + OneIf(s = r)
    <3>1. PICK q \in Seq(Steps) : q = tb.q
      BY <1>7
    <3>2. Count(Append(q, r), {s}) = Count(q, {s}) + OneIf(r \in {s})
      BY CountAppend
    <3>3. OneIf(r \in {s}) = OneIf(s = r)
      BY DEF OneIf
    <3> QED  BY <1>7, <3>1, <3>2, <3>3 DEF Queued
  <2>3. Requests(s) = Requests(s)' + OneIf(s = r)
    <3>1. Requests(s)' \in Nat
      BY <1>1 DEF Numbers
    <3> QED  BY <1>6, <3>1 DEF OneIf
  <2>4. PICK a \in Nat, b \in Nat, c \in Nat, d \in Nat, x \in Nat, y \in Nat, z \in Nat :
          /\ a = Requests(s)' /\ b = Queued(s) /\ c = HeldBy(s) /\ d = OnWireOf(s)
          /\ x = InBuffer(s) /\ y = recvDone[s] /\ z = OneIf(s = r)
    BY <1>1 DEF Numbers, OneIf
  <2>5. Keys(s) = (a + z) + b + c + d + x + y
    BY <2>3, <2>4 DEF Keys
  <2>6. Keys(s)' = a + (b + z) + c + d + x + y
    BY <2>1, <2>2, <2>4 DEF Keys
  <2> QED  BY <2>5, <2>6
<1>12. Fitting'
  BY <1>2, <1>3, <1>7, <1>8, FittingKept
<1>13. Agreed'
  BY <1>2, <1>3, <1>5, <1>6, <1>7, <1>8 DEF Agreed, AskedKept, Others
<1>14. Holding' /\ Unharmed'
  BY <1>2, <1>8, <1>9, HoldingKept, UnharmedKept
<1> QED  BY <1>10, <1>11, <1>12, <1>13, <1>14 DEF Own

\* The source may use the destination's buffer from now on.
LEMMA RemoteIdle ==
    ASSUME Remote, InUse' = 0, Creating' = 0, tb'.remote = "idle", tb'.local = tb.local,
           tb.local # "none", tb'.addr = rb'.addr, tb'.size = rb'.size
    PROVE  RemoteToken' /\ Remote'
<1>1. OneIf(tb'.remote = "idle") = 1 /\ OneIf(tb'.local # "none") = 1
  BY DEF OneIf
<1>2. RemoteToken'
  BY <1>1 DEF RemoteToken
<1>3. Remote'
  BY DEF Remote
<1> QED  BY <1>2, <1>3

LEMMA HandleBufferIdleOwn ==
    ASSUME Own, IInv, IInv', HandleBufferIdle
    PROVE  Own'
<1>1. TensorOK /\ Numbers /\ Numbers'
  BY NumbersNow, NumbersNext DEF IInv
<1>2. RemoteToken /\ KeyToken /\ Remote /\ Fitting /\ Agreed /\ Holding /\ Unharmed
  BY DEF Own
<1>3. /\ More(Pipe["dst"], Pipe'["dst"], rx["src"]) /\ rx["src"] \in Message \cup {NoMessage}
      /\ Pipe["dst"] \in AnyMessages /\ Pipe'["dst"] \in AnyMessages
      /\ AskedKept /\ WritesKept /\ Arrived' = Arrived
  BY SourceHandles DEF HandleBufferIdle, ReceiveMessage
<1>4. rx["src"] = BufferIdle
  BY <1>3, TypesOfMessages DEF HandleBufferIdle, ReceiveMessage
<1>5. PICK P \in AnyMessages, Q \in AnyMessages : P = Pipe["dst"] /\ Q = Pipe'["dst"]
  BY <1>3
<1>6. /\ Idles = Idles' + 1 /\ Responses' = Responses /\ Others(P, Q)
      /\ \A s \in Steps : Requests(s)' = Requests(s)
  <2>1. More(P, Q, BufferIdle)
    BY <1>3, <1>4, <1>5
  <2> QED  BY <1>5, <2>1, MoreIdle DEF Idles, Responses, Requests
<1>7. /\ tb'.q = tb.q /\ tb'.remote = "idle" /\ tb'.local = tb.local
      /\ tb'.addr = tb.addr /\ tb'.size = tb.size
  BY <1>1 DEF HandleBufferIdle, TensorOK
<1>8. UNCHANGED <<size, requested, fatal, sending, response, rb, recvDone, callbacks, got>>
  BY DEF HandleBufferIdle, dstVars
<1>9. ThreadsKept /\ BufferKept
  BY <1>3, <1>8, SendingKept, TensorsKept
<1>10. PICK i \in Nat, j \in Nat, k \in Nat, l \in Nat, n \in Nat :
          i = Writers /\ j = OnWire /\ k = Arrived /\ l = Scheduled /\ n = Idles'
  BY <1>1 DEF Numbers
<1>11. InUse = i + j + k + l + (n + 1) /\ InUse' = i + j + k + l + n
  BY <1>3, <1>6, <1>9, <1>10 DEF InUse, WritesKept, ThreadsKept, BufferKept
<1>12. InUse > 0
  BY <1>11
<1>13. InUse = 1 /\ Creating = 0 /\ tb.local # "none" /\ tb.remote # "none"
  BY <1>1, <1>2, <1>12, OneUser DEF Remote
<1>14. InUse' = 0
  BY <1>11, <1>13
<1>15. Creating' = 0
  BY <1>3, <1>6, <1>9, <1>13 DEF Creating, AskedKept, ThreadsKept
<1>16. RemoteToken' /\ Remote'
  BY <1>2, <1>7, <1>8, <1>13, <1>14, <1>15, RemoteIdle DEF Remote
<1>17. KeyToken'
  <2> SUFFICES ASSUME NEW s \in Steps PROVE Keys(s)' <= Keys(s)
    BY <1>1, <1>2, <1>8, KeysKept
  <2>1. Keys(s)' = Keys(s)
    BY <1>3, <1>6, <1>7, <1>9 DEF Keys, Queued, WritesKept, ThreadsKept, BufferKept
  <2>2. Keys(s) \in Nat
    BY <1>1 DEF Numbers
  <2> QED  BY <2>1, <2>2
<1>18. Fitting'
  BY <1>2, <1>3, <1>7, <1>8, FittingKept
<1>19. Agreed'
  BY <1>2, <1>3, <1>5, <1>6, <1>7, <1>8 DEF Agreed, AskedKept, Others
<1>20. Holding' /\ Unharmed'
  BY <1>2, <1>8, <1>9, HoldingKept, UnharmedKept
<1> QED  BY <1>16, <1>17, <1>18, <1>19, <1>20 DEF Own

LEMMA HandleBufferResponseOwn ==
    ASSUME Own, IInv, IInv', HandleBufferResponse
    PROVE  Own'
<1>1. TensorOK /\ Numbers /\ Numbers'
  BY NumbersNow, NumbersNext DEF IInv
<1>2. RemoteToken /\ KeyToken /\ Remote /\ Fitting /\ Agreed /\ Holding /\ Unharmed
  BY DEF Own
<1>3. /\ More(Pipe["dst"], Pipe'["dst"], rx["src"]) /\ rx["src"] \in Message \cup {NoMessage}
      /\ Pipe["dst"] \in AnyMessages /\ Pipe'["dst"] \in AnyMessages
      /\ AskedKept /\ WritesKept /\ Arrived' = Arrived
  BY SourceHandles DEF HandleBufferResponse, ReceiveMessage
<1>4. PICK n0 \in Sizes, a0 \in Addrs :
        rx["src"] = BufferResponse(n0, a0) /\ rx["src"].size = n0 /\ rx["src"].addr = a0
  BY <1>3, TypesOfMessages DEF HandleBufferResponse, ReceiveMessage
<1>5. PICK P \in AnyMessages, Q \in AnyMessages : P = Pipe["dst"] /\ Q = Pipe'["dst"]
  BY <1>3
<1>6. /\ Idles' = Idles /\ Responses = Responses' + 1
      /\ Count(P, WrongResponses(n0, a0)) = Count(Q, WrongResponses(n0, a0))
      /\ \A n, a : BufferResponse(n0, a0) # BufferResponse(n, a) => Count(P, WrongResponses(n, a)) > 0
      /\ \A s \in Steps : Requests(s)' = Requests(s)
  <2>1. More(P, Q, BufferResponse(n0, a0))
    BY <1>3, <1>4, <1>5
  <2> QED  BY <1>5, <2>1, MoreResponse DEF Idles, Responses, Requests
<1>7. n0 = tb.size /\ a0 = rb.addr
  <2>1. Count(P, WrongResponses(tb.size, rb.addr)) = 0
    BY <1>2, <1>5 DEF Agreed
  <2>2. BufferResponse(n0, a0) = BufferResponse(tb.size, rb.addr)
    BY <1>6, <2>1
  <2> QED  BY <2>2 DEF BufferResponse
<1>8. /\ tb'.q = tb.q /\ tb'.remote = "idle" /\ tb'.local = tb.local
      /\ tb'.addr = rb.addr /\ tb'.size = tb.size
      /\ UNCHANGED <<size, requested, fatal, sending, rb, recvDone, callbacks, got>>
  <2>1. tb' = [tb EXCEPT !.addr = a0, !.remote = "idle"] /\ fatal' = fatal
    BY <1>4, <1>7 DEF HandleBufferResponse
  <2> QED  BY <1>1, <1>7, <2>1 DEF HandleBufferResponse, TensorOK, dstVars
<1>9. ThreadsKept /\ BufferKept
  BY <1>3, <1>8, SendingKept, TensorsKept
<1>10. PICK i \in Nat, j \in Nat, k \in Nat : i = Askers /\ j = Asked /\ k = Responses'
  BY <1>1 DEF Numbers
<1>11. Creating = i + j + (k + 1) /\ Creating' = i + j + k
  BY <1>3, <1>6, <1>9, <1>10 DEF Creating, AskedKept, ThreadsKept
<1>12. Creating > 0
  BY <1>11
<1>13. InUse = 0 /\ Creating = 1 /\ tb.local # "none"
  BY <1>1, <1>2, <1>12, OneUser
<1>14. Creating' = 0
  BY <1>11, <1>13
<1>15. InUse' = 0
  BY <1>3, <1>6, <1>9, <1>13 DEF InUse, WritesKept, ThreadsKept, BufferKept
<1>16. rb.size = tb.size
  <2>1. PICK x \in Nat : x = Responses'
    BY <1>10
  <2>2. Responses = x + 1
    BY <1>6, <2>1
  <2>3. Responses > 0
    BY <2>2
  <2> QED  BY <1>2, <2>3 DEF Agreed
<1>17. RemoteToken' /\ Remote'
  BY <1>2, <1>8, <1>13, <1>14, <1>15, <1>16, RemoteIdle
<1>18. KeyToken'
  <2> SUFFICES ASSUME NEW s \in Steps PROVE Keys(s)' <= Keys(s)
    BY <1>1, <1>2, <1>8, KeysKept
  <2>1. Keys(s)' = Keys(s)
    BY <1>3, <1>6, <1>8, <1>9 DEF Keys, Queued, WritesKept, ThreadsKept, BufferKept
  <2>2. Keys(s) \in Nat
    BY <1>1 DEF Numbers
  <2> QED  BY <2>1, <2>2
<1>19. Fitting'
  BY <1>2, <1>3, <1>8, FittingKept
<1>20. Agreed'
  BY <1>2, <1>3, <1>5, <1>6, <1>7, <1>8, <1>16 DEF Agreed, AskedKept
<1>21. Holding' /\ Unharmed'
  BY <1>2, <1>8, <1>9, HoldingKept, UnharmedKept
<1> QED  BY <1>17, <1>18, <1>19, <1>20, <1>21 DEF Own

LEMMA FinishBufferResponseOwn ==
    ASSUME Own, IInv, IInv', FinishBufferResponse
    PROVE  Own'
<1>1. ChannelOK /\ OneInFlight /\ TensorOK /\ Numbers /\ Numbers'
  BY NumbersNow, NumbersNext DEF IInv
<1>2. RemoteToken /\ KeyToken /\ Remote /\ Fitting /\ Agreed /\ Holding /\ Unharmed
  BY DEF Own
<1>3. Pipe'["src"] = Pipe["src"] /\ Pipe'["dst"] = Pipe["dst"]
  BY <1>1, ChannelAside DEF FinishBufferResponse
<1>4. UNCHANGED <<size, requested, fatal, sending, rb, recvDone, callbacks, got, wire, arrived>>
  BY DEF FinishBufferResponse, dstVars, chanVars
<1>5. response > 0 /\ tb.remote = "idle"
  BY <1>2 DEF FinishBufferResponse, Remote
<1>6. /\ tb'.q = tb.q /\ tb'.remote = "idle" /\ (tb'.local = tb.local \/ tb'.local = "idle")
      /\ tb'.addr = tb.addr /\ tb'.size = tb.size
  <2>1. tb' = [tb EXCEPT !.local = "idle"] \/ tb' = [tb EXCEPT !.remote = "idle"]
    BY DEF FinishBufferResponse
  <2> QED  BY <1>1, <1>5, <2>1 DEF TensorOK
<1>7. AnswersKept /\ AskedKept /\ ThreadsKept /\ WritesKept
  BY <1>3, <1>4, MessagesKept, SendingKept, WritesAreKept
<1>8. BufferKept
  <2>1. Arrived' = Arrived
    BY <1>4 DEF Arrived
  <2> QED  BY <1>4, <2>1, TensorsKept
<1>9. InUse' = InUse /\ Creating' = Creating /\ \A s \in Steps : Keys(s)' = Keys(s)
  BY <1>6, <1>7, <1>8, SumsKept DEF Creating, AskedKept, AnswersKept, ThreadsKept
<1>10. InUse \in Nat /\ Creating \in Nat /\ \A s \in Steps : Keys(s) \in Nat
  BY <1>1 DEF Numbers
<1>11. RemoteToken' /\ Remote'
  BY <1>1, <1>2, <1>4, <1>5, <1>6, <1>9, <1>10, RemoteKept
<1>12. KeyToken'
  BY <1>1, <1>2, <1>4, <1>9, <1>10, KeysKept
<1>13. Fitting'
  BY <1>2, <1>4, <1>6, <1>7, FittingKept
<1>14. Agreed' /\ Holding' /\ Unharmed'
  BY <1>2, <1>4, <1>6, <1>7, <1>8, AgreedKept, HoldingKept, UnharmedKept
<1> QED  BY <1>11, <1>12, <1>13, <1>14 DEF Own

-----------------------------------------------------------------------------
(* The threads of the source.                                              *)

Leaves(t) ==
    /\ Writers' = Writers - OneIf(t.at = "write")
    /\ Askers' = Askers - OneIf(t.at \in {"create", "ask"})
    /\ \A s \in Steps : HeldBy(s)' = HeldBy(s) - OneIf(t.step = s /\ t.at # "ask")

\* The threads that ask, and where a thread is counted.
LEMMA PartsOfThreads ==
    ASSUME NEW S \in SUBSET Thread
    PROVE  Asking(S) = S \cap [step : Steps, at : {"create", "ask"}]
  BY DEF Asking, Thread

LEMMA ThreadIsIn ==
    ASSUME NEW t \in Thread
    PROVE  /\ t \in [step : Steps, at : {"write"}] <=> t.at = "write"
           /\ t \in [step : Steps, at : {"create", "ask"}] <=> t.at \in {"create", "ask"}
           /\ \A s \in Steps : t \in [step : {s}, at : {"recv", "create", "write", "putback"}]
                                 <=> t.step = s /\ t.at # "ask"
  BY DEF Thread

\* A thread of S is done.
LEMMA ThreadLeaves ==
    ASSUME NEW S \in SUBSET Thread, IsFiniteSet(S), NEW t \in S
    PROVE  /\ Cardinality(Writing(S \ {t})) = Cardinality(Writing(S)) - OneIf(t.at = "write")
           /\ Cardinality(Asking(S \ {t})) = Cardinality(Asking(S)) - OneIf(t.at \in {"create", "ask"})
           /\ \A s \in Steps : Cardinality(Holders(S \ {t}, s))
                                 = Cardinality(Holders(S, s)) - OneIf(t.step = s /\ t.at # "ask")
<1>1. ASSUME NEW P
      PROVE  Cardinality((S \ {t}) \cap P) = Cardinality(S \cap P) - OneIf(t \in P)
  BY PartFacts
<1>2. t \in Thread /\ S \ {t} \in SUBSET Thread
  OBVIOUS
<1>3. Cardinality(Writing(S \ {t})) = Cardinality(Writing(S)) - OneIf(t.at = "write")
  <2>1. PICK P : P = [step : Steps, at : {"write"}]
    OBVIOUS
  <2>2. OneIf(t \in P) = OneIf(t.at = "write")
    BY <1>2, <2>1, ThreadIsIn DEF OneIf
  <2> QED  BY <1>1, <2>1, <2>2 DEF Writing
<1>4. Cardinality(Asking(S \ {t})) = Cardinality(Asking(S)) - OneIf(t.at \in {"create", "ask"})
  <2>1. PICK P : P = [step : Steps, at : {"create", "ask"}]
    OBVIOUS
  <2>2. OneIf(t \in P) = OneIf(t.at \in {"create", "ask"})
    BY <1>2, <2>1, ThreadIsIn DEF OneIf
  <2>3. Asking(S) = S \cap P /\ Asking(S \ {t}) = (S \ {t}) \cap P
    BY <1>2, <2>1, PartsOfThreads
  <2> QED  BY <1>1, <2>2, <2>3
<1>5. ASSUME NEW s \in Steps
      PROVE  Cardinality(Holders(S \ {t}, s)) = Cardinality(Holders(S, s)) - OneIf(t.step = s /\ t.at # "ask")
  <2>1. PICK P : P = [step : {s}, at : {"recv", "create", "write", "putback"}]
    OBVIOUS
  <2>2. OneIf(t \in P) = OneIf(t.step = s /\ t.at # "ask")
    BY <1>2, <2>1, ThreadIsIn DEF OneIf
  <2> QED  BY <1>1, <2>1, <2>2 DEF Holders
<1> QED  BY <1>3, <1>4, <1>5

\* A thread more than those of S.
LEMMA ThreadEnters ==
    ASSUME NEW S \in SUBSET Thread, IsFiniteSet(S), NEW u \in Thread
    PROVE  /\ Cardinality(Writing(S \cup {u})) <= Cardinality(Writing(S)) + OneIf(u.at = "write")
           /\ Cardinality(Asking(S \cup {u})) <= Cardinality(Asking(S)) + OneIf(u.at \in {"create", "ask"})
           /\ \A s \in Steps : Cardinality(Holders(S \cup {u}, s))
                                 <= Cardinality(Holders(S, s)) + OneIf(u.step = s /\ u.at # "ask")
<1>1. ASSUME NEW P
      PROVE  Cardinality((S \cup {u}) \cap P) <= Cardinality(S \cap P) + OneIf(u \in P)
  BY PartFacts
<1>2. S \cup {u} \in SUBSET Thread
  OBVIOUS
<1>3. Cardinality(Writing(S \cup {u})) <= Cardinality(Writing(S)) + OneIf(u.at = "write")
  <2>1. PICK P : P = [step : Steps, at : {"write"}]
    OBVIOUS
  <2>2. OneIf(u \in P) = OneIf(u.at = "write")
    BY <2>1, ThreadIsIn DEF OneIf
  <2> QED  BY <1>1, <2>1, <2>2 DEF Writing
<1>4. Cardinality(Asking(S \cup {u})) <= Cardinality(Asking(S)) + OneIf(u.at \in {"create", "ask"})
  <2>1. PICK P : P = [step : Steps, at : {"create", "ask"}]
    OBVIOUS
  <2>2. OneIf(u \in P) = OneIf(u.at \in {"create", "ask"})
    BY <2>1, ThreadIsIn DEF OneIf
  <2>3. Asking(S) = S \cap P /\ Asking(S \cup {u}) = (S \cup {u}) \cap P
    BY <1>2, <2>1, PartsOfThreads
  <2> QED  BY <1>1, <2>2, <2>3
<1>5. ASSUME NEW s \in Steps
      PROVE  Cardinality(Holders(S \cup {u}, s)) <= Cardinality(Holders(S, s)) + OneIf(u.step = s /\ u.at # "ask")
  <2>1. PICK P : P = [step : {s}, at : {"recv", "create", "write", "putback"}]
    OBVIOUS
  <2>2. OneIf(u \in P) = OneIf(u.step = s /\ u.at # "ask")
    BY <2>1, ThreadIsIn DEF OneIf
  <2> QED  BY <1>1, <2>1, <2>2 DEF Holders
<1> QED  BY <1>3, <1>4, <1>5

LEMMA Leaving ==
    ASSUME Numbers, NEW t \in sending, sending' = sending \ {t}
    PROVE  Leaves(t)
<1>1. sending \in SUBSET Thread /\ IsFiniteSet(sending)
  BY DEF Numbers
<1>2. PICK S \in SUBSET Thread : S = sending /\ IsFiniteSet(S)
  BY <1>1
<1>3. /\ Cardinality(Writing(S \ {t})) = Cardinality(Writing(S)) - OneIf(t.at = "write")
      /\ Cardinality(Asking(S \ {t})) = Cardinality(Asking(S)) - OneIf(t.at \in {"create", "ask"})
      /\ \A s \in Steps : Cardinality(Holders(S \ {t}, s))
                            = Cardinality(Holders(S, s)) - OneIf(t.step = s /\ t.at # "ask")
  BY <1>2, ThreadLeaves
<1> QED  BY <1>2, <1>3 DEF Leaves, Writers, Askers, HeldBy

\* A thread goes on: those who write, ask and hold keys are at most those of before and this.
Goes(t, at) ==
    /\ Writers' <= (Writers - OneIf(t.at = "write")) + OneIf(at = "write")
    /\ Askers' <= (Askers - OneIf(t.at \in {"create", "ask"})) + OneIf(at \in {"create", "ask"})
    /\ \A s \in Steps : HeldBy(s)' <= (HeldBy(s) - OneIf(t.step = s /\ t.at # "ask"))
                                        + OneIf(t.step = s /\ at # "ask")

LEMMA Going ==
    ASSUME Numbers, NEW t \in sending, NEW at \in {"create", "ask", "write", "putback"}, Move(t, at)
    PROVE  Goes(t, at) /\ \A v \in sending' \ sending : v.step = t.step /\ v.at = at
<1>1. PICK S \in SUBSET Thread : S = sending /\ IsFiniteSet(S) /\ IsFiniteSet(S \ {t}) /\ t \in S
  BY FS_RemoveElement DEF Numbers
<1>2. [t EXCEPT !.at = at] \in Thread /\ [t EXCEPT !.at = at].at = at /\ [t EXCEPT !.at = at].step = t.step
  BY <1>1 DEF Thread
<1>3. PICK u \in Thread : u = [t EXCEPT !.at = at] /\ u.at = at /\ u.step = t.step
  BY <1>2, Zenon
<1>4. PICK R \in SUBSET Thread : R = S \ {t} /\ IsFiniteSet(R)
  BY <1>1
<1>5. sending' = R \cup {u}
  BY <1>1, <1>3, <1>4 DEF Move
<1>6. /\ Cardinality(Writing(R)) = Cardinality(Writing(S)) - OneIf(t.at = "write")
      /\ Cardinality(Asking(R)) = Cardinality(Asking(S)) - OneIf(t.at \in {"create", "ask"})
      /\ \A s \in Steps : Cardinality(Holders(R, s)) = Cardinality(Holders(S, s)) - OneIf(t.step = s /\ t.at # "ask")
  BY <1>1, <1>4, ThreadLeaves
<1>7. /\ Cardinality(Writing(R \cup {u})) <= Cardinality(Writing(R)) + OneIf(u.at = "write")
      /\ Cardinality(Asking(R \cup {u})) <= Cardinality(Asking(R)) + OneIf(u.at \in {"create", "ask"})
      /\ \A s \in Steps : Cardinality(Holders(R \cup {u}, s))
                            <= Cardinality(Holders(R, s)) + OneIf(u.step = s /\ u.at # "ask")
  BY <1>4, ThreadEnters
<1>8. Goes(t, at)
  BY <1>1, <1>3, <1>5, <1>6, <1>7 DEF Goes, Writers, Askers, HeldBy
<1>9. \A v \in sending' \ sending : v.step = t.step /\ v.at = at
  BY <1>1, <1>3, <1>4, <1>5
<1> QED  BY <1>8, <1>9

\* Steps of the source that leave the channel and the buffers alone.
LEMMA QueueKeeps ==
    ASSUME Own, IInv, IInv', UNCHANGED <<size, requested, fatal, chanVars, response, dstVars>>,
           tb'.remote = tb.remote, tb'.local = tb.local, tb'.addr = tb.addr, tb'.size = tb.size,
           Writers' <= Writers, Askers' <= Askers,
           \A s \in Steps : Queued(s)' + HeldBy(s)' <= Queued(s) + HeldBy(s),
           \A t \in sending' \ sending : /\ t.at = "write" => size[t.step] <= tb.size
                                         /\ t.at \in {"create", "ask"} => size[t.step] = tb.size
    PROVE  Own'
<1>1. ChannelOK /\ OneInFlight /\ Numbers /\ Numbers'
  BY NumbersNow, NumbersNext DEF IInv
<1>2. RemoteToken /\ KeyToken /\ Remote /\ Fitting /\ Agreed /\ Holding /\ Unharmed
  BY DEF Own
<1>3. Pipe'["src"] = Pipe["src"] /\ Pipe'["dst"] = Pipe["dst"]
  BY <1>1, ChannelAside
<1>4. UNCHANGED <<rb, recvDone, callbacks, got, wire, arrived>>
  BY DEF chanVars, dstVars
<1>5. AnswersKept /\ AskedKept /\ WritesKept
  BY <1>3, <1>4, MessagesKept, WritesAreKept
<1>6. BufferKept
  <2>1. Arrived' = Arrived
    BY <1>4 DEF Arrived
  <2> QED  BY <1>4, <2>1, TensorsKept
<1>7. InUse' <= InUse
  <2>1. PICK i \in Nat, i1 \in Nat, j \in Nat, k \in Nat, l \in Nat, n \in Nat :
          i = Writers /\ i1 = Writers' /\ j = OnWire /\ k = Arrived /\ l = Scheduled /\ n = Idles
    BY <1>1 DEF Numbers
  <2>2. InUse = i + j + k + l + n /\ InUse' = i1 + j + k + l + n
    BY <1>5, <1>6, <2>1 DEF InUse, WritesKept, AnswersKept, BufferKept
  <2>3. i1 <= i
    BY <2>1
  <2> QED  BY <2>2, <2>3
<1>8. Creating' <= Creating
  <2>1. PICK i \in Nat, i1 \in Nat, j \in Nat, k \in Nat :
          i = Askers /\ i1 = Askers' /\ j = Asked /\ k = Responses
    BY <1>1 DEF Numbers
  <2>2. Creating = i + j + k /\ Creating' = i1 + j + k
    BY <1>5, <2>1 DEF Creating, AskedKept, AnswersKept
  <2>3. i1 <= i
    BY <2>1
  <2> QED  BY <2>2, <2>3
<1>9. RemoteToken' /\ Remote'
  BY <1>1, <1>2, <1>4, <1>7, <1>8, RemoteKept
<1>10. KeyToken'
  <2> SUFFICES ASSUME NEW s \in Steps PROVE Keys(s)' <= Keys(s)
    BY <1>1, <1>2, <1>4, KeysKept
  <2>1. PICK a \in Nat, b \in Nat, b1 \in Nat, c \in Nat, c1 \in Nat, d \in Nat, x \in Nat, y \in Nat :
          /\ a = Requests(s) /\ b = Queued(s) /\ b1 = Queued(s)' /\ c = HeldBy(s) /\ c1 = HeldBy(s)'
          /\ d = OnWireOf(s) /\ x = InBuffer(s) /\ y = recvDone[s]
    BY <1>1 DEF Numbers
  <2>2. Keys(s) = a + b + c + d + x + y
    BY <2>1 DEF Keys
  <2>3. Keys(s)' = a + b1 + c1 + d + x + y
    BY <1>5, <1>6, <2>1 DEF Keys, AnswersKept, WritesKept, BufferKept
  <2>4. b1 + c1 <= b + c
    BY <2>1
  <2> QED  BY <2>2, <2>3, <2>4
<1>11. Fitting'
  BY <1>2, <1>4, <1>5, FittingKept
<1>12. Agreed' /\ Holding' /\ Unharmed'
  BY <1>2, <1>4, <1>5, <1>6, AgreedKept, HoldingKept, UnharmedKept
<1> QED  BY <1>9, <1>10, <1>11, <1>12 DEF Own

LEMMA PopKeyOwn ==
    ASSUME Own, IInv, IInv', PopKey
    PROVE  Own'
<1>1. TensorOK /\ Numbers /\ Numbers'
  BY NumbersNow, NumbersNext DEF IInv
<1>2. UNCHANGED <<size, requested, fatal, chanVars, response, dstVars>>
  BY DEF PopKey
<1>3. CASE tb.q = << >>
  <2>1. tb' = tb /\ sending' = sending
    BY <1>3 DEF PopKey
  <2>2. Writers' = Writers /\ Askers' = Askers /\ \A s \in Steps : Queued(s)' = Queued(s) /\ HeldBy(s)' = HeldBy(s)
    BY <2>1 DEF Writers, Askers, Queued, HeldBy
  <2>3. Writers' <= Writers /\ Askers' <= Askers /\ \A s \in Steps : Queued(s)' + HeldBy(s)' <= Queued(s) + HeldBy(s)
    BY <1>1, <2>2, SMTT(30) DEF Numbers
  <2> QED  BY <1>2, <2>1, <2>3, QueueKeeps
<1>4. CASE tb.q # << >>
  <2>1. PICK q \in Seq(Steps) : q = tb.q /\ q # << >>
    BY <1>1, <1>4 DEF Numbers
  <2>2. Head(q) \in Steps
    BY <2>1
  <2>3. PICK r \in Steps : r = Head(q)
    BY <2>2
  <2>4. PICK u \in Thread : u = [step |-> r, at |-> "recv"] /\ u.step = r /\ u.at = "recv"
    <3>1. /\ [step |-> r, at |-> "recv"] \in Thread
          /\ [step |-> r, at |-> "recv"].step = r /\ [step |-> r, at |-> "recv"].at = "recv"
      BY DEF Thread
    <3> QED  BY <3>1, Zenon
  <2>5. sending' = sending \cup {u} /\ tb' = [tb EXCEPT !.q = Tail(q)]
    BY <1>4, <2>1, <2>3, <2>4 DEF PopKey
  <2>6. /\ tb'.q = Tail(q) /\ tb'.remote = tb.remote /\ tb'.local = tb.local
        /\ tb'.addr = tb.addr /\ tb'.size = tb.size
    BY <1>1, <2>5 DEF TensorOK
  <2>7. PICK S \in SUBSET Thread : S = sending /\ IsFiniteSet(S)
    BY <1>1 DEF Numbers
  <2>8. /\ Cardinality(Writing(S \cup {u})) <= Cardinality(Writing(S)) + OneIf(u.at = "write")
        /\ Cardinality(Asking(S \cup {u})) <= Cardinality(Asking(S)) + OneIf(u.at \in {"create", "ask"})
        /\ \A s \in Steps : Cardinality(Holders(S \cup {u}, s))
                              <= Cardinality(Holders(S, s)) + OneIf(u.step = s /\ u.at # "ask")
    BY <2>7, ThreadEnters
  <2>9. OneIf(u.at = "write") = 0 /\ OneIf(u.at \in {"create", "ask"}) = 0
    BY <2>4 DEF OneIf
  <2>10. /\ Writers' <= Writers + 0 /\ Askers' <= Askers + 0
         /\ \A s \in Steps : HeldBy(s)' <= HeldBy(s) + OneIf(u.step = s /\ u.at # "ask")
    BY <2>5, <2>7, <2>8, <2>9 DEF Writers, Askers, HeldBy
  <2>11. Writers' <= Writers /\ Askers' <= Askers
    BY <1>1, <2>10 DEF Numbers
  <2>12. ASSUME NEW s \in Steps PROVE Queued(s)' + HeldBy(s)' <= Queued(s) + HeldBy(s)
    <3>1. Count(q, {s}) = OneIf(r \in {s}) + Count(Tail(q), {s})
      BY <2>1, <2>3, CountTail
    <3>2. OneIf(r \in {s}) = OneIf(u.step = s /\ u.at # "ask")
      BY <2>4 DEF OneIf
    <3>3. PICK b \in Nat, b1 \in Nat, c \in Nat, c1 \in Nat, z \in Nat :
            /\ b = Queued(s) /\ b1 = Queued(s)' /\ c = HeldBy(s) /\ c1 = HeldBy(s)'
            /\ z = OneIf(u.step = s /\ u.at # "ask")
      BY <1>1 DEF Numbers, OneIf
    <3>4. b = z + b1
      BY <2>1, <2>6, <3>1, <3>2, <3>3 DEF Queued
    <3>5. c1 <= c + z
      BY <2>10, <3>3
    <3>6. b1 + c1 <= b + c
      BY <3>4, <3>5
    <3> QED  BY <3>3, <3>6
  <2>13. \A t \in sending' \ sending : t.at = "recv"
    BY <2>4, <2>5
  <2> QED  BY <1>2, <2>6, <2>11, <2>12, <2>13, QueueKeeps
<1> QED  BY <1>3, <1>4

LEMMA PutBackKeyOwn ==
    ASSUME Own, IInv, IInv', NEW t \in sending, PutBackKey(t)
    PROVE  Own'
<1>1. TensorOK /\ Numbers /\ Numbers'
  BY NumbersNow, NumbersNext DEF IInv
<1>2. UNCHANGED <<size, requested, fatal, chanVars, response, dstVars>>
  BY DEF PutBackKey
<1>3. PICK r \in Steps : r = t.step
  BY <1>1 DEF TensorOK, Thread
<1>4. PICK q \in Seq(Steps) : q = tb.q
  BY <1>1 DEF Numbers
<1>5. /\ tb'.q = Append(q, r) /\ tb'.remote = tb.remote /\ tb'.local = tb.local
      /\ tb'.addr = tb.addr /\ tb'.size = tb.size
  <2>1. tb' = [tb EXCEPT !.q = Append(q, r)]
    BY <1>3, <1>4 DEF PutBackKey, EnqueueItem
  <2> QED  BY <1>1, <2>1 DEF TensorOK
<1>6. t.at \in {"create", "putback"}
  BY DEF PutBackKey
<1>7. /\ Writers' <= Writers /\ Askers' <= Askers
      /\ \A s \in Steps : HeldBy(s)' <= HeldBy(s) - OneIf(r = s)
      /\ \A v \in sending' \ sending : v.step = r /\ v.at = "ask" /\ t.at = "create"
  <2>1. ASSUME NEW s \in Steps PROVE OneIf(t.step = s /\ t.at # "ask") = OneIf(r = s)
    BY <1>3, <1>6 DEF OneIf
  <2>2. PICK w \in Nat, w1 \in Nat, k \in Nat, k1 \in Nat :
          w = Writers /\ w1 = Writers' /\ k = Askers /\ k1 = Askers'
    BY <1>1 DEF Numbers
  <2>3. CASE t.at = "create"
    <3>1. Goes(t, "ask") /\ \A v \in sending' \ sending : v.step = t.step /\ v.at = "ask"
      BY <1>1, <2>3, Going DEF PutBackKey
    <3>2. /\ OneIf(t.at = "write") = 0 /\ OneIf("ask" = "write") = 0
          /\ OneIf(t.at \in {"create", "ask"}) = 1 /\ OneIf("ask" \in {"create", "ask"}) = 1
          /\ \A s \in Steps : OneIf(t.step = s /\ "ask" # "ask") = 0
      BY <2>3 DEF OneIf
    <3>3. w1 <= (w - 0) + 0 /\ k1 <= (k - 1) + 1
      BY <2>2, <3>1, <3>2 DEF Goes
    <3>4. w1 <= w /\ k1 <= k
      BY <3>3
    <3>5. ASSUME NEW s \in Steps PROVE HeldBy(s)' <= HeldBy(s) - OneIf(r = s)
      <4>1. HeldBy(s)' <= (HeldBy(s) - OneIf(r = s)) + 0
        BY <2>1, <3>1, <3>2 DEF Goes
      <4>2. HeldBy(s) \in Nat /\ OneIf(r = s) \in Nat
        BY <1>1 DEF Numbers, OneIf
      <4> QED  BY <4>1, <4>2
    <3> QED  BY <1>3, <2>2, <2>3, <3>1, <3>4, <3>5
  <2>4. CASE t.at # "create"
    <3>1. sending' = sending \ {t}
      BY <2>4 DEF PutBackKey
    <3>2. Leaves(t)
      BY <1>1, <3>1, Leaving
    <3>3. OneIf(t.at = "write") = 0 /\ OneIf(t.at \in {"create", "ask"}) = 0
      BY <1>6, <2>4 DEF OneIf
    <3>4. w1 = w - 0 /\ k1 = k - 0
      BY <2>2, <3>2, <3>3 DEF Leaves
    <3>5. w1 <= w /\ k1 <= k
      BY <3>4
    <3>6. ASSUME NEW s \in Steps PROVE HeldBy(s)' <= HeldBy(s) - OneIf(r = s)
      <4>1. HeldBy(s)' = HeldBy(s) - OneIf(r = s)
        BY <2>1, <3>2 DEF Leaves
      <4>2. HeldBy(s) \in Nat /\ OneIf(r = s) \in Nat
        BY <1>1 DEF Numbers, OneIf
      <4> QED  BY <4>1, <4>2
    <3> QED  BY <2>2, <3>1, <3>5, <3>6
  <2> QED  BY <2>3, <2>4
<1>8. ASSUME NEW s \in Steps PROVE Queued(s)' + HeldBy(s)' <= Queued(s) + HeldBy(s)
  <2>1. Count(Append(q, r), {s}) = Count(q, {s}) + OneIf(r \in {s})
    BY CountAppend
  <2>2. OneIf(r \in {s}) = OneIf(r = s)
    BY DEF OneIf
  <2>3. PICK b \in Nat, b1 \in Nat, c \in Nat, c1 \in Nat, z \in Nat :
          b = Queued(s) /\ b1 = Queued(s)' /\ c = HeldBy(s) /\ c1 = HeldBy(s)' /\ z = OneIf(r = s)
    BY <1>1 DEF Numbers, OneIf
  <2>4. b1 = b + z
    BY <1>4, <1>5, <2>1, <2>2, <2>3 DEF Queued
  <2>5. c1 <= c - z
    BY <1>7, <2>3
  <2>6. b1 + c1 <= b + c
    BY <2>4, <2>5
  <2> QED  BY <2>3, <2>6
<1>9. \A v \in sending' \ sending : /\ v.at = "write" => size[v.step] <= tb.size
                                    /\ v.at \in {"create", "ask"} => size[v.step] = tb.size
  <2>1. t.at = "create" => size[r] = tb.size
    BY <1>3 DEF Own, Fitting
  <2> QED  BY <1>7, <2>1
<1> QED  BY <1>2, <1>5, <1>7, <1>8, <1>9, QueueKeeps

LEMMA SizeOrNone ==
    ASSUME NEW n \in Sizes \cup {None}
    PROVE  n \in Nat
<1>1. CASE n \in Sizes
  BY <1>1, SizesAreNumbers
<1>2. CASE n = None
  BY <1>2 DEF None
<1> QED  BY <1>1, <1>2

LEMMA RequestBufferOwn ==
    ASSUME Own, IInv, IInv', NEW t \in sending, RequestBuffer(t)
    PROVE  Own'
<1>1. ChannelOK /\ OneInFlight /\ TensorOK /\ Numbers /\ Numbers'
  BY NumbersNow, NumbersNext DEF IInv
<1>2. RemoteToken /\ KeyToken /\ Remote /\ Fitting /\ Agreed /\ Holding /\ Unharmed
  BY DEF Own
<1>3. t.step \in Steps /\ t.at = "ask" /\ size[t.step] = tb.size /\ size[t.step] \in Sizes
  BY <1>1, <1>2, SizeFacts DEF TensorOK, Thread, RequestBuffer, Fitting
<1>4. PICK m \in Message : m = BufferRequest(tb.size)
  BY <1>3, MessagesAre
<1>5. Transmit("src", <<m>>, << >>) /\ Kept /\ pool' = pool
  BY <1>3, <1>4 DEF RequestBuffer, Kept
<1>6. Pipe'["src"] = Append(Pipe["src"], m) /\ Pipe'["dst"] = Pipe["dst"]
      /\ Len(Pipe'["src"]) = Len(Pipe["src"]) + 1
  BY <1>1, <1>5, EnqueueStep, TwoNames
<1>7. /\ UNCHANGED <<size, requested, fatal, arrived, tb, response, rb, recvDone, callbacks, got>>
      /\ sending' = sending \ {t}
  BY DEF RequestBuffer, dstVars
<1>8. WritesKept /\ AnswersKept
  BY <1>1, <1>5, <1>6, TransmitNoTensor, TwoNames, WritesAreKept, MessagesKept
<1>9. BufferKept
  <2>1. Arrived' = Arrived
    BY <1>7 DEF Arrived
  <2> QED  BY <1>7, <2>1, TensorsKept
<1>10. Leaves(t)
  BY <1>1, <1>7, Leaving
<1>11. /\ Writers' = Writers /\ Askers' = Askers - 1 /\ \A s \in Steps : HeldBy(s)' = HeldBy(s)
  <2>1. /\ OneIf(t.at = "write") = 0 /\ OneIf(t.at \in {"create", "ask"}) = 1
        /\ \A s \in Steps : OneIf(t.step = s /\ t.at # "ask") = 0
    BY <1>3 DEF OneIf
  <2>2. Writers' = Writers - 0 /\ Askers' = Askers - 1 /\ \A s \in Steps : HeldBy(s)' = HeldBy(s) - 0
    BY <1>10, <2>1 DEF Leaves
  <2> QED  BY <1>1, <2>2 DEF Numbers
<1>12. InUse' = InUse /\ \A s \in Steps : Keys(s)' = Keys(s)
  BY <1>7, <1>8, <1>9, <1>11 DEF InUse, Keys, Queued, WritesKept, AnswersKept, BufferKept
<1>13. Creating' = Creating
  <2>1. PICK i \in Nat, j \in Nat, k \in Nat : i = Askers /\ j = Asked /\ k = Responses
    BY <1>1 DEF Numbers
  <2>2. Creating = i + j + k /\ Creating' = (i - 1) + (j + 1) + k
    BY <1>6, <1>8, <1>11, <2>1 DEF Creating, Asked, AnswersKept
  <2> QED  BY <2>2
<1>14. InUse \in Nat /\ Creating \in Nat /\ \A s \in Steps : Keys(s) \in Nat
  BY <1>1 DEF Numbers
<1>15. RemoteToken' /\ Remote'
  BY <1>1, <1>2, <1>7, <1>12, <1>13, <1>14, RemoteKept
<1>16. KeyToken'
  BY <1>1, <1>2, <1>7, <1>12, <1>14, KeysKept
<1>17. Fitting'
  BY <1>2, <1>7, <1>8, FittingKept
<1>18. Agreed'
  <2>1. PICK P \in AnyMessages, Q \in AnyMessages : P = Pipe'["src"] /\ Q = Pipe["src"]
    BY <1>1 DEF Numbers, AnyMessages
  <2>2. More(P, Q, m)
    <3>1. P = Append(Q, m) /\ Q \in Seq(Message \cup {NoMessage}) /\ m \in Message \cup {NoMessage}
      BY <1>6, <2>1 DEF AnyMessages
    <3> QED  BY <3>1, MoreAppend
  <2>3. PICK S : S = Strays(tb.size)
    OBVIOUS
  <2>4. m \notin S
    BY <1>4, <2>3 DEF Strays
  <2>5. Count(P, S) = Count(Q, S)
    BY <2>2, <2>4, MoreOrNot
  <2>6. Count(Pipe'["src"], Strays(tb'.size)) = 0
    BY <1>2, <1>7, <2>1, <2>3, <2>5 DEF Agreed
  <2> QED  BY <1>2, <1>7, <1>8, <2>6 DEF Agreed, AnswersKept
<1>19. Holding' /\ Unharmed'
  BY <1>2, <1>7, <1>9, HoldingKept, UnharmedKept
<1> QED  BY <1>15, <1>16, <1>17, <1>18, <1>19 DEF Own

LEMMA WriteTensorOwn ==
    ASSUME Own, IInv, IInv', NEW t \in sending, WriteTensor(t)
    PROVE  Own'
<1>1. ChannelOK /\ OneInFlight /\ TensorOK /\ Numbers /\ Numbers'
  BY NumbersNow, NumbersNext DEF IInv
<1>2. RemoteToken /\ KeyToken /\ Remote /\ Fitting /\ Agreed /\ Holding /\ Unharmed
  BY DEF Own
<1>3. /\ t.step \in Steps /\ t.at = "write" /\ size[t.step] <= tb.size /\ size[t.step] \in Sizes
      /\ tb.addr \in Addrs \cup {None}
  BY <1>1, <1>2, SizeFacts DEF TensorOK, Thread, WriteTensor, Fitting
<1>4. PICK r \in Steps : r = t.step
  BY <1>3
<1>5. PICK x \in Write : /\ x = TensorWrite(r, size[r], tb.addr) /\ x.to = "tensor" /\ x \in TensorWrites
                         /\ x.step = r /\ x.size = size[r] /\ x.addr = tb.addr
  <2>1. PICK n \in Sizes, a \in Addrs \cup {None} : n = size[r] /\ a = tb.addr
    BY <1>3, <1>4
  <2>2. /\ TensorWrite(r, n, a) \in Write /\ TensorWrite(r, n, a).to = "tensor"
        /\ TensorWrite(r, n, a) \in TensorWrites /\ TensorWrite(r, n, a).step = r
        /\ TensorWrite(r, n, a).size = n /\ TensorWrite(r, n, a).addr = a
    BY DEF TensorWrite, Write, TensorWrites
  <2> QED  BY <2>1, <2>2, Zenon
<1>6. wire' = [wire EXCEPT !["src"] = Append(@, x)] /\ mb' = mb /\ Kept /\ pool' = pool
  BY <1>4, <1>5 DEF WriteTensor, Kept
<1>7. Pipe'["src"] = Pipe["src"] /\ Pipe'["dst"] = Pipe["dst"]
  BY <1>1, <1>5, <1>6, PostStep, TwoNames
<1>8. /\ UNCHANGED <<size, requested, fatal, arrived, tb, response, rb, recvDone, callbacks, got>>
      /\ sending' = sending \ {t}
  BY DEF WriteTensor, dstVars
<1>9. AskedKept /\ AnswersKept
  BY <1>7, MessagesKept
<1>10. BufferKept
  <2>1. Arrived' = Arrived
    BY <1>8 DEF Arrived
  <2> QED  BY <1>8, <2>1, TensorsKept
<1>11. /\ Writers' = Writers - 1 /\ Askers' = Askers
       /\ \A s \in Steps : HeldBy(s)' = HeldBy(s) - OneIf(r = s)
  <2>1. Leaves(t)
    BY <1>1, <1>8, Leaving
  <2>2. /\ OneIf(t.at = "write") = 1 /\ OneIf(t.at \in {"create", "ask"}) = 0
        /\ \A s \in Steps : OneIf(t.step = s /\ t.at # "ask") = OneIf(r = s)
    BY <1>3, <1>4 DEF OneIf
  <2>3. /\ Writers' = Writers - 1 /\ Askers' = Askers - 0
        /\ \A s \in Steps : HeldBy(s)' = HeldBy(s) - OneIf(r = s)
    BY <2>1, <2>2 DEF Leaves
  <2> QED  BY <1>1, <2>3 DEF Numbers
<1>12. PICK w \in Seq(Write) : w = wire["src"]
  BY <1>1 DEF Numbers
<1>13. wire'["src"] = Append(w, x) /\ wire'["dst"] = wire["dst"]
  BY <1>1, <1>6, <1>12, TwoNames DEF ChannelOK
<1>14. ASSUME NEW S PROVE Count(wire'["src"], S) = Count(wire["src"], S) + OneIf(x \in S)
  BY <1>12, <1>13, CountAppend
<1>15. /\ OnWire' = OnWire + 1
       /\ \A s \in Steps : OnWireOf(s)' = OnWireOf(s) + OneIf(r = s)
  <2>1. OneIf(x \in TensorWrites) = 1 /\ \A s \in Steps : OneIf(x \in WritesOf(s)) = OneIf(r = s)
    BY <1>5 DEF OneIf, WritesOf
  <2> QED  BY <1>14, <2>1 DEF OnWire, OnWireOf
<1>16. PICK i \in Nat, j \in Nat, k \in Nat, l \in Nat, n \in Nat :
         i = Writers /\ j = OnWire /\ k = Arrived /\ l = Scheduled /\ n = Idles
  BY <1>1 DEF Numbers
<1>17. i > 0
  <2>1. Writers' \in Nat
    BY <1>1 DEF Numbers
  <2> QED  BY <1>11, <1>16, <2>1
<1>18. InUse = i + j + k + l + n /\ InUse' = (i - 1) + (j + 1) + k + l + n
  BY <1>9, <1>10, <1>11, <1>15, <1>16 DEF InUse, AnswersKept, BufferKept
<1>19. InUse' = InUse /\ InUse > 0 /\ InUse \in Nat
  BY <1>17, <1>18
<1>20. Creating' = Creating /\ Creating \in Nat
  BY <1>1, <1>9, <1>11 DEF Creating, AskedKept, AnswersKept, Numbers
<1>21. RemoteToken' /\ Remote'
  BY <1>1, <1>2, <1>8, <1>19, <1>20, RemoteKept
<1>22. tb.addr = rb.addr /\ tb.size = rb.size
  BY <1>2, <1>19 DEF Remote
<1>23. KeyToken'
  <2> SUFFICES ASSUME NEW s \in Steps PROVE Keys(s)' <= Keys(s)
    BY <1>1, <1>2, <1>8, KeysKept
  <2>1. PICK a \in Nat, b \in Nat, c \in Nat, d \in Nat, y \in Nat, z \in Nat, o \in Nat :
          /\ a = Requests(s) /\ b = Queued(s) /\ c = HeldBy(s) /\ d = OnWireOf(s)
          /\ y = InBuffer(s) /\ z = recvDone[s] /\ o = OneIf(r = s)
    BY <1>1 DEF Numbers, OneIf
  <2>2. Queued(s)' = b
    BY <1>8, <2>1 DEF Queued
  <2>3. Keys(s) = a + b + c + d + y + z /\ Keys(s)' = a + b + (c - o) + (d + o) + y + z
    BY <1>9, <1>10, <1>11, <1>15, <2>1, <2>2 DEF Keys, AnswersKept, BufferKept
  <2> QED  BY <2>3
<1>24. Fitting'
  <2>1. Misfits(rb') = Misfits(rb)
    BY <1>8
  <2>2. x \notin Misfits(rb)
    <3>1. x.addr = rb.addr /\ x.size <= rb.size
      BY <1>3, <1>4, <1>5, <1>22
    <3>2. size[r] \in Sizes
      BY <1>3, <1>4
    <3>3. x.size \in Nat
      BY <1>5, <3>2, SizesAreNumbers
    <3>4. rb.size \in Sizes \cup {None}
      BY <1>1 DEF TensorOK
    <3>5. rb.size \in Nat
      BY <3>4, SizeOrNone
    <3> QED  BY <3>1, <3>3, <3>5 DEF Misfits
  <2>3. Count(wire'["src"], Misfits(rb)) = Count(wire["src"], Misfits(rb)) + 0
    BY <1>14, <2>2 DEF OneIf
  <2>4. Count(wire'["src"], Misfits(rb')) = 0
    BY <1>2, <2>1, <2>3 DEF Fitting
  <2>5. Count(wire'["dst"], TensorWrites) = 0
    BY <1>2, <1>13 DEF Fitting
  <2>6. \A v \in sending' : /\ v.at = "write" => size'[v.step] <= tb'.size
                            /\ v.at \in {"create", "ask"} => size'[v.step] = tb'.size
    BY <1>2, <1>8 DEF Fitting
  <2> QED  BY <2>4, <2>5, <2>6 DEF Fitting
<1>25. Agreed' /\ Holding' /\ Unharmed'
  BY <1>2, <1>8, <1>9, <1>10, AgreedKept, HoldingKept, UnharmedKept
<1> QED  BY <1>21, <1>23, <1>24, <1>25 DEF Own

\* The source decides while it holds mu_: it creates the buffer once, and sends a tensor
\* only if both ends of the buffer are idle.
LEMMA DecideTransmissionOwn ==
    ASSUME Own, IInv, IInv', NEW t \in sending, DecideTransmission(t), ~raced', ~resized'
    PROVE  Own'
<1>1. ChannelOK /\ OneInFlight /\ TensorOK /\ TensorOK' /\ Growth /\ Numbers /\ Numbers'
  BY NumbersNow, NumbersNext DEF IInv
<1>2. RemoteToken /\ KeyToken /\ Remote /\ Fitting /\ Agreed /\ Holding /\ Unharmed
  BY DEF Own
<1>3. UNCHANGED <<size, requested, fatal, chanVars, response, dstVars>>
  BY DEF DecideTransmission
<1>4. t.step \in Steps /\ t.at = "recv"
  BY <1>1 DEF TensorOK, Thread, DecideTransmission
<1>5. UNCHANGED <<rb, recvDone, callbacks, got, wire, arrived>>
  BY <1>3 DEF chanVars, dstVars
<1>6. Pipe'["src"] = Pipe["src"] /\ Pipe'["dst"] = Pipe["dst"]
  BY <1>1, <1>3, ChannelAside
<1>7. AnswersKept /\ AskedKept /\ WritesKept
  BY <1>5, <1>6, MessagesKept, WritesAreKept
<1>8. BufferKept
  <2>1. Arrived' = Arrived
    BY <1>5 DEF Arrived
  <2> QED  BY <1>5, <2>1, TensorsKept
<1>9. Holding' /\ Unharmed'
  BY <1>2, <1>3, <1>5, <1>8, HoldingKept, UnharmedKept
<1>10. ASSUME NEW at \in {"create", "write", "putback"}, Move(t, at)
       PROVE  /\ Writers' <= Writers + OneIf(at = "write") /\ Askers' <= Askers + OneIf(at = "create")
              /\ \A s \in Steps : HeldBy(s)' <= HeldBy(s)
              /\ \A v \in sending' \ sending : v.step = t.step /\ v.at = at
  <2>1. Goes(t, at) /\ \A v \in sending' \ sending : v.step = t.step /\ v.at = at
    BY <1>1, <1>10, Going
  <2>2. OneIf(t.at = "write") = 0 /\ OneIf(t.at \in {"create", "ask"}) = 0
        /\ OneIf(at \in {"create", "ask"}) = OneIf(at = "create")
        /\ \A s \in Steps : /\ OneIf(t.step = s /\ t.at # "ask") = OneIf(t.step = s)
                            /\ OneIf(t.step = s /\ at # "ask") = OneIf(t.step = s)
    BY <1>4 DEF OneIf
  <2>3. /\ Writers' <= (Writers - 0) + OneIf(at = "write") /\ Askers' <= (Askers - 0) + OneIf(at = "create")
        /\ \A s \in Steps : HeldBy(s)' <= (HeldBy(s) - OneIf(t.step = s)) + OneIf(t.step = s)
    BY <2>1, <2>2 DEF Goes
  <2>4. /\ Writers \in Nat /\ Askers \in Nat /\ \A s \in Steps : HeldBy(s) \in Nat
        /\ \A b : OneIf(b) \in Nat
    BY <1>1 DEF Numbers, OneIf
  <2>5. Writers' <= Writers + OneIf(at = "write") /\ Askers' <= Askers + OneIf(at = "create")
    BY <2>3, <2>4
  <2>6. ASSUME NEW s \in Steps PROVE HeldBy(s)' <= HeldBy(s)
    <3>1. PICK h \in Nat, o \in Nat : h = HeldBy(s) /\ o = OneIf(t.step = s)
      BY <2>4
    <3>2. HeldBy(s)' <= (h - o) + o
      BY <2>3, <3>1
    <3>3. (h - o) + o = h
      OBVIOUS
    <3> QED  BY <3>1, <3>2, <3>3
  <2> QED  BY <2>1, <2>5, <2>6
<1>11. ASSUME tb'.q = tb.q, \A s \in Steps : HeldBy(s)' <= HeldBy(s)
       PROVE  KeyToken'
  <2> SUFFICES ASSUME NEW s \in Steps PROVE Keys(s)' <= Keys(s)
    BY <1>1, <1>2, <1>5, KeysKept
  <2>1. PICK a \in Nat, b \in Nat, c \in Nat, c1 \in Nat, d \in Nat, x \in Nat, y \in Nat :
          /\ a = Requests(s) /\ b = Queued(s) /\ c = HeldBy(s) /\ c1 = HeldBy(s)'
          /\ d = OnWireOf(s) /\ x = InBuffer(s) /\ y = recvDone[s]
    BY <1>1 DEF Numbers
  <2>2. Queued(s)' = b
    BY <1>11, <2>1 DEF Queued
  <2>3. Keys(s) = a + b + c + d + x + y /\ Keys(s)' = a + b + c1 + d + x + y
    BY <1>7, <1>8, <2>1, <2>2 DEF Keys, AnswersKept, WritesKept, BufferKept
  <2>4. c1 <= c
    BY <1>11, <2>1
  <2> QED  BY <2>3, <2>4
<1>12. CASE /\ NeedsBuffer(t.step)
            /\ tb' = [tb EXCEPT !.size = size[t.step], !.local = "idle"]
            /\ resized' = (resized \/ tb.local # "none")
            /\ Move(t, "create")
  <2>1. tb.local = "none"
    BY <1>12
  <2>2. /\ tb'.q = tb.q /\ tb'.size = size[t.step] /\ tb'.local = "idle"
        /\ tb'.remote = tb.remote /\ tb'.addr = tb.addr
    BY <1>1, <1>12 DEF TensorOK
  <2>3. InUse = 0 /\ Creating = 0 /\ tb.remote = "none"
    BY <1>1, <1>2, <2>1, OneUser DEF Remote
  <2>4. /\ Writers = 0 /\ OnWire = 0 /\ Arrived = 0 /\ Scheduled = 0 /\ Idles = 0
        /\ Askers = 0 /\ Asked = 0 /\ Responses = 0
    BY <1>1, <2>3, NobodyUses, NobodyCreates
  <2>5. /\ Writers' <= Writers + OneIf("create" = "write") /\ Askers' <= Askers + OneIf("create" = "create")
        /\ \A s \in Steps : HeldBy(s)' <= HeldBy(s)
        /\ \A v \in sending' \ sending : v.step = t.step /\ v.at = "create"
    BY <1>10, <1>12
  <2>6. Writers' = 0 /\ Askers' <= 1
    <3>1. PICK w \in Nat, k \in Nat : w = Writers' /\ k = Askers'
      BY <1>1 DEF Numbers
    <3>2. w <= 0 + 0 /\ k <= 0 + 1
      BY <2>4, <2>5, <3>1 DEF OneIf
    <3>3. w = 0 /\ k <= 1
      BY <3>2
    <3> QED  BY <3>1, <3>3
  <2>7. InUse' = 0
    <3>1. InUse' = 0 + 0 + 0 + 0 + 0
      BY <1>7, <1>8, <2>4, <2>6 DEF InUse, WritesKept, BufferKept, AnswersKept
    <3> QED  BY <3>1
  <2>8. Creating' <= 1 /\ Creating' \in Nat
    <3>1. PICK k \in Nat : k = Askers'
      BY <1>1 DEF Numbers
    <3>2. Creating' = k + 0 + 0
      BY <1>7, <2>4, <3>1 DEF Creating, AskedKept, AnswersKept
    <3>3. k <= 1
      BY <2>6, <3>1
    <3>4. k + 0 + 0 = k
      OBVIOUS
    <3> QED  BY <3>2, <3>3, <3>4
  <2>9. RemoteToken' /\ Remote'
    <3>1. OneIf(tb'.remote = "idle") = 0 /\ OneIf(tb'.local # "none") = 1
      BY <2>2, <2>3 DEF OneIf
    <3>2. PICK k \in Nat : k = Creating' /\ k <= 1
      BY <2>8
    <3>3. 0 + k + 0 = k
      OBVIOUS
    <3>4. RemoteToken'
      BY <2>7, <3>1, <3>2, <3>3 DEF RemoteToken
    <3>5. response' = 0 \/ ~(response' > 0)
      BY <1>2, <1>3, <2>3 DEF Remote
    <3>6. Remote'
      BY <2>2, <2>3, <2>7, <3>5 DEF Remote
    <3> QED  BY <3>4, <3>6
  <2>10. KeyToken'
    BY <1>11, <2>2, <2>5
  <2>11. \A v \in sending : v.at # "write" /\ v.at \notin {"create", "ask"}
    <3>1. Writing(sending) = {} /\ Asking(sending) = {}
      <4>1. IsFiniteSet(Writing(sending)) /\ IsFiniteSet(Asking(sending))
        <5>1. Writing(sending) \in SUBSET sending /\ Asking(sending) \in SUBSET sending
          BY DEF Writing, Asking
        <5> QED  BY <1>1, <5>1, FS_Subset DEF TensorOK
      <4> QED  BY <2>4, <4>1, FS_EmptySet DEF Writers, Askers
    <3>2. ASSUME NEW v \in sending PROVE v.at # "write" /\ v.at \notin {"create", "ask"}
      <4>1. v \in Thread
        BY <1>1 DEF TensorOK
      <4>2. v \notin [step : Steps, at : {"write"}] /\ v.at \notin {"create", "ask"}
        BY <3>1 DEF Writing, Asking
      <4> QED  BY <4>1, <4>2, ThreadIsIn
    <3> QED  BY <3>2
  <2>12. Fitting'
    <3>1. \A v \in sending' : /\ v.at = "write" => size'[v.step] <= tb'.size
                              /\ v.at \in {"create", "ask"} => size'[v.step] = tb'.size
      <4> SUFFICES ASSUME NEW v \in sending'
                   PROVE  /\ v.at = "write" => size'[v.step] <= tb'.size
                          /\ v.at \in {"create", "ask"} => size'[v.step] = tb'.size
        OBVIOUS
      <4>1. CASE v \in sending
        BY <2>11, <4>1
      <4>2. CASE v \notin sending
        <5>1. v.step = t.step /\ v.at = "create"
          BY <2>5, <4>2
        <5>2. size'[v.step] = tb'.size
          BY <1>3, <2>2, <5>1
        <5> QED  BY <5>1, <5>2
      <4> QED  BY <4>1, <4>2
    <3> QED  BY <1>2, <1>5, <3>1 DEF Fitting
  <2>13. Agreed'
    <3>1. PICK P \in AnyMessages, Q \in AnyMessages,
                S \in {Strays(tb'.size)}, R \in {WrongResponses(tb'.size, rb'.addr)} :
            P = Pipe'["src"] /\ Q = Pipe'["dst"]
      BY <1>1 DEF Numbers, AnyMessages
    <3>2. Count(P, S) = 0
      <4>1. Len(P) = 0
        BY <1>6, <2>4, <3>1 DEF Asked
      <4>2. Count(P, S) \in Nat /\ Count(P, S) <= Len(P)
        BY CountType DEF AnyMessages
      <4> QED  BY <4>1, <4>2
    <3>3. Count(Q, R) = 0
      <4>1. R \subseteq OfType("BUFFER_RESPONSE")
        BY <3>1 DEF WrongResponses
      <4>2. Count(Q, R) <= Count(Q, OfType("BUFFER_RESPONSE")) /\ Count(Q, R) \in Nat
        BY <4>1, CountFewer, CountType DEF AnyMessages
      <4>3. Count(Q, OfType("BUFFER_RESPONSE")) = 0
        BY <1>6, <2>4, <3>1 DEF Responses
      <4> QED  BY <4>2, <4>3
    <3>4. Responses' = 0
      BY <1>7, <2>4 DEF AnswersKept
    <3> QED  BY <3>1, <3>2, <3>3, <3>4 DEF Agreed
  <2> QED  BY <1>9, <2>9, <2>10, <2>12, <2>13 DEF Own
<1>13. CASE /\ ~NeedsBuffer(t.step) /\ BothIdle
            /\ tb' = [tb EXCEPT !.local = "busy", !.remote = "busy"]
            /\ raced' = (raced \/ response > 0)
            /\ Move(t, "write")
  <2>1. tb.local = "idle" /\ tb.remote = "idle" /\ ~(response > 0)
    BY <1>13 DEF BothIdle
  <2>2. /\ tb'.q = tb.q /\ tb'.size = tb.size /\ tb'.local = "busy"
        /\ tb'.remote = "busy" /\ tb'.addr = tb.addr
    BY <1>1, <1>13 DEF TensorOK
  <2>3. InUse = 0 /\ Creating = 0
    BY <1>1, <1>2, <2>1, OneUser
  <2>4. /\ Writers = 0 /\ OnWire = 0 /\ Arrived = 0 /\ Scheduled = 0 /\ Idles = 0
        /\ Askers = 0 /\ Asked = 0 /\ Responses = 0
    BY <1>1, <2>3, NobodyUses, NobodyCreates
  <2>5. /\ Writers' <= Writers + OneIf("write" = "write") /\ Askers' <= Askers + OneIf("write" = "create")
        /\ \A s \in Steps : HeldBy(s)' <= HeldBy(s)
        /\ \A v \in sending' \ sending : v.step = t.step /\ v.at = "write"
    BY <1>10, <1>13
  <2>6. Writers' <= 1 /\ Askers' = 0
    <3>1. PICK w \in Nat, k \in Nat : w = Writers' /\ k = Askers'
      BY <1>1 DEF Numbers
    <3>2. w <= 0 + 1 /\ k <= 0 + 0
      BY <2>4, <2>5, <3>1 DEF OneIf
    <3>3. w <= 1 /\ k = 0
      BY <3>2
    <3> QED  BY <3>1, <3>3
  <2>7. InUse' <= 1 /\ InUse' \in Nat
    <3>1. PICK w \in Nat : w = Writers'
      BY <1>1 DEF Numbers
    <3>2. InUse' = w + 0 + 0 + 0 + 0
      BY <1>7, <1>8, <2>4, <3>1 DEF InUse, WritesKept, BufferKept, AnswersKept
    <3>3. w <= 1
      BY <2>6, <3>1
    <3>4. w + 0 + 0 + 0 + 0 = w
      OBVIOUS
    <3> QED  BY <3>2, <3>3, <3>4
  <2>8. Creating' = 0
    <3>1. Creating' = 0 + 0 + 0
      BY <1>7, <2>4, <2>6 DEF Creating, AskedKept, AnswersKept
    <3> QED  BY <3>1
  <2>9. RemoteToken' /\ Remote'
    <3>1. OneIf(tb'.remote = "idle") = 0 /\ OneIf(tb'.local # "none") = 1
      BY <2>2 DEF OneIf
    <3>2. PICK i \in Nat : i = InUse' /\ i <= 1
      BY <2>7
    <3>3. i + 0 + 0 = i
      OBVIOUS
    <3>4. RemoteToken'
      BY <2>8, <3>1, <3>2, <3>3 DEF RemoteToken
    <3>5. ~(response' > 0)
      BY <1>3, <2>1
    <3>6. tb.addr = rb.addr /\ tb.size = rb.size
      BY <1>2, <2>1 DEF Remote
    <3>7. Remote'
      BY <1>5, <2>2, <2>8, <3>5, <3>6 DEF Remote
    <3> QED  BY <3>4, <3>7
  <2>10. KeyToken'
    BY <1>11, <2>2, <2>5
  <2>11. size[t.step] <= tb.size
    <3>1. size[t.step] \in Nat
      <4>1. size[t.step] \in Sizes
        BY <1>1, <1>4, SizeFacts DEF TensorOK
      <4> QED  BY <4>1, SizesAreNumbers
    <3>2. tb.size \in Sizes \cup {None}
      BY <1>1 DEF TensorOK
    <3>3. tb.size \in Nat
      BY <3>2, SizeOrNone
    <3>4. ~(size[t.step] > tb.size)
      BY <1>13 DEF NeedsBuffer
    <3> QED  BY <3>1, <3>3, <3>4
  <2>12. Fitting'
    BY <1>2, <1>3, <1>5, <1>7, <2>2, <2>5, <2>11, FittingKept
  <2>13. Agreed'
    BY <1>2, <1>5, <1>7, <2>2, AgreedKept
  <2> QED  BY <1>9, <2>9, <2>10, <2>12, <2>13 DEF Own
<1>14. CASE Move(t, "putback") /\ tb' = tb
  <2>1. /\ Writers' <= Writers + OneIf("putback" = "write") /\ Askers' <= Askers + OneIf("putback" = "create")
        /\ \A s \in Steps : HeldBy(s)' <= HeldBy(s)
        /\ \A v \in sending' \ sending : v.step = t.step /\ v.at = "putback"
    BY <1>10, <1>14
  <2>2. OneIf("putback" = "write") = 0 /\ OneIf("putback" = "create") = 0
    BY DEF OneIf
  <2>3. Writers' <= Writers /\ Askers' <= Askers
    <3>1. PICK w \in Nat, k \in Nat : w = Writers /\ k = Askers
      BY <1>1 DEF Numbers
    <3>2. Writers' <= w + 0 /\ Askers' <= k + 0
      BY <2>1, <2>2, <3>1
    <3>3. w + 0 = w /\ k + 0 = k
      OBVIOUS
    <3> QED  BY <3>1, <3>2, <3>3
  <2>4. ASSUME NEW s \in Steps PROVE Queued(s)' + HeldBy(s)' <= Queued(s) + HeldBy(s)
    <3>1. PICK b \in Nat, c \in Nat, c1 \in Nat : b = Queued(s) /\ c = HeldBy(s) /\ c1 = HeldBy(s)'
      BY <1>1 DEF Numbers
    <3>2. Queued(s)' = b /\ c1 <= c
      BY <1>14, <2>1, <3>1 DEF Queued
    <3> QED  BY <3>1, <3>2
  <2> QED  BY <1>3, <1>14, <2>1, <2>3, <2>4, QueueKeeps
<1> QED  BY <1>12, <1>13, <1>14 DEF DecideTransmission

-----------------------------------------------------------------------------
(* The network.                                                            *)

LEMMA DeliverOwn ==
    ASSUME Own, IInv, IInv', NEW e \in Ends, Deliver(e)
    PROVE  Own'
<1>1. ChannelOK /\ OneInFlight /\ TensorOK /\ Numbers /\ Numbers'
  BY NumbersNow, NumbersNext DEF IInv
<1>2. RemoteToken /\ KeyToken /\ Remote /\ Fitting /\ Agreed /\ Holding /\ Unharmed
  BY DEF Own
<1>3. Pipe'["src"] = Pipe["src"] /\ Pipe'["dst"] = Pipe["dst"]
  BY <1>1, DeliverStep, TwoNames
<1>4. wire \in [Ends -> Seq(Write)] /\ arrived \in [Ends -> Completions]
  BY <1>1 DEF ChannelOK, Completions
<1>5. PICK w \in Seq(Write), x \in Write : w = wire[e] /\ w # << >> /\ x = Head(w)
  BY <1>4 DEF Deliver
<1>6. wire' = [wire EXCEPT ![e] = Tail(w)] /\ Tail(w) \in Seq(Write)
  BY <1>5 DEF Deliver
<1>7. ASSUME NEW S PROVE Count(w, S) = Count(wire'[e], S) + OneIf(x \in S)
  <2>1. Count(w, S) = OneIf(x \in S) + Count(Tail(w), S)
    BY <1>5, CountTail
  <2>2. OneIf(x \in S) \in Nat /\ Count(Tail(w), S) \in Nat
    BY <1>6, CountType DEF OneIf
  <2>3. wire'[e] = Tail(w)
    BY <1>4, <1>6
  <2> QED  BY <2>1, <2>2, <2>3
<1>8. \A d \in Ends : d # e => wire'[d] = wire[d]
  BY <1>4, <1>6
<1>9. UNCHANGED <<size, requested, tb, sending, response, callbacks, got, recvDone>>
  BY DEF Deliver, srcVars
<1>10. x \in TensorWrites <=> x.to = "tensor"
  BY DEF Write, TensorWrites
<1>11. CASE x.to # "tensor"
  <2>1. SameTensors
    <3> SUFFICES ASSUME NEW d \in Ends, NEW S \in SUBSET TensorWrites
                 PROVE  Count(wire'[d], S) = Count(wire[d], S)
      BY DEF SameTensors
    <3>1. CASE d # e
      BY <1>8, <3>1
    <3>2. CASE d = e
      <4>1. x \notin S
        BY <1>10, <1>11
      <4>2. Count(w, S) = Count(wire'[e], S) + 0
        BY <1>7, <4>1 DEF OneIf
      <4>3. Count(wire'[e], S) \in Nat
        BY <1>4, <1>6, CountType
      <4> QED  BY <1>5, <3>2, <4>2, <4>3
    <3> QED  BY <3>1, <3>2
  <2>2. WritesKept
    BY <2>1, WritesAreKept
  <2>3. fatal' = fatal /\ rb' = rb /\ arrived' = [arrived EXCEPT ![Peer(e)] = Append(arrived[Peer(e)], x.to)]
    BY <1>5, <1>11 DEF Deliver
  <2>4. Arrived' = Arrived
    <3>1. CASE Peer(e) # "dst"
      BY <1>4, <2>3, <3>1, TwoNames DEF Arrived
    <3>2. CASE Peer(e) = "dst"
      <4>1. PICK a \in Completions : a = arrived["dst"]
        BY <1>4, TwoNames
      <4>2. arrived'["dst"] = Append(a, x.to)
        BY <1>4, <2>3, <3>2, <4>1, TwoNames
      <4>3. Count(Append(a, x.to), {"tensor"}) = Count(a, {"tensor"}) + OneIf(x.to \in {"tensor"})
        BY WriteTo, CountAppend DEF Completions
      <4>4. OneIf(x.to \in {"tensor"}) = 0 /\ Count(a, {"tensor"}) \in Nat
        BY <1>11, CountType DEF OneIf, Completions
      <4> QED  BY <4>1, <4>2, <4>3, <4>4 DEF Arrived
    <3> QED  BY <3>1, <3>2
  <2> QED  BY <1>3, <1>9, <2>2, <2>3, <2>4, QuietKeeps
<1>12. CASE x.to = "tensor"
  <2>1. e = "src"
    <3>1. ASSUME e = "dst" PROVE FALSE
      <4>1. Count(w, TensorWrites) = 0
        BY <1>2, <1>5, <3>1 DEF Fitting
      <4>2. Count(w, TensorWrites) = Count(wire'[e], TensorWrites) + 1
        BY <1>7, <1>10, <1>12 DEF OneIf
      <4>3. PICK n \in Nat : n = Count(wire'[e], TensorWrites)
        BY <1>4, <1>6, CountType
      <4>4. n + 1 = 0
        BY <4>1, <4>2, <4>3
      <4> QED  BY <4>4
    <3> QED  BY <3>1, TwoNames
  <2>2. PICK r \in Steps : r = x.step
    BY <1>10, <1>12 DEF TensorWrites
  <2>3. x \notin Misfits(rb) /\ Count(wire'["src"], Misfits(rb)) = 0
    <3>1. PICK S : S = Misfits(rb)
      OBVIOUS
    <3>2. Count(w, S) = 0
      BY <1>2, <1>5, <2>1, <3>1 DEF Fitting
    <3>3. PICK n \in Nat : n = Count(wire'[e], S)
      BY <1>4, <1>6, CountType
    <3>4. 0 = n + OneIf(x \in S)
      BY <1>7, <3>2, <3>3
    <3>5. x \notin S /\ n = 0
      BY <3>4 DEF OneIf
    <3> QED  BY <2>1, <3>1, <3>3, <3>5
  <2>4. ~(w # << >> /\ x.to = "tensor" /\ (x.addr # rb.addr \/ x.size > rb.size))
    BY <1>10, <1>12, <2>3 DEF Misfits
  <2>5. /\ fatal' = fatal /\ rb' = [rb EXCEPT !.data = r]
        /\ arrived' = [arrived EXCEPT !["dst"] = Append(arrived["dst"], "tensor")]
    BY <1>5, <1>12, <2>1, <2>2, <2>4, TwoNames DEF Deliver
  <2>6. rb'.addr = rb.addr /\ rb'.size = rb.size /\ rb'.data = r
    BY <1>1, <2>5 DEF TensorOK
  <2>7. Arrived' = Arrived + 1
    <3>1. PICK a \in Completions : a = arrived["dst"]
      BY <1>4, TwoNames
    <3>2. arrived'["dst"] = Append(a, "tensor")
      BY <1>4, <2>5, <3>1, TwoNames
    <3>3. Count(Append(a, "tensor"), {"tensor"}) = Count(a, {"tensor"}) + OneIf("tensor" \in {"tensor"})
      BY CountAppend DEF Completions
    <3>4. OneIf("tensor" \in {"tensor"}) = 1
      BY DEF OneIf
    <3> QED  BY <3>1, <3>2, <3>3, <3>4 DEF Arrived
  <2>8. /\ OnWire = OnWire' + 1
        /\ \A s \in Steps : OnWireOf(s) = OnWireOf(s)' + OneIf(r = s)
    <3>1. OneIf(x \in TensorWrites) = 1 /\ \A s \in Steps : OneIf(x \in WritesOf(s)) = OneIf(r = s)
      BY <1>10, <1>12, <2>2 DEF OneIf, WritesOf
    <3> QED  BY <1>5, <1>7, <2>1, <3>1 DEF OnWire, OnWireOf
  <2>9. AnswersKept /\ AskedKept /\ ThreadsKept /\ Scheduled' = Scheduled
    BY <1>3, <1>9, MessagesKept, SendingKept DEF Scheduled
  <2>10. PICK i \in Nat, j \in Nat, k \in Nat, l \in Nat, n \in Nat :
           i = Writers /\ j = OnWire' /\ k = Arrived /\ l = Scheduled /\ n = Idles
    BY <1>1 DEF Numbers
  <2>11. InUse = i + (j + 1) + k + l + n /\ InUse' = i + j + (k + 1) + l + n
    BY <2>7, <2>8, <2>9, <2>10 DEF InUse, ThreadsKept, AnswersKept
  <2>12. InUse' = InUse /\ InUse > 0 /\ InUse \in Nat
    BY <2>11
  <2>13. InUse = 1
    BY <1>1, <1>2, <2>12, OneUser
  <2>14. k = 0 /\ l = 0
    BY <2>11, <2>13
  <2>15. Arrived = 0 /\ Arrived' = 1 /\ \A s \in Steps : recvDone[s] = 0
    <3>1. Received(recvDone) = {}
      BY <1>1, <2>10, <2>14, FS_EmptySet DEF Numbers, Scheduled
    <3>2. \A s \in Steps : recvDone[s] \in Nat /\ ~(recvDone[s] > 0)
      BY <1>1, <3>1 DEF Received, Numbers
    <3>3. \A s \in Steps : recvDone[s] = 0
      BY <3>2
    <3> QED  BY <2>7, <2>10, <2>14, <3>3
  <2>16. RemoteToken' /\ Remote'
    <3>1. Creating' = Creating /\ Creating \in Nat
      BY <1>1, <2>9 DEF Creating, AskedKept, AnswersKept, ThreadsKept, Numbers
    <3> QED  BY <1>1, <1>2, <1>9, <2>6, <2>12, <3>1, RemoteKept
  <2>17. KeyToken'
    <3> SUFFICES ASSUME NEW s \in Steps PROVE Keys(s)' <= Keys(s)
      BY <1>1, <1>2, <1>9, KeysKept
    <3>1. InBuffer(s) = 0 /\ InBuffer(s)' = OneIf(r = s)
      BY <2>6, <2>15 DEF InBuffer, OneIf
    <3>2. PICK a \in Nat, b \in Nat, c \in Nat, d \in Nat, y \in Nat, o \in Nat :
            /\ a = Requests(s) /\ b = Queued(s) /\ c = HeldBy(s) /\ d = OnWireOf(s)'
            /\ y = recvDone[s] /\ o = OneIf(r = s)
      BY <1>1 DEF Numbers, OneIf
    <3>3. Queued(s)' = b /\ recvDone'[s] = y
      BY <1>9, <3>2 DEF Queued
    <3>4. Keys(s) = a + b + c + (d + o) + 0 + y /\ Keys(s)' = a + b + c + d + o + y
      BY <2>8, <2>9, <3>1, <3>2, <3>3 DEF Keys, AnswersKept, ThreadsKept
    <3> QED  BY <3>4
  <2>18. Fitting'
    <3>1. Misfits(rb') = Misfits(rb)
      BY <2>6 DEF Misfits
    <3>2. Count(wire'["src"], Misfits(rb')) = 0
      BY <2>3, <3>1
    <3>3. Count(wire'["dst"], TensorWrites) = 0
      BY <1>2, <1>8, <2>1, TwoNames DEF Fitting
    <3> QED  BY <1>2, <1>9, <3>2, <3>3 DEF Fitting
  <2>19. Agreed'
    BY <1>2, <1>9, <2>6, <2>9, AgreedKept
  <2>20. Holding'
    BY <1>9, <2>6, <2>15 DEF Holding
  <2>21. Unharmed'
    BY <1>2, <1>9, <2>5, UnharmedKept
  <2> QED  BY <2>16, <2>17, <2>18, <2>19, <2>20, <2>21 DEF Own
<1> QED  BY <1>11, <1>12

-----------------------------------------------------------------------------
LEMMA InitOwn == Init => OwnInv
<1> SUFFICES ASSUME Init PROVE Own
  BY DEF OwnInv
<1>1. IInv /\ Pipe["src"] = << >> /\ Pipe["dst"] = << >>
  BY InitKeeps, TwoNames
<1>2. /\ wire["src"] = << >> /\ wire["dst"] = << >> /\ arrived["dst"] = << >> /\ tb.q = << >>
      /\ sending = {} /\ response = 0 /\ tb.local = "none" /\ tb.remote = "none"
      /\ \A s \in Steps : recvDone[s] = 0
  BY TwoNames DEF Init
<1>3. \A S : Count(<< >>, S) = 0
  BY CountNone
<1>4. Cardinality({}) = 0
  BY FS_EmptySet
<1>5. Writing({}) = {} /\ Asking({}) = {} /\ Received(recvDone) = {} /\ \A s \in Steps : Holders({}, s) = {}
  BY <1>2 DEF Writing, Asking, Received, Holders
<1>6. /\ Writers = 0 /\ OnWire = 0 /\ Arrived = 0 /\ Scheduled = 0 /\ Idles = 0
      /\ Askers = 0 /\ Asked = 0 /\ Responses = 0
  BY <1>1, <1>2, <1>3, <1>4, <1>5
     DEF Writers, OnWire, Arrived, Scheduled, Idles, Askers, Asked, Responses
<1>7. InUse = 0 /\ Creating = 0
  BY <1>6 DEF InUse, Creating
<1>8. ASSUME NEW s \in Steps PROVE Keys(s) = 0
  <2>1. Requests(s) = 0 /\ Queued(s) = 0 /\ OnWireOf(s) = 0
    BY <1>1, <1>2, <1>3 DEF Requests, Queued, OnWireOf
  <2>2. HeldBy(s) = 0
    BY <1>2, <1>4, <1>5 DEF HeldBy
  <2>3. InBuffer(s) = 0
    BY <1>6 DEF InBuffer, OneIf
  <2> QED  BY <1>2, <2>1, <2>2, <2>3 DEF Keys
<1>9. RemoteToken /\ Remote
  BY <1>2, <1>7 DEF RemoteToken, Remote, OneIf
<1>10. KeyToken
  BY <1>8 DEF KeyToken, OneIf
<1>11. Fitting /\ Agreed /\ Holding
  BY <1>1, <1>2, <1>3, <1>6 DEF Fitting, Agreed, Holding
<1>12. Unharmed
  BY DEF Init, Unharmed
<1> QED  BY <1>9, <1>10, <1>11, <1>12 DEF Own

\* Whether a tensor was sent too early, or the buffer replaced, is not forgotten.
LEMMA HistoryKept ==
    ASSUME TensorOK, [Next]_vars
    PROVE  (raced => raced') /\ (resized => resized')
<1>1. ASSUME NEW t \in sending, DecideTransmission(t) PROVE (raced => raced') /\ (resized => resized')
  <2>1. /\ raced' = raced \/ raced' = (raced \/ response > 0)
        /\ resized' = resized \/ resized' = (resized \/ tb.local # "none")
    BY <1>1 DEF DecideTransmission
  <2>2. raced => raced'
    BY <2>1
  <2>3. resized => resized'
    BY <2>1
  <2> QED  BY <2>2, <2>3
<1>2. ASSUME NEW t \in sending, PutBackKey(t) \/ RequestBuffer(t) \/ WriteTensor(t)
      PROVE  (raced => raced') /\ (resized => resized')
  BY <1>2 DEF PutBackKey, RequestBuffer, WriteTensor, history
<1>3. ASSUME NEW e \in Ends, Deliver(e) \/ Process_CQ(e) \/ SendNextItem(e)
      PROVE  (raced => raced') /\ (resized => resized')
  BY <1>3 DEF Deliver, Process_CQ, SendNextItem, WriteCompleted, HandleAck, HandleTensorRequest,
     HandleBufferIdle, HandleBufferResponse, FinishBufferResponse, HandleBufferRequest,
     HandleTensorWrite, history
<1>4. ASSUME NEW s \in Steps, RunRecvCallback(s) \/ RecvFromRemoteAsync(s)
      PROVE  (raced => raced') /\ (resized => resized')
  BY <1>4 DEF RunRecvCallback, RecvFromRemoteAsync, history
<1>5. CASE PopKey
  BY <1>5 DEF PopKey, history
<1>6. CASE UNCHANGED vars
  BY <1>6 DEF vars, history
<1> QED  BY <1>1, <1>2, <1>3, <1>4, <1>5, <1>6 DEF Next, Working, TransmitTensor

LEMMA NextOwn ==
    ASSUME OwnInv, IInv, IInv', [Next]_vars
    PROVE  OwnInv'
<1> SUFFICES ASSUME ~raced', ~resized' PROVE Own'
  BY DEF OwnInv
<1>0. Own
  <2>1. TensorOK
    BY DEF IInv
  <2> QED  BY <2>1, HistoryKept DEF OwnInv
<1>1. ASSUME NEW e \in Ends, Deliver(e) PROVE Own'
  BY <1>0, <1>1, DeliverOwn
<1>2. ASSUME NEW e \in Ends, SendNextItem(e) PROVE Own'
  BY <1>0, <1>2, SendNextItemOwn
<1>3. ASSUME NEW e \in Ends, Process_CQ(e) PROVE Own'
  BY <1>0, <1>3, WriteCompletedOwn, HandleAckOwn, HandleTensorRequestOwn, HandleBufferIdleOwn,
     HandleBufferResponseOwn, FinishBufferResponseOwn, HandleBufferRequestOwn, HandleTensorWriteOwn
     DEF Process_CQ
<1>4. ASSUME NEW t \in sending, TransmitTensor(t) PROVE Own'
  BY <1>0, <1>4, DecideTransmissionOwn, PutBackKeyOwn, RequestBufferOwn, WriteTensorOwn DEF TransmitTensor
<1>5. CASE PopKey
  BY <1>0, <1>5, PopKeyOwn
<1>6. ASSUME NEW s \in Steps, RunRecvCallback(s) PROVE Own'
  BY <1>0, <1>6, RunRecvCallbackOwn
<1>7. ASSUME NEW s \in Steps, RecvFromRemoteAsync(s) PROVE Own'
  BY <1>0, <1>7, RecvFromRemoteAsyncOwn
<1>8. CASE UNCHANGED vars
  BY <1>0, <1>8, StutterOwn
<1> QED  BY <1>1, <1>2, <1>3, <1>4, <1>5, <1>6, <1>7, <1>8 DEF Next, Working

\* A step is handed its own tensor and no process aborts, for any number of steps that
\* wait for the key and any sizes of tensors, in every run in which the buffer of the
\* destination is created once and no tensor is sent between the updates that Process_CQ
\* makes for BUFFER_RESPONSE: a tensor then never arrives in a buffer that is still read,
\* or is not there any more, and a key is never in two places.
THEOREM OwnTensorsDelivered == Spec => []OwnTensorUnlessRaced
<1>1. OwnInv => OwnTensorUnlessRaced
  BY DEF OwnInv, Own, Unharmed, OwnTensorUnlessRaced
<1>2. Init => OwnInv
  BY InitOwn
<1>3. OwnInv /\ IInv /\ IInv' /\ [Next]_vars => OwnInv'
  BY NextOwn
<1>4. Spec => []IInv
  BY Invariance
<1> QED  BY <1>1, <1>2, <1>3, <1>4, PTL DEF Spec
=============================================================================
