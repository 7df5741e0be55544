------------------------- MODULE BFCAllocatorProofs -------------------------
(***************************************************************************)
(* Proofs about the allocator, for any clients, sizes, limits and bins: no *)
(* two clients ever have memory in common, the search finds the best fit,  *)
(* and splitting and joining chunks keeps the heap consistent.             *)
(*                                                                         *)
(* The operations on the heap are taken apart into five: a chunk leaves    *)
(* its bin, enters one, is cut, is joined with the next, and is marked.    *)
(* Between them the heap is in order but for the chunks in hand, which are *)
(* in no bin; the predicates below have the set X of these.                *)
(***************************************************************************)
EXTENDS BFCAllocator, FiniteSetTheorems, WellFoundedInduction, TLAPS

Cell == [ptr : Nat, size : Nat, used : BOOLEAN, prev : Nat, next : Nat,
         bin : 0..(NumBins - 1) \cup {NoBin}]

End(c) == c.ptr + c.size

\* A heap has the chunks ch, the list of unused handles that starts with f, bins and the
\* table hd from addresses to handles; L are the handles that are in use.
HeapOf(ch, f, bins, hd) == [chunks |-> ch, free |-> f, bins |-> bins, handles |-> hd]

IsHeap(hp) == hp = HeapOf(hp.chunks, hp.free, hp.bins, hp.handles)

Typed(ch, f, bins, L) ==
  /\ ch \in Seq(Cell) /\ f \in 0..Len(ch)
  /\ bins \in [0..(NumBins - 1) -> SUBSET Nat]
  /\ L \subseteq 1..Len(ch)

\* The table has the chunks in use, by their addresses.
Named(ch, hd, L) ==
  /\ hd = [p \in {ch[h].ptr : h \in L} |-> hd[p]]
  /\ \A h \in L : hd[ch[h].ptr] = h

Unused(ch, L) == (1..Len(ch)) \ L

\* The n unused handles are stacked in q, in which each has the one below as its next.
Stacked(ch, f, L, n, q) ==
  /\ n \in Nat /\ q \in [1..n -> Unused(ch, L)]
  /\ \A g \in Unused(ch, L) : \E i \in 1..n : q[i] = g
  /\ \A i, j \in 1..n : q[i] = q[j] => i = j
  /\ f = IF n = 0 THEN kInvalid ELSE q[n]
  /\ \A i \in 1..n : ch[q[i]].next = IF i = 1 THEN kInvalid ELSE q[i - 1]

Chained(ch, f, L) ==
  /\ \A g \in Unused(ch, L) : ch[g].prev = kInvalid
  /\ \E n, q : Stacked(ch, f, L, n, q)

\* The chunks of a region lie behind each other and are doubly linked.
Linked(ch, L) ==
  \A h \in L :
    /\ ch[h].size > 0
    /\ ch[h].next # kInvalid => /\ ch[h].next \in L /\ ch[ch[h].next].prev = h
                                /\ ch[ch[h].next].ptr = End(ch[h])
    /\ ch[h].prev # kInvalid => ch[h].prev \in L /\ ch[ch[h].prev].next = h

Apart(ch, L) ==
  \A g, h \in L : g # h => End(ch[g]) <= ch[h].ptr \/ End(ch[h]) <= ch[g].ptr

Inside(c, r) == r.ptr <= c.ptr /\ End(c) <= r.ptr + r.size

Disjoint(regs) ==
  /\ regs \subseteq [ptr : Nat, size : Nat \ {0}]
  /\ \A r, s \in regs : r # s => r.ptr + r.size <= s.ptr \/ s.ptr + s.size <= r.ptr

\* Every chunk lies in a region, linked chunks in the same; the chunks fill the regions.
Placed(ch, L, regs) ==
  /\ Disjoint(regs)
  /\ \A h \in L : \E r \in regs : Inside(ch[h], r)
  /\ \A h \in L, r \in regs :
       ch[h].next # kInvalid => (Inside(ch[h], r) <=> Inside(ch[ch[h].next], r))
  /\ \A h \in L : ch[h].next = kInvalid => \E r \in regs : End(ch[h]) = r.ptr + r.size
  /\ \A r \in regs : \E h \in L : ch[h].ptr = r.ptr /\ ch[h].prev = kInvalid

\* The free chunks that are not in hand are in the bins of their sizes.
Binned(ch, bins, L, X) ==
  /\ \A h \in L :
       ch[h].bin = IF ch[h].used \/ h \in X THEN NoBin ELSE BinNumForSize(ch[h].size)
  /\ \A b \in 0..(NumBins - 1) : bins[b] = {h \in L : ch[h].bin = b}

\* Two free chunks that are not in hand are no neighbours.
Joined(ch, L, X) ==
  \A h \in L \ X :
    ~ch[h].used /\ ch[h].next # kInvalid /\ ch[h].next \notin X => ch[ch[h].next].used

Sound(hp, L, regs, X) ==
  /\ IsHeap(hp)
  /\ Typed(hp.chunks, hp.free, hp.bins, L)
  /\ Named(hp.chunks, hp.handles, L)
  /\ Chained(hp.chunks, hp.free, L)
  /\ Linked(hp.chunks, L)
  /\ Apart(hp.chunks, L)
  /\ Placed(hp.chunks, L, regs)
  /\ Binned(hp.chunks, hp.bins, L, X)
  /\ Joined(hp.chunks, L, X)

Calls == {"fast", "once", "retry", "failed", "waiting", "final"}
Tries == {"fast", "once", "retry", "final"}

ClientsOK ==
  /\ client \in [Clients -> [pc : Calls \cup {"idle", "holds", "notify"},
                             bytes : RequestSizes \cup {0}, ptr : Nat,
                             deadline : {"unset", "ahead", "passed"}]]
  /\ \A c \in Clients : client[c].pc \in Calls \cup {"holds"} => client[c].bytes \in RequestSizes

\* Each client that holds memory has a chunk of its own that is marked as used, and there
\* are no other such chunks.
Lent(hp, L, cl) ==
  /\ \A c \in Clients : cl[c].pc = "holds" =>
       \E h \in L : /\ hp.chunks[h].used /\ hp.chunks[h].ptr = cl[c].ptr
                    /\ cl[c].bytes <= hp.chunks[h].size
                    /\ hp.chunks[h].size < 2 * RoundedBytes(cl[c].bytes)
  /\ \A c, d \in Clients :
       cl[c].pc = "holds" /\ cl[d].pc = "holds" /\ c # d => cl[c].ptr # cl[d].ptr
  /\ \A h \in L : hp.chunks[h].used =>
       \E c \in Clients : cl[c].pc = "holds" /\ cl[c].ptr = hp.chunks[h].ptr

\* The sizes that RoundedBytes returns.
Multiples == {n \in Nat : n % MinAllocationSize = 0}

\* A region lies in memory that was granted for it, which lies on the device.
RegionsOK ==
  /\ device \in DeviceMemory
  /\ \A g \in granted : g \in [ptr : Nat, size : Nat] /\ g.ptr + g.size <= device
  /\ \A r \in regions : /\ r \in [ptr : Nat, size : Nat \ {0}] /\ r.size \in Multiples
                        /\ \E g \in granted : g.ptr = r.ptr /\ r.size <= g.size

LimitOK ==
  /\ region \in [next : Nat \ {0}, total : Nat, backpedal : BOOLEAN]
  /\ region.next \in Multiples /\ region.total <= MemoryLimit
  /\ ~region.backpedal => NextAddress = region.total

\* The loop of Extend that has begun.
ExtendOK ==
  extend # NoExtend =>
    /\ extend \in [by : Clients, bytes : Nat, grew : BOOLEAN]
    /\ client[extend.by].pc \in Tries /\ region.backpedal
    /\ extend.bytes % MinAllocationSize = 0 /\ extend.bytes <= Available

Rest == ClientsOK /\ RegionsOK /\ LimitOK /\ ExtendOK

-----------------------------------------------------------------------------
(* Numbers                                                                 *)

\* A set of numbers has a least one, which is what Min returns.
LEMMA MinFacts ==
  ASSUME NEW S, S \subseteq Nat, S # {}
  PROVE  Min(S) \in S /\ \A y \in S : Min(S) <= y
<1>1. PICK x \in S : \A y \in S : ~(<<y, x>> \in OpToRel(<, Nat))
  BY WFMin, NatLessThanWellFounded
<1>2. \A y \in S : x <= y
  <2>1. TAKE y \in S
  <2>2. ~(y < x)
    BY <1>1 DEF OpToRel
  <2> QED  BY <2>2
<1> QED  BY <1>2 DEF Min

\* A set of numbers that has a bound has a largest one, which is what Max returns.
LEMMA MaxFacts ==
  ASSUME NEW S, S \subseteq Nat, S # {}, NEW n \in Nat, \A y \in S : y <= n
  PROVE  Max(S) \in S /\ \A y \in S : Max(S) >= y
<1> DEFINE B == {b \in Nat : \A y \in S : y <= b}
<1>1. B # {} /\ B \subseteq Nat
  OBVIOUS
<1> HIDE DEF B
<1>2. PICK b \in B : \A a \in B : b <= a
  BY <1>1, MinFacts
<1>3. b \in Nat /\ \A y \in S : y <= b
  BY DEF B
<1>4. b \in S
  <2> SUFFICES ASSUME b \notin S  PROVE FALSE
    OBVIOUS
  <2>1. \A y \in S : y <= b - 1
    BY <1>3
  <2>2. b - 1 \in Nat
    <3>1. PICK y \in S : TRUE
      OBVIOUS
    <3> QED  BY <1>3, <2>1, <3>1
  <2>3. b - 1 \in B
    BY <2>1, <2>2 DEF B
  <2> QED  BY <1>2, <1>3, <2>3
<1> QED  BY <1>3, <1>4 DEF Max

\* Of a set with n elements there are 2^n subsets, and n of them have one element.
LEMMA PowerOfTwo ==
  ASSUME NEW n \in Nat
  PROVE  2^n \in Nat /\ 2^n > n
<1> DEFINE S == 1..n
           T == SUBSET S
           f == [i \in 0..n |-> IF i = 0 THEN {} ELSE {i}]
<1>1. IsFiniteSet(S) /\ Cardinality(S) = n
  BY FS_Interval
<1>2. IsFiniteSet(T) /\ Cardinality(T) = 2^n
  BY <1>1, FS_SUBSET
<1>3. f \in Injection(0..n, T)
  BY DEF Injection, IsInjective
<1>4. Cardinality(0..n) <= Cardinality(T)
  BY <1>2, <1>3, FS_Injection
<1>5. Cardinality(0..n) = n + 1
  BY FS_Interval
<1>6. Cardinality(T) \in Nat
  BY <1>2, FS_CardinalityType
<1> HIDE DEF T
<1> QED  BY <1>2, <1>4, <1>5, <1>6

\* Rounding goes up, by less than the smallest size.
LEMMA RoundedFacts ==
  ASSUME NEW n \in Nat
  PROVE  /\ RoundedBytes(n) \in Nat /\ n <= RoundedBytes(n)
         /\ RoundedBytes(n) % MinAllocationSize = 0
<1> DEFINE m == MinAllocationSize
           q == (n + m - 1) \div m
<1>1. m \in Nat \ {0}
  BY BinsAssumption
<1> HIDE DEF m
<1>2. q \in Nat /\ m * q <= n + m - 1 /\ n + m - 1 < m * q + m
  BY <1>1
<1>3. (m * q) % m = 0
  BY <1>1, <1>2
<1>4. m * q \in Nat
  BY <1>1, <1>2
<1> HIDE DEF q
<1>5. n <= m * q
  BY <1>1, <1>2, <1>4
<1> QED  BY <1>3, <1>4, <1>5 DEF RoundedBytes, m, q

\* What is not above a multiple of the smallest size is not rounded above it.
LEMMA RoundedBelow ==
  ASSUME NEW n \in Nat, NEW k \in Nat, n <= k, k % MinAllocationSize = 0
  PROVE  RoundedBytes(n) <= k
<1> DEFINE m == MinAllocationSize
           q == (n + m - 1) \div m
           j == k \div m
<1>1. m \in Nat \ {0}
  BY BinsAssumption
<1>2. q \in Nat /\ m * q <= n + m - 1 /\ j \in Nat /\ k = m * j
  BY <1>1
<1> HIDE DEF q, j, m
<1>3. m * q < m * j + m
  BY <1>1, <1>2
<1>4. q <= j
  BY <1>1, <1>2, <1>3
<1>5. m * q <= m * j
  BY <1>1, <1>2, <1>4
<1> QED  BY <1>2, <1>5 DEF RoundedBytes, m, q

\* A request of some bytes is rounded to some bytes.
LEMMA RoundedPositive ==
  ASSUME NEW n \in Nat \ {0}
  PROVE  RoundedBytes(n) \in Nat \ {0}
BY RoundedFacts

Units(n) == Max({n \div MinAllocationSize, 1})

\* A size in units is the quotient, but at least one.
LEMMA UnitsFacts ==
  ASSUME NEW n \in Nat
  PROVE  /\ Units(n) \in Nat /\ Units(n) >= 1
         /\ Units(n) \in {n \div MinAllocationSize, 1} /\ Units(n) >= n \div MinAllocationSize
<1>1. PICK d \in Nat : d = n \div MinAllocationSize
  BY BinsAssumption
<1>2. {d, 1} \subseteq Nat /\ {d, 1} # {} /\ d + 1 \in Nat /\ \A y \in {d, 1} : y <= d + 1
  OBVIOUS
<1>3. Max({d, 1}) \in {d, 1} /\ \A y \in {d, 1} : Max({d, 1}) >= y
  BY <1>2, MaxFacts
<1> QED  BY <1>1, <1>3 DEF Units

\* The bins whose chunks are not larger than n.
BinsUpTo(n) == {b \in 0..(NumBins - 1) : 2^b <= Units(n)}

\* A size has a bin.
LEMMA BinFacts ==
  ASSUME NEW n \in Nat
  PROVE  /\ BinNumForSize(n) \in 0..(NumBins - 1) /\ BinNumForSize(n) \in BinsUpTo(n)
         /\ \A b \in BinsUpTo(n) : b <= BinNumForSize(n)
<1>1. 0 \in BinsUpTo(n)
  BY UnitsFacts, BinsAssumption DEF BinsUpTo
<1>2. BinsUpTo(n) \subseteq Nat /\ \A b \in BinsUpTo(n) : b <= NumBins
  BY BinsAssumption DEF BinsUpTo
<1>3. /\ Max(BinsUpTo(n)) \in BinsUpTo(n)
      /\ \A b \in BinsUpTo(n) : Max(BinsUpTo(n)) >= b
  BY <1>1, <1>2, MaxFacts, BinsAssumption
<1>4. BinNumForSize(n) = Max(BinsUpTo(n))
  BY DEF BinNumForSize, BinsUpTo, Units
<1>5. BinsUpTo(n) \subseteq 0..(NumBins - 1)
  BY DEF BinsUpTo
<1> QED  BY <1>2, <1>3, <1>4, <1>5

\* A larger size has no smaller bin.
LEMMA BinMonotone ==
  ASSUME NEW n \in Nat, NEW k \in Nat, n <= k
  PROVE  BinNumForSize(n) <= BinNumForSize(k)
<1>1. Units(n) <= Units(k)
  <2>1. PICK d \in Nat, e \in Nat :
          d = n \div MinAllocationSize /\ e = k \div MinAllocationSize /\ d <= e
    BY BinsAssumption
  <2> QED  BY <2>1, UnitsFacts
<1>2. BinsUpTo(n) \subseteq BinsUpTo(k)
  <2> SUFFICES ASSUME NEW b \in 0..(NumBins - 1), 2^b <= Units(n)  PROVE 2^b <= Units(k)
    BY DEF BinsUpTo
  <2>1. 2^b \in Nat
    BY PowerOfTwo
  <2> QED  BY <1>1, <2>1, UnitsFacts
<1> QED  BY <1>2, BinFacts


-----------------------------------------------------------------------------
(* The list of unused handles                                              *)

\* The first of the list is not in use.
LEMMA ChainedFirst ==
  ASSUME NEW ch, NEW f, NEW L, L \subseteq 1..Len(ch), Len(ch) \in Nat, Chained(ch, f, L)
  PROVE  f \notin L /\ f \in 0..Len(ch) /\ (f # kInvalid => f \in Unused(ch, L))
<1>1. PICK n, q : Stacked(ch, f, L, n, q)
  BY DEF Chained
<1>2. n # 0 => q[n] \in Unused(ch, L)
  BY <1>1 DEF Stacked
<1> QED  BY <1>1, <1>2 DEF Stacked, Unused, kInvalid

\* The list is the same if the same handles are not in use and have the same links.
LEMMA ChainedSame ==
  ASSUME NEW ch, NEW f, NEW L, Chained(ch, f, L), NEW ch2, NEW L2,
         Unused(ch2, L2) = Unused(ch, L),
         \A g \in Unused(ch, L) : ch2[g].next = ch[g].next /\ ch2[g].prev = ch[g].prev
  PROVE  Chained(ch2, f, L2)
<1>1. PICK n, q : Stacked(ch, f, L, n, q)
  BY DEF Chained
<1>2. \A i \in 1..n : q[i] \in Unused(ch, L)
  BY <1>1 DEF Stacked
<1>3. Stacked(ch2, f, L2, n, q)
  BY <1>1, <1>2 DEF Stacked
<1> QED  BY <1>3 DEF Chained

\* The first of the list comes into use.
LEMMA ChainedPop ==
  ASSUME NEW ch, NEW f, NEW L, Chained(ch, f, L), L \subseteq 1..Len(ch), Len(ch) \in Nat,
         f # kInvalid, NEW ch2, Len(ch2) = Len(ch), \A i \in 1..Len(ch) : i # f => ch2[i] = ch[i]
  PROVE  Chained(ch2, ch[f].next, L \cup {f})
<1>1. PICK n, q : Stacked(ch, f, L, n, q)
  BY DEF Chained
<1>2. n \in Nat /\ n # 0 /\ f = q[n]
  BY <1>1 DEF Stacked
<1>3. PICK m \in Nat : n = m + 1
  <2>1. n - 1 \in Nat /\ n = (n - 1) + 1
    BY <1>2
  <2> QED  BY <2>1
<1>4. PICK r : r = [i \in 1..m |-> q[i]]
  OBVIOUS
<1>5. \A i \in 1..n : q[i] \in Unused(ch, L)
  BY <1>1 DEF Stacked
<1>6. Unused(ch2, L \cup {f}) = Unused(ch, L) \ {f}
  BY DEF Unused
<1>7. \A g \in Unused(ch, L) \ {f} : ch2[g] = ch[g]
  BY DEF Unused
<1>8. \A i \in 1..m : i \in 1..n /\ r[i] = q[i] /\ q[i] # f
  BY <1>1, <1>2, <1>3, <1>4 DEF Stacked
<1>9. r \in [1..m -> Unused(ch, L) \ {f}]
  BY <1>4, <1>5, <1>8
<1>10. \A g \in Unused(ch, L) \ {f} : \E i \in 1..m : r[i] = g
  <2> TAKE g \in Unused(ch, L) \ {f}
  <2>1. PICK i \in 1..n : q[i] = g
    BY <1>1 DEF Stacked
  <2>2. i \in 1..m
    BY <1>2, <1>3, <2>1
  <2> QED  BY <1>8, <2>1, <2>2
<1>11. \A i, j \in 1..m : r[i] = r[j] => i = j
  BY <1>1, <1>8 DEF Stacked
<1>12. ch[f].next = IF m = 0 THEN kInvalid ELSE r[m]
  <2>1. ch[f].next = IF n = 1 THEN kInvalid ELSE q[n - 1]
    BY <1>1, <1>2 DEF Stacked
  <2>2. (n = 1 <=> m = 0) /\ n - 1 = m
    BY <1>3
  <2>3. m # 0 => r[m] = q[m]
    BY <1>8
  <2> QED  BY <2>1, <2>2, <2>3
<1>13. \A i \in 1..m : ch2[r[i]].next = IF i = 1 THEN kInvalid ELSE r[i - 1]
  <2> TAKE i \in 1..m
  <2>1. ch2[r[i]] = ch[q[i]]
    BY <1>7, <1>8, <1>9
  <2>2. ch[q[i]].next = IF i = 1 THEN kInvalid ELSE q[i - 1]
    BY <1>1, <1>8 DEF Stacked
  <2>3. i # 1 => i - 1 \in 1..m
    OBVIOUS
  <2>4. i # 1 => r[i - 1] = q[i - 1]
    BY <1>8, <2>3
  <2> QED  BY <2>1, <2>2, <2>4
<1>14. Stacked(ch2, ch[f].next, L \cup {f}, m, r)
  BY <1>6, <1>9, <1>10, <1>11, <1>12, <1>13 DEF Stacked
<1>15. \A g \in Unused(ch2, L \cup {f}) : ch2[g].prev = kInvalid
  BY <1>6, <1>7 DEF Chained
<1> QED  BY <1>14, <1>15 DEF Chained

\* A handle goes out of use and becomes the first of the list.
LEMMA ChainedPush ==
  ASSUME NEW ch, NEW f, NEW L, Chained(ch, f, L), L \subseteq 1..Len(ch), NEW h \in L,
         NEW ch2, Len(ch2) = Len(ch), ch2[h].next = f, ch2[h].prev = kInvalid,
         \A g \in Unused(ch, L) : ch2[g].next = ch[g].next /\ ch2[g].prev = ch[g].prev
  PROVE  Chained(ch2, h, L \ {h})
<1>1. PICK n, q : Stacked(ch, f, L, n, q)
  BY DEF Chained
<1>2. n \in Nat /\ \A i \in 1..n : q[i] \in Unused(ch, L)
  BY <1>1 DEF Stacked
<1>3. PICK m \in Nat : m = n + 1
  BY <1>2
<1>4. PICK r : r = [i \in 1..m |-> IF i = m THEN h ELSE q[i]]
  OBVIOUS
<1>5. Unused(ch2, L \ {h}) = Unused(ch, L) \cup {h} /\ h \notin Unused(ch, L)
  BY DEF Unused
<1>6. \A i \in 1..n : i \in 1..m /\ i # m /\ r[i] = q[i]
  BY <1>2, <1>3, <1>4
<1>7. r[m] = h /\ m \in 1..m /\ \A i \in 1..m : i = m \/ i \in 1..n
  BY <1>2, <1>3, <1>4
<1>8. r \in [1..m -> Unused(ch, L) \cup {h}]
  BY <1>2, <1>4, <1>6, <1>7
<1>9. \A g \in Unused(ch, L) \cup {h} : \E i \in 1..m : r[i] = g
  <2> TAKE g \in Unused(ch, L) \cup {h}
  <2>1. CASE g = h
    BY <1>7, <2>1
  <2>2. CASE g \in Unused(ch, L)
    <3>1. PICK i \in 1..n : q[i] = g
      BY <1>1, <2>2 DEF Stacked
    <3> QED  BY <1>6, <3>1
  <2> QED  BY <2>1, <2>2
<1>10. \A i, j \in 1..m : r[i] = r[j] => i = j
  <2> TAKE i, j \in 1..m
  <2>1. CASE i = m \/ j = m
    BY <1>2, <1>5, <1>6, <1>7, <2>1
  <2>2. CASE i \in 1..n /\ j \in 1..n
    BY <1>1, <1>6, <2>2 DEF Stacked
  <2> QED  BY <1>7, <2>1, <2>2
<1>11. \A i \in 1..m : ch2[r[i]].next = IF i = 1 THEN kInvalid ELSE r[i - 1]
  <2> TAKE i \in 1..m
  <2>1. CASE i = m
    <3>1. f = IF n = 0 THEN kInvalid ELSE q[n]
      BY <1>1 DEF Stacked
    <3>2. m - 1 = n /\ (m = 1 <=> n = 0) /\ (n # 0 => r[n] = q[n])
      BY <1>2, <1>3, <1>6
    <3> QED  BY <1>7, <2>1, <3>1, <3>2
  <2>2. CASE i \in 1..n
    <3>1. ch2[r[i]].next = ch[q[i]].next
      BY <1>2, <1>6, <2>2
    <3>2. ch[q[i]].next = IF i = 1 THEN kInvalid ELSE q[i - 1]
      BY <1>1, <2>2 DEF Stacked
    <3>3. i # 1 => i - 1 \in 1..n
      BY <1>2, <2>2
    <3>4. i # 1 => r[i - 1] = q[i - 1]
      BY <1>6, <3>3
    <3> QED  BY <3>1, <3>2, <3>4
  <2> QED  BY <1>7, <2>1, <2>2
<1>12. h = IF m = 0 THEN kInvalid ELSE r[m]
  BY <1>2, <1>3, <1>7
<1>13. Stacked(ch2, h, L \ {h}, m, r)
  BY <1>5, <1>8, <1>9, <1>10, <1>11, <1>12 DEF Stacked
<1>14. \A g \in Unused(ch2, L \ {h}) : ch2[g].prev = kInvalid
  BY <1>5 DEF Chained
<1> QED  BY <1>13, <1>14 DEF Chained


-----------------------------------------------------------------------------
(* Chunks enter and leave their bins and are marked: they stay where they  *)
(* are.                                                                    *)

\* The chunks are the same but for their marks and bins.
SamePlaces(ch, ch2) ==
  /\ ch2 \in Seq(Cell) /\ Len(ch2) = Len(ch)
  /\ \A i \in 1..Len(ch) : /\ ch2[i].ptr = ch[i].ptr /\ ch2[i].size = ch[i].size
                           /\ ch2[i].prev = ch[i].prev /\ ch2[i].next = ch[i].next

\* The chunks in use other than x are the same, before and after.
Kept(hp, L, hp2, L2, x) ==
  /\ \A h \in L : h # x /\ hp.chunks[h].used =>
       /\ h \in L2 /\ hp2.chunks[h].used
       /\ hp2.chunks[h].ptr = hp.chunks[h].ptr /\ hp2.chunks[h].size = hp.chunks[h].size
  /\ \A h \in L2 : h # x /\ hp2.chunks[h].used => h \in L /\ hp.chunks[h].used

\* What two operations after each other keep, they keep together.
LEMMA KeptTransitive ==
  ASSUME NEW hp, NEW L, NEW hp2, NEW L2, NEW hp3, NEW L3, NEW x,
         Kept(hp, L, hp2, L2, x), Kept(hp2, L2, hp3, L3, x)
  PROVE  Kept(hp, L, hp3, L3, x)
BY DEF Kept

\* The parts of a heap.
LEMMA HeapFields ==
  ASSUME NEW ch, NEW f, NEW bins, NEW hd
  PROVE  /\ HeapOf(ch, f, bins, hd).chunks = ch /\ HeapOf(ch, f, bins, hd).free = f
         /\ HeapOf(ch, f, bins, hd).bins = bins /\ HeapOf(ch, f, bins, hd).handles = hd
         /\ IsHeap(HeapOf(ch, f, bins, hd))
BY DEF HeapOf, IsHeap

\* A heap with its chunks, or its bins and chunks, replaced.
LEMMA HeapExcept ==
  ASSUME NEW hp, IsHeap(hp), NEW x, NEW y
  PROVE  /\ [hp EXCEPT !.bins = x, !.chunks = y] = HeapOf(y, hp.free, x, hp.handles)
         /\ [hp EXCEPT !.chunks = y] = HeapOf(y, hp.free, hp.bins, hp.handles)
<1>1. PICK a, b, c, d : hp = [chunks |-> a, free |-> b, bins |-> c, handles |-> d]
  BY DEF IsHeap, HeapOf
<1>2. PICK r : r = [hp EXCEPT !.bins = x]
  OBVIOUS
<1>3. [r EXCEPT !.chunks = y] = [chunks |-> y, free |-> b, bins |-> x, handles |-> d]
  <2>1. r = [chunks |-> a, free |-> b, bins |-> x, handles |-> d]
    BY <1>1, <1>2
  <2> QED  BY <2>1
<1>4. [hp EXCEPT !.bins = x, !.chunks = y] = [r EXCEPT !.chunks = y]
  BY <1>2
<1>5. [hp EXCEPT !.chunks = y] = [chunks |-> y, free |-> b, bins |-> c, handles |-> d]
  BY <1>1
<1>6. hp.free = b /\ hp.handles = d /\ hp.bins = c
  BY <1>1
<1> QED  BY <1>3, <1>4, <1>5, <1>6 DEF HeapOf

\* The chunks are linked, apart and placed as before if they are where they were.
LEMMA PlacesKept ==
  ASSUME NEW hp, NEW L, NEW regs, NEW X, Sound(hp, L, regs, X),
         NEW ch2, NEW bins2, SamePlaces(hp.chunks, ch2),
         bins2 \in [0..(NumBins - 1) -> SUBSET Nat],
         NEW X2, Binned(ch2, bins2, L, X2), Joined(ch2, L, X2)
  PROVE  Sound(HeapOf(ch2, hp.free, bins2, hp.handles), L, regs, X2)
<1> DEFINE ch == hp.chunks
<1>1. L \subseteq 1..Len(ch) /\ ch \in Seq(Cell)
  BY DEF Sound, Typed
<1>2. Typed(ch2, hp.free, bins2, L)
  BY DEF Sound, Typed, SamePlaces
<1>3. Named(ch2, hp.handles, L)
  <2>1. \A h \in L : ch2[h].ptr = ch[h].ptr
    BY <1>1 DEF SamePlaces
  <2>2. {ch2[h].ptr : h \in L} = {ch[h].ptr : h \in L}
    BY <2>1
  <2> QED  BY <2>1, <2>2 DEF Sound, Named
<1>4. Chained(ch2, hp.free, L)
  <2>1. Chained(ch, hp.free, L) /\ Unused(ch2, L) = Unused(ch, L)
    BY DEF Sound, Unused, SamePlaces
  <2>2. \A g \in Unused(ch, L) : ch2[g].next = ch[g].next /\ ch2[g].prev = ch[g].prev
    BY DEF Unused, SamePlaces
  <2> QED  BY <2>1, <2>2, ChainedSame
<1>5. Linked(ch2, L)
  <2>1. \A h \in L : ch2[h].next = ch[h].next /\ ch2[h].prev = ch[h].prev /\ ch2[h].ptr = ch[h].ptr
                     /\ ch2[h].size = ch[h].size /\ End(ch2[h]) = End(ch[h])
    BY <1>1 DEF SamePlaces, End
  <2>2. Linked(ch, L)
    BY DEF Sound
  <2> QED  BY <2>1, <2>2 DEF Linked
<1>6. Apart(ch2, L)
  BY <1>1 DEF Sound, Apart, SamePlaces, End
<1>7. Placed(ch2, L, regs)
  <2>1. \A h \in L : ch2[h].next = ch[h].next /\ ch2[h].prev = ch[h].prev /\ ch2[h].ptr = ch[h].ptr
                     /\ ch2[h].size = ch[h].size
    BY <1>1 DEF SamePlaces
  <2>2. \A h \in L : ch[h].next # kInvalid => ch[h].next \in L
    BY DEF Sound, Linked
  <2>3. \A h \in L, r \in regs : Inside(ch2[h], r) <=> Inside(ch[h], r)
    BY <2>1 DEF Inside, End
  <2>4. \A h \in L : End(ch2[h]) = End(ch[h])
    BY <2>1 DEF End
  <2>5. Placed(ch, L, regs)
    BY DEF Sound
  <2>6. \A h \in L : \E r \in regs : Inside(ch2[h], r)
    BY <2>3, <2>5 DEF Placed
  <2>7. \A h \in L, r \in regs :
          ch2[h].next # kInvalid => (Inside(ch2[h], r) <=> Inside(ch2[ch2[h].next], r))
    BY <2>1, <2>2, <2>3, <2>5 DEF Placed
  <2>8. \A h \in L : ch2[h].next = kInvalid => \E r \in regs : End(ch2[h]) = r.ptr + r.size
    BY <2>1, <2>4, <2>5 DEF Placed
  <2>9. \A r \in regs : \E h \in L : ch2[h].ptr = r.ptr /\ ch2[h].prev = kInvalid
    <3>1. \A r \in regs : \E h \in L : ch[h].ptr = r.ptr /\ ch[h].prev = kInvalid
      BY <2>5 DEF Placed
    <3> QED  BY <2>1, <3>1
  <2> QED  BY <2>5, <2>6, <2>7, <2>8, <2>9 DEF Placed
<1> QED  BY <1>2, <1>3, <1>4, <1>5, <1>6, <1>7, HeapFields DEF Sound

\* A change of one chunk that leaves it where it is.
Replaced(ch, h, c) == [ch EXCEPT ![h] = c]

SamePlace(c, d) == c.ptr = d.ptr /\ c.size = d.size /\ c.prev = d.prev /\ c.next = d.next

\* A chunk is replaced by one at the same place.
LEMMA CellChange ==
  ASSUME NEW ch \in Seq(Cell), NEW h \in 1..Len(ch), NEW c \in Cell, SamePlace(c, ch[h])
  PROVE  /\ SamePlaces(ch, Replaced(ch, h, c)) /\ Replaced(ch, h, c)[h] = c
         /\ \A i \in 1..Len(ch) : i # h => Replaced(ch, h, c)[i] = ch[i]
<1>1. /\ Replaced(ch, h, c) \in Seq(Cell) /\ Len(Replaced(ch, h, c)) = Len(ch)
      /\ Replaced(ch, h, c)[h] = c
      /\ \A i \in 1..Len(ch) : i # h => Replaced(ch, h, c)[i] = ch[i]
  BY DEF Replaced
<1> QED  BY <1>1 DEF SamePlaces, SamePlace

\* What is said of one chunk of a sound heap.
LEMMA CellFacts ==
  ASSUME NEW hp, NEW L, NEW regs, NEW X, Sound(hp, L, regs, X), NEW h \in L
  PROVE  /\ hp.chunks \in Seq(Cell) /\ h \in 1..Len(hp.chunks) /\ h # kInvalid
         /\ hp.chunks[h] \in Cell /\ hp.chunks[h].size > 0
BY DEF Sound, Typed, Linked, kInvalid

\* The heap that RemoveFreeChunkFromBin leaves.
LEMMA RemoveHeap ==
  ASSUME NEW hp, IsHeap(hp), NEW h
  PROVE  RemoveFreeChunkFromBin(hp, h)
           = HeapOf([hp.chunks EXCEPT ![h].bin = NoBin], hp.free,
                    [hp.bins EXCEPT ![hp.chunks[h].bin] = @ \ {h}], hp.handles)
<1> DEFINE x == [hp.bins EXCEPT ![hp.chunks[h].bin] = @ \ {h}]
           y == [hp.chunks EXCEPT ![h].bin = NoBin]
<1>1. RemoveFreeChunkFromBin(hp, h) = [hp EXCEPT !.bins = x, !.chunks = y]
  BY DEF RemoveFreeChunkFromBin, IsHeap, HeapOf
<1> HIDE DEF x, y
<1>2. [hp EXCEPT !.bins = x, !.chunks = y] = HeapOf(y, hp.free, x, hp.handles)
  BY HeapExcept
<1> QED  BY <1>1, <1>2 DEF x, y

\* The heap that InsertFreeChunkIntoBin leaves.
LEMMA InsertHeap ==
  ASSUME NEW hp, IsHeap(hp), NEW h
  PROVE  InsertFreeChunkIntoBin(hp, h)
           = HeapOf([hp.chunks EXCEPT ![h].bin = BinNumForSize(hp.chunks[h].size)], hp.free,
                    [hp.bins EXCEPT ![BinNumForSize(hp.chunks[h].size)] = @ \cup {h}], hp.handles)
<1> DEFINE b == BinNumForSize(hp.chunks[h].size)
           x == [hp.bins EXCEPT ![b] = @ \cup {h}]
           y == [hp.chunks EXCEPT ![h].bin = b]
<1> HIDE DEF b
<1>1. InsertFreeChunkIntoBin(hp, h) = [hp EXCEPT !.bins = x, !.chunks = y]
  BY DEF InsertFreeChunkIntoBin, IsHeap, HeapOf, b
<1> HIDE DEF x, y
<1>2. [hp EXCEPT !.bins = x, !.chunks = y] = HeapOf(y, hp.free, x, hp.handles)
  BY HeapExcept
<1> QED  BY <1>1, <1>2 DEF x, y, b

\* A free chunk that is taken out of its bin is in hand.
LEMMA Remove ==
  ASSUME NEW hp, NEW L, NEW regs, NEW X, Sound(hp, L, regs, X),
         NEW h \in L, h \notin X, ~hp.chunks[h].used
  PROVE  LET hp2 == RemoveFreeChunkFromBin(hp, h)
         IN  /\ Sound(hp2, L, regs, X \cup {h}) /\ SamePlaces(hp.chunks, hp2.chunks)
             /\ \A g \in L : hp2.chunks[g].used = hp.chunks[g].used
             /\ hp2.free = hp.free /\ hp2.handles = hp.handles
<1> DEFINE ch == hp.chunks
           b == ch[h].bin
           c == [ch[h] EXCEPT !.used = FALSE, !.bin = NoBin]
           ch2 == Replaced(ch, h, c)
           bins2 == [hp.bins EXCEPT ![b] = @ \ {h}]
           hp2 == HeapOf(ch2, hp.free, bins2, hp.handles)
<1>0. NoBin \in Int
  BY DEF NoBin
<1>1. ch \in Seq(Cell) /\ h \in 1..Len(ch) /\ ch[h] \in Cell /\ L \subseteq 1..Len(ch) /\ ch[h].used = FALSE
  BY CellFacts DEF Sound, Typed, Cell
<1>2. b = BinNumForSize(ch[h].size) /\ b \in 0..(NumBins - 1)
  BY <1>1, BinFacts DEF Sound, Binned, Cell
<1>3. /\ SamePlaces(ch, ch2) /\ ch2[h].used = FALSE /\ ch2[h].bin = NoBin
      /\ \A i \in 1..Len(ch) : i # h => ch2[i] = ch[i]
  <2>1. c \in Cell /\ SamePlace(c, ch[h]) /\ c.used = FALSE /\ c.bin = NoBin
    BY <1>1, <1>0 DEF Cell, SamePlace
  <2> HIDE DEF c
  <2> QED  BY <1>1, <2>1, CellChange
<1>4. hp.bins \in [0..(NumBins - 1) -> SUBSET Nat]
  BY DEF Sound, Typed
<1>5. RemoveFreeChunkFromBin(hp, h) = hp2
  <2>1. IsHeap(hp)
    BY DEF Sound
  <2>2. ch2 = [ch EXCEPT ![h].bin = NoBin]
    <3>1. [ch[h] EXCEPT !.used = FALSE, !.bin = NoBin] = [ch[h] EXCEPT !.bin = NoBin]
      BY <1>1 DEF Cell
    <3> QED  BY <3>1 DEF Replaced
  <2> QED  BY <2>1, <2>2, RemoveHeap
<1> HIDE DEF ch2, bins2
<1>6. bins2 \in [0..(NumBins - 1) -> SUBSET Nat]
  BY <1>4 DEF bins2
<1>7. Binned(ch2, bins2, L, X \cup {h})
  <2>1. Binned(ch, hp.bins, L, X)
    BY DEF Sound
  <2>2. \A g \in L : ch2[g].used = ch[g].used /\ ch2[g].size = ch[g].size
                     /\ (g # h => ch2[g].bin = ch[g].bin)
    BY <1>1, <1>3 DEF SamePlaces
  <2>3. \A g \in L : ch2[g].bin = IF ch2[g].used \/ g \in X \cup {h} THEN NoBin
                                                     ELSE BinNumForSize(ch2[g].size)
    BY <1>3, <2>1, <2>2 DEF Binned
  <2>4. \A a \in 0..(NumBins - 1) : bins2[a] = {g \in L : ch2[g].bin = a}
    <3>1. TAKE a \in 0..(NumBins - 1)
    <3>2. bins2[a] = IF a = b THEN hp.bins[a] \ {h} ELSE hp.bins[a]
      BY <1>4 DEF bins2
    <3>3. hp.bins[a] = {g \in L : ch[g].bin = a}
      BY <2>1 DEF Binned
    <3>4. a # NoBin
      BY DEF NoBin
    <3> QED  BY <1>3, <2>2, <3>2, <3>3, <3>4
  <2> QED  BY <2>3, <2>4 DEF Binned
<1>8. Joined(ch2, L, X \cup {h})
  <2>1. Joined(ch, L, X)
    BY DEF Sound
  <2>2. \A g \in L : ch[g].next # kInvalid => ch[g].next \in L
    BY DEF Sound, Linked
  <2> QED  BY <1>1, <1>3, <2>1, <2>2, ZenonT(30) DEF Joined, SamePlaces
<1>9. Sound(hp2, L, regs, X \cup {h})
  BY <1>3, <1>6, <1>7, <1>8, PlacesKept
<1>10. hp2.chunks = ch2 /\ hp2.free = hp.free /\ hp2.handles = hp.handles
  BY HeapFields
<1>11. \A g \in L : ch2[g].used = ch[g].used
  BY <1>1, <1>3
<1> QED  BY <1>3, <1>5, <1>9, <1>10, <1>11

\* A chunk in hand whose neighbours are used goes into the bin of its size.
LEMMA Insert ==
  ASSUME NEW hp, NEW L, NEW regs, NEW X, Sound(hp, L, regs, X),
         NEW h \in L, h \in X, ~hp.chunks[h].used,
         hp.chunks[h].next # kInvalid /\ hp.chunks[h].next \notin X \ {h}
           => hp.chunks[hp.chunks[h].next].used,
         hp.chunks[h].prev # kInvalid /\ hp.chunks[h].prev \notin X \ {h}
           => hp.chunks[hp.chunks[h].prev].used
  PROVE  LET hp2 == InsertFreeChunkIntoBin(hp, h)
         IN  /\ Sound(hp2, L, regs, X \ {h}) /\ SamePlaces(hp.chunks, hp2.chunks)
             /\ \A g \in L : hp2.chunks[g].used = hp.chunks[g].used
             /\ hp2.free = hp.free /\ hp2.handles = hp.handles
<1> DEFINE ch == hp.chunks
           b == BinNumForSize(ch[h].size)
           c == [ch[h] EXCEPT !.used = FALSE, !.bin = b]
           ch2 == Replaced(ch, h, c)
           bins2 == [hp.bins EXCEPT ![b] = @ \cup {h}]
           hp2 == HeapOf(ch2, hp.free, bins2, hp.handles)
<1>1. ch \in Seq(Cell) /\ h \in 1..Len(ch) /\ ch[h] \in Cell /\ L \subseteq 1..Len(ch) /\ ch[h].used = FALSE
  <2>1. ch \in Seq(Cell) /\ h \in 1..Len(ch) /\ ch[h] \in Cell /\ L \subseteq 1..Len(ch)
    BY CellFacts DEF Sound, Typed
  <2>2. ch[h].used \in BOOLEAN
    BY <2>1 DEF Cell
  <2> QED  BY <2>1, <2>2
<1>2. b \in 0..(NumBins - 1) /\ b \in Int
  <2>1. ch[h].size \in Nat
    BY <1>1 DEF Cell
  <2> HIDE DEF ch
  <2> QED  BY <2>1, BinFacts
<1>3. /\ SamePlaces(ch, ch2) /\ ch2[h].used = FALSE /\ ch2[h].bin = b
      /\ \A i \in 1..Len(ch) : i # h => ch2[i] = ch[i]
  <2>1. c \in Cell /\ SamePlace(c, ch[h]) /\ c.used = FALSE /\ c.bin = b
    BY <1>1, <1>2 DEF Cell, SamePlace
  <2> HIDE DEF c
  <2> QED  BY <1>1, <2>1, CellChange
<1>4. hp.bins \in [0..(NumBins - 1) -> SUBSET Nat]
  BY DEF Sound, Typed
<1>5. InsertFreeChunkIntoBin(hp, h) = hp2
  <2>1. IsHeap(hp)
    BY DEF Sound
  <2>2. ch2 = [ch EXCEPT ![h].bin = b]
    <3>1. [ch[h] EXCEPT !.used = FALSE, !.bin = b] = [ch[h] EXCEPT !.bin = b]
      BY <1>1 DEF Cell
    <3> QED  BY <3>1 DEF Replaced
  <2> QED  BY <2>1, <2>2, InsertHeap
<1> HIDE DEF ch2, bins2
<1>6. bins2 \in [0..(NumBins - 1) -> SUBSET Nat]
  <2>1. h \in Nat
    BY <1>1
  <2> QED  BY <1>4, <2>1 DEF bins2
<1>7. Binned(ch2, bins2, L, X \ {h})
  <2>1. Binned(ch, hp.bins, L, X)
    BY DEF Sound
  <2>2. \A g \in L : ch2[g].used = ch[g].used /\ ch2[g].size = ch[g].size
                     /\ (g # h => ch2[g].bin = ch[g].bin)
    BY <1>1, <1>3 DEF SamePlaces
  <2>3. \A g \in L : ch2[g].bin = IF ch2[g].used \/ g \in X \ {h} THEN NoBin
                                                     ELSE BinNumForSize(ch2[g].size)
    BY <1>3, <2>1, <2>2 DEF Binned
  <2>4. \A a \in 0..(NumBins - 1) : bins2[a] = {g \in L : ch2[g].bin = a}
    <3>1. TAKE a \in 0..(NumBins - 1)
    <3>2. bins2[a] = IF a = b THEN hp.bins[a] \cup {h} ELSE hp.bins[a]
      BY <1>4 DEF bins2
    <3>3. hp.bins[a] = {g \in L : ch[g].bin = a}
      BY <2>1 DEF Binned
    <3>4. a # NoBin /\ ch[h].bin = NoBin
      BY <2>1 DEF NoBin, Binned
    <3> QED  BY <1>3, <2>2, <3>2, <3>3, <3>4
  <2> QED  BY <2>3, <2>4 DEF Binned
<1>8. Joined(ch2, L, X \ {h})
  <2>1. Joined(ch, L, X)
    BY DEF Sound
  <2>2. \A g \in L : ch[g].next # kInvalid => ch[g].next \in L /\ ch[ch[g].next].prev = g
    BY DEF Sound, Linked
  <2>3. \A g \in L : g # kInvalid
    BY <1>1 DEF kInvalid
  <2>4. \A g \in L : ch2[g].next = ch[g].next /\ (g # h => ch2[g].used = ch[g].used)
    BY <1>1, <1>3 DEF SamePlaces
  <2> SUFFICES ASSUME NEW g \in L, g \notin X \ {h}, ~ch2[g].used, ch[g].next # kInvalid,
                      ch[g].next \notin X \ {h}
               PROVE  ch2[ch[g].next].used
    BY <2>4 DEF Joined
  <2>5. ch[g].next \in L /\ ch[ch[g].next].prev = g
    BY <2>2
  <2>6. CASE g = h
    BY <1>1, <1>3, <2>3, <2>4, <2>5, <2>6
  <2>7. CASE g # h /\ ch[g].next = h
    BY <1>1, <1>3, <2>3, <2>4, <2>5, <2>7
  <2>8. CASE g # h /\ ch[g].next # h
    BY <2>1, <2>4, <2>5, <2>8 DEF Joined
  <2> QED  BY <2>6, <2>7, <2>8
<1>9. Sound(hp2, L, regs, X \ {h})
  BY <1>3, <1>6, <1>7, <1>8, PlacesKept
<1>10. hp2.chunks = ch2 /\ hp2.free = hp.free /\ hp2.handles = hp.handles
  BY HeapFields
<1>11. \A g \in L : ch2[g].used = ch[g].used
  BY <1>1, <1>3
<1> QED  BY <1>3, <1>5, <1>9, <1>10, <1>11

\* The chunk in hand is marked as used.
LEMMA MarkUsed ==
  ASSUME NEW hp, NEW L, NEW regs, NEW X, Sound(hp, L, regs, X), NEW h \in L, h \in X
  PROVE  LET hp2 == [hp EXCEPT !.chunks[h].used = TRUE]
         IN  /\ Sound(hp2, L, regs, X \ {h}) /\ SamePlaces(hp.chunks, hp2.chunks)
             /\ hp2.chunks[h].used
             /\ \A g \in L : g # h => hp2.chunks[g].used = hp.chunks[g].used
<1> DEFINE ch == hp.chunks
           c == [ch[h] EXCEPT !.used = TRUE, !.bin = NoBin]
           ch2 == Replaced(ch, h, c)
           hp2 == HeapOf(ch2, hp.free, hp.bins, hp.handles)
<1>0. NoBin \in Int
  BY DEF NoBin
<1>1. ch \in Seq(Cell) /\ h \in 1..Len(ch) /\ ch[h] \in Cell /\ L \subseteq 1..Len(ch)
  BY CellFacts DEF Sound, Typed
<1>2. Binned(ch, hp.bins, L, X) /\ ch[h].bin = NoBin
  BY DEF Sound, Binned
<1>3. /\ SamePlaces(ch, ch2) /\ ch2[h].used = TRUE /\ ch2[h].bin = NoBin
      /\ \A i \in 1..Len(ch) : i # h => ch2[i] = ch[i]
  <2>1. c \in Cell /\ SamePlace(c, ch[h]) /\ c.used = TRUE /\ c.bin = NoBin
    BY <1>1, <1>0 DEF Cell, SamePlace
  <2> HIDE DEF c
  <2> QED  BY <1>1, <2>1, CellChange
<1>4. hp.bins \in [0..(NumBins - 1) -> SUBSET Nat]
  BY DEF Sound, Typed
<1>5. [hp EXCEPT !.chunks[h].used = TRUE] = hp2
  <2>1. IsHeap(hp)
    BY DEF Sound
  <2>2. ch2 = [ch EXCEPT ![h].used = TRUE]
    <3>1. [ch[h] EXCEPT !.used = TRUE, !.bin = NoBin] = [ch[h] EXCEPT !.used = TRUE]
      BY <1>1, <1>2 DEF Cell
    <3> QED  BY <3>1 DEF Replaced
  <2>3. [hp EXCEPT !.chunks[h].used = TRUE] = [hp EXCEPT !.chunks = [ch EXCEPT ![h].used = TRUE]]
    BY <2>1 DEF IsHeap, HeapOf
  <2> HIDE DEF c, ch2
  <2> QED  BY <2>1, <2>2, <2>3, HeapExcept
<1> HIDE DEF ch2
<1>6. Binned(ch2, hp.bins, L, X \ {h})
  <2>1. \A g \in L : (g # h => ch2[g].used = ch[g].used) /\ ch2[g].size = ch[g].size
                     /\ ch2[g].bin = ch[g].bin
    BY <1>1, <1>2, <1>3 DEF SamePlaces
  <2> QED  BY <1>2, <1>3, <2>1 DEF Binned
<1>7. Joined(ch2, L, X \ {h})
  <2>1. Joined(ch, L, X)
    BY DEF Sound
  <2>2. \A g \in L : ch[g].next # kInvalid => ch[g].next \in L
    BY DEF Sound, Linked
  <2> QED  BY <1>1, <1>3, <2>1, <2>2, ZenonT(30) DEF Joined, SamePlaces
<1>8. Sound(hp2, L, regs, X \ {h})
  BY <1>3, <1>4, <1>6, <1>7, PlacesKept
<1> QED  BY <1>1, <1>3, <1>5, <1>8 DEF HeapOf

\* A used chunk is taken in hand to be freed.
LEMMA MarkFree ==
  ASSUME NEW hp, NEW L, NEW regs, NEW X, Sound(hp, L, regs, X), NEW h \in L, hp.chunks[h].used
  PROVE  LET hp2 == [hp EXCEPT !.chunks[h].used = FALSE]
         IN  /\ Sound(hp2, L, regs, X \cup {h}) /\ SamePlaces(hp.chunks, hp2.chunks)
             /\ ~hp2.chunks[h].used
             /\ \A g \in L : g # h => hp2.chunks[g].used = hp.chunks[g].used
<1> DEFINE ch == hp.chunks
           c == [ch[h] EXCEPT !.used = FALSE, !.bin = NoBin]
           ch2 == Replaced(ch, h, c)
           hp2 == HeapOf(ch2, hp.free, hp.bins, hp.handles)
<1>0. NoBin \in Int
  BY DEF NoBin
<1>1. ch \in Seq(Cell) /\ h \in 1..Len(ch) /\ ch[h] \in Cell /\ L \subseteq 1..Len(ch)
  BY CellFacts DEF Sound, Typed
<1>2. Binned(ch, hp.bins, L, X) /\ ch[h].bin = NoBin
  BY DEF Sound, Binned
<1>3. /\ SamePlaces(ch, ch2) /\ ch2[h].used = FALSE /\ ch2[h].bin = NoBin
      /\ \A i \in 1..Len(ch) : i # h => ch2[i] = ch[i]
  <2>1. c \in Cell /\ SamePlace(c, ch[h]) /\ c.used = FALSE /\ c.bin = NoBin
    BY <1>1, <1>0 DEF Cell, SamePlace
  <2> HIDE DEF c
  <2> QED  BY <1>1, <2>1, CellChange
<1>4. hp.bins \in [0..(NumBins - 1) -> SUBSET Nat]
  BY DEF Sound, Typed
<1>5. [hp EXCEPT !.chunks[h].used = FALSE] = hp2
  <2>1. IsHeap(hp)
    BY DEF Sound
  <2>2. ch2 = [ch EXCEPT ![h].used = FALSE]
    <3>1. [ch[h] EXCEPT !.used = FALSE, !.bin = NoBin] = [ch[h] EXCEPT !.used = FALSE]
      BY <1>1, <1>2 DEF Cell
    <3> QED  BY <3>1 DEF Replaced
  <2>3. [hp EXCEPT !.chunks[h].used = FALSE] = [hp EXCEPT !.chunks = [ch EXCEPT ![h].used = FALSE]]
    BY <2>1 DEF IsHeap, HeapOf
  <2> HIDE DEF c, ch2
  <2> QED  BY <2>1, <2>2, <2>3, HeapExcept
<1> HIDE DEF ch2
<1>6. Binned(ch2, hp.bins, L, X \cup {h})
  <2>1. \A g \in L : (g # h => ch2[g].used = ch[g].used) /\ ch2[g].size = ch[g].size
                     /\ ch2[g].bin = ch[g].bin
    BY <1>1, <1>2, <1>3 DEF SamePlaces
  <2> QED  BY <1>2, <1>3, <2>1 DEF Binned
<1>7. Joined(ch2, L, X \cup {h})
  <2>1. Joined(ch, L, X)
    BY DEF Sound
  <2>2. \A g \in L : ch[g].next # kInvalid => ch[g].next \in L
    BY DEF Sound, Linked
  <2> QED  BY <1>1, <1>3, <2>1, <2>2, ZenonT(30) DEF Joined, SamePlaces
<1>8. Sound(hp2, L, regs, X \cup {h})
  BY <1>3, <1>4, <1>6, <1>7, PlacesKept
<1> QED  BY <1>1, <1>3, <1>5, <1>8 DEF HeapOf


-----------------------------------------------------------------------------
(* A chunk is joined with the next one.                                    *)

\* The heap that SetPrev leaves.
LEMMA SetPrevHeap ==
  ASSUME NEW hp, IsHeap(hp), NEW h, NEW prev
  PROVE  SetPrev(hp, h, prev)
           = HeapOf(IF h = kInvalid THEN hp.chunks ELSE [hp.chunks EXCEPT ![h].prev = prev],
                    hp.free, hp.bins, hp.handles)
<1>1. CASE h = kInvalid
  BY <1>1 DEF SetPrev, IsHeap
<1>2. CASE h # kInvalid
  <2> DEFINE y == [hp.chunks EXCEPT ![h].prev = prev]
  <2>1. SetPrev(hp, h, prev) = [hp EXCEPT !.chunks = y]
    BY <1>2 DEF SetPrev, IsHeap, HeapOf
  <2> HIDE DEF y
  <2>2. SetPrev(hp, h, prev) = HeapOf(y, hp.free, hp.bins, hp.handles)
    BY <2>1, HeapExcept
  <2> QED  BY <1>2, <2>2 DEF y
<1> QED  BY <1>1, <1>2

Enlarged(hp, h, next, size) == [hp EXCEPT !.chunks[h].next = next, !.chunks[h].size = @ + size]

EnlargedCells(ch, h, next, size) ==
  [ch EXCEPT ![h] = [ch[h] EXCEPT !.next = next, !.size = @ + size]]

\* The first part of Merge: the chunk h1 takes the size and the next chunk of h2.
LEMMA JoinHeap ==
  ASSUME NEW hp, IsHeap(hp), hp.chunks \in Seq(Cell), NEW h \in 1..Len(hp.chunks),
         NEW next \in Nat, NEW size \in Nat
  PROVE  Enlarged(hp, h, next, size)
           = HeapOf(EnlargedCells(hp.chunks, h, next, size), hp.free, hp.bins, hp.handles)
<1> DEFINE c == [hp.chunks[h] EXCEPT !.next = next, !.size = @ + size]
           y == [hp.chunks EXCEPT ![h] = c]
<1>1. PICK r : r = [hp EXCEPT !.chunks[h].next = next]
  OBVIOUS
<1>2. PICK z : z = [hp.chunks EXCEPT ![h].next = next]
  OBVIOUS
<1>3. r = HeapOf(z, hp.free, hp.bins, hp.handles)
  <2>1. r = [hp EXCEPT !.chunks = z]
    BY <1>1, <1>2 DEF IsHeap, HeapOf
  <2> QED  BY <2>1, HeapExcept
<1>4. IsHeap(r) /\ r.chunks = z /\ r.free = hp.free /\ r.bins = hp.bins /\ r.handles = hp.handles
  BY <1>3, HeapFields
<1>5. [hp EXCEPT !.chunks[h].next = next, !.chunks[h].size = @ + size]
        = [r EXCEPT !.chunks[h].size = @ + size]
  BY <1>1
<1>6. [z EXCEPT ![h].size = @ + size] = y
  <2>1. hp.chunks[h] \in Cell
    OBVIOUS
  <2>2. z[h] = [hp.chunks[h] EXCEPT !.next = next] /\ z \in Seq(Cell) /\ Len(z) = Len(hp.chunks)
    <3>1. [hp.chunks[h] EXCEPT !.next = next] \in Cell
      BY <2>1 DEF Cell
    <3> QED  BY <1>2, <3>1
  <2>3. [z[h] EXCEPT !.size = @ + size] = c
    BY <2>1, <2>2 DEF Cell
  <2> HIDE DEF c
  <2> QED  BY <1>2, <2>2, <2>3, SMTT(30)
<1>7. [r EXCEPT !.chunks[h].size = @ + size] = [r EXCEPT !.chunks = [z EXCEPT ![h].size = @ + size]]
  BY <1>4 DEF IsHeap, HeapOf
<1> HIDE DEF y
<1>8. [r EXCEPT !.chunks = y] = HeapOf(y, hp.free, hp.bins, hp.handles)
  BY <1>4, HeapExcept
<1>9. [hp EXCEPT !.chunks[h].next = next, !.chunks[h].size = @ + size]
        = HeapOf(y, hp.free, hp.bins, hp.handles)
  BY <1>5, <1>6, <1>7, <1>8
<1> QED  BY <1>9 DEF y, Enlarged, EnlargedCells

\* The heap that DeleteChunk leaves.
LEMMA DeleteHeap ==
  ASSUME NEW hp, IsHeap(hp), NEW h
  PROVE  DeleteChunk(hp, h)
           = HeapOf([hp.chunks EXCEPT ![h] = Chunk(0, 0, kInvalid, hp.free)], h, hp.bins,
                    [p \in DOMAIN hp.handles \ {hp.chunks[h].ptr} |-> hp.handles[p]])
<1> DEFINE x == [p \in DOMAIN hp.handles \ {hp.chunks[h].ptr} |-> hp.handles[p]]
           y == [hp.chunks EXCEPT ![h] = Chunk(0, 0, kInvalid, hp.free)]
<1>1. PICK a, b, c, d : hp = [chunks |-> a, free |-> b, bins |-> c, handles |-> d]
  BY DEF IsHeap, HeapOf
<1>2. hp.chunks = a /\ hp.free = b /\ hp.bins = c /\ hp.handles = d
  BY <1>1
<1>3. Erase(hp, hp.chunks[h].ptr) = [hp EXCEPT !.handles = x]
  BY DEF Erase
<1> HIDE DEF x
<1>4. PICK r : r = [hp EXCEPT !.handles = x]
  OBVIOUS
<1>5. r = [chunks |-> a, free |-> b, bins |-> c, handles |-> x]
  BY <1>1, <1>4
<1>6. DeleteChunk(hp, h) = [r EXCEPT !.chunks[h] = Chunk(0, 0, kInvalid, hp.free), !.free = h]
  BY <1>3, <1>4 DEF DeleteChunk
<1>7. PICK s : s = [r EXCEPT !.chunks[h] = Chunk(0, 0, kInvalid, hp.free)]
  OBVIOUS
<1>8. s = [r EXCEPT !.chunks = y]
  BY <1>2, <1>5, <1>7
<1> HIDE DEF y
<1>9. s = [chunks |-> y, free |-> b, bins |-> c, handles |-> x]
  BY <1>5, <1>8
<1>10. DeleteChunk(hp, h) = [s EXCEPT !.free = h]
  BY <1>6, <1>7
<1>11. DeleteChunk(hp, h) = [chunks |-> y, free |-> h, bins |-> c, handles |-> x]
  BY <1>9, <1>10
<1> QED  BY <1>2, <1>11 DEF HeapOf, x, y

\* The chunks after h2, which follows h1, became part of h1.
Fused(ch, ch2, h1, h2, f, L) ==
  /\ ch2 \in Seq(Cell) /\ Len(ch2) = Len(ch)
  /\ ch2[h2].next = f /\ ch2[h2].prev = kInvalid
  /\ ch2[h1].ptr = ch[h1].ptr /\ ch2[h1].size = ch[h1].size + ch[h2].size
  /\ ch2[h1].prev = ch[h1].prev /\ ch2[h1].next = ch[h2].next
  /\ ch2[h1].used = ch[h1].used /\ ch2[h1].bin = ch[h1].bin
  /\ \A g \in L \ {h1, h2} :
       /\ ch2[g].ptr = ch[g].ptr /\ ch2[g].size = ch[g].size /\ ch2[g].next = ch[g].next
       /\ ch2[g].used = ch[g].used /\ ch2[g].bin = ch[g].bin
       /\ ch2[g].prev = IF g = ch[h2].next THEN h1 ELSE ch[g].prev
  /\ \A g \in Unused(ch, L) : ch2[g].next = ch[g].next /\ ch2[g].prev = ch[g].prev

\* The chunks are three different ones.
LEMMA ThreeChunks ==
  ASSUME NEW hp, NEW L, NEW regs, NEW X, Sound(hp, L, regs, X),
         NEW h1 \in L, NEW h2 \in L, hp.chunks[h1].next = h2
  PROVE  h1 # h2 /\ hp.chunks[h2].next \notin {h1, h2}
<1> DEFINE ch == hp.chunks
           n2 == ch[h2].next
<1>1. /\ ch[h1] \in Cell /\ ch[h2] \in Cell /\ h1 # kInvalid /\ h2 # kInvalid
      /\ ch[h1].size > 0 /\ ch[h2].size > 0
  BY CellFacts
<1>2. /\ ch[h1].ptr \in Nat /\ ch[h1].size \in Nat /\ ch[h2].ptr \in Nat /\ ch[h2].size \in Nat
  BY <1>1 DEF Cell
<1>3. ch[h2].ptr = ch[h1].ptr + ch[h1].size
  BY <1>1 DEF Sound, Linked, End
<1>4. n2 # kInvalid => ch[n2].ptr = ch[h2].ptr + ch[h2].size
  BY DEF Sound, Linked, End
<1> QED  BY <1>1, <1>2, <1>3, <1>4

\* The heap that Merge leaves.
LEMMA MergeHeap ==
  ASSUME NEW hp, NEW L, NEW regs, NEW X, Sound(hp, L, regs, X),
         NEW h1 \in L, NEW h2 \in L, hp.chunks[h1].next = h2
  PROVE  \E ch2 :
           /\ Merge(hp, h1, h2)
                = HeapOf(ch2, h2, hp.bins,
                         [p \in DOMAIN hp.handles \ {hp.chunks[h2].ptr} |-> hp.handles[p]])
           /\ Fused(hp.chunks, ch2, h1, h2, hp.free, L)
<1> DEFINE ch == hp.chunks
           n2 == ch[h2].next
           c1 == [ch[h1] EXCEPT !.next = n2, !.size = @ + ch[h2].size]
           y1 == [ch EXCEPT ![h1] = c1]
           y2 == IF n2 = kInvalid THEN y1 ELSE [y1 EXCEPT ![n2].prev = h1]
           d == Chunk(0, 0, kInvalid, hp.free)
           y3 == [y2 EXCEPT ![h2] = d]
<1>1. /\ ch \in Seq(Cell) /\ h1 \in 1..Len(ch) /\ h2 \in 1..Len(ch) /\ h1 # h2
      /\ n2 \notin {h1, h2} /\ ch[h1] \in Cell /\ ch[h2] \in Cell /\ L \subseteq 1..Len(ch)
      /\ (n2 # kInvalid => n2 \in L) /\ n2 \in Nat /\ ch[h2].size \in Nat /\ hp.free \in Nat
      /\ IsHeap(hp)
  <2>1. h1 # h2 /\ n2 \notin {h1, h2} /\ ch[h1] \in Cell /\ ch[h2] \in Cell
    BY ThreeChunks, CellFacts
  <2>2. n2 \in Nat /\ ch[h2].size \in Nat
    BY <2>1 DEF Cell
  <2>3. ch \in Seq(Cell) /\ h1 \in 1..Len(ch) /\ h2 \in 1..Len(ch)
    BY CellFacts
  <2>4. L \subseteq 1..Len(ch) /\ hp.free \in Nat
    BY <2>3 DEF Sound, Typed
  <2>5. (n2 # kInvalid => n2 \in L) /\ IsHeap(hp)
    BY DEF Sound, Linked
  <2> QED  BY <2>1, <2>2, <2>3, <2>4, <2>5
<1>2. /\ c1 \in Cell /\ c1.ptr = ch[h1].ptr /\ c1.size = ch[h1].size + ch[h2].size
      /\ c1.prev = ch[h1].prev /\ c1.next = n2 /\ c1.used = ch[h1].used /\ c1.bin = ch[h1].bin
  <2>0. ch[h1].size \in Nat
    BY <1>1 DEF Cell
  <2>1. PICK s \in Nat : s = ch[h1].size + ch[h2].size
    BY <1>1, <2>0
  <2>2. c1 = [ch[h1] EXCEPT !.next = n2, !.size = s]
    BY <2>1
  <2> HIDE DEF c1
  <2> QED  BY <1>1, <2>1, <2>2 DEF Cell
<1>3. d \in Cell /\ d.next = hp.free /\ d.prev = kInvalid
  BY <1>1 DEF Chunk, Cell, kInvalid, NoBin
<1>4. Merge(hp, h1, h2)
        = HeapOf(y3, h2, hp.bins, [p \in DOMAIN hp.handles \ {ch[h2].ptr} |-> hp.handles[p]])
  <2>1. PICK j : j = [hp EXCEPT !.chunks[h1].next = ch[h2].next, !.chunks[h1].size = @ + ch[h2].size]
    OBVIOUS
  <2>2. j = HeapOf(y1, hp.free, hp.bins, hp.handles)
    <3>1. PICK a \in Nat, b \in Nat : a = n2 /\ b = ch[h2].size
      BY <1>1
    <3>2. Enlarged(hp, h1, a, b)
            = HeapOf(EnlargedCells(hp.chunks, h1, a, b), hp.free, hp.bins, hp.handles)
      BY <1>1, JoinHeap
    <3>3. j = Enlarged(hp, h1, a, b) /\ y1 = EnlargedCells(hp.chunks, h1, a, b)
      BY <2>1, <3>1 DEF Enlarged, EnlargedCells
    <3> HIDE DEF y1
    <3> QED  BY <3>2, <3>3
  <2> HIDE DEF y1, d
  <2>3. IsHeap(j) /\ j.chunks = y1 /\ j.free = hp.free /\ j.bins = hp.bins /\ j.handles = hp.handles
    BY <2>2, HeapFields
  <2>4. PICK k : k = SetPrev(j, n2, h1)
    OBVIOUS
  <2>5. k = HeapOf(y2, hp.free, hp.bins, hp.handles)
    BY <2>3, <2>4, SetPrevHeap
  <2> HIDE DEF y2
  <2>6. IsHeap(k) /\ k.chunks = y2 /\ k.free = hp.free /\ k.bins = hp.bins /\ k.handles = hp.handles
    BY <2>5, HeapFields
  <2>7. Merge(hp, h1, h2) = DeleteChunk(k, h2)
    BY <2>1, <2>4 DEF Merge
  <2>8. y2[h2].ptr = ch[h2].ptr
    <3>1. y1[h2] = ch[h2] /\ y1 \in Seq(Cell) /\ Len(y1) = Len(ch)
      <4> HIDE DEF c1
      <4> QED  BY <1>1, <1>2 DEF y1
    <3> QED  BY <1>1, <3>1 DEF y2
  <2>9. DeleteChunk(k, h2)
          = HeapOf([k.chunks EXCEPT ![h2] = Chunk(0, 0, kInvalid, k.free)], h2, k.bins,
                   [p \in DOMAIN k.handles \ {k.chunks[h2].ptr} |-> k.handles[p]])
    BY <2>6, DeleteHeap
  <2> QED  BY <2>6, <2>7, <2>8, <2>9 DEF d
<1> HIDE DEF c1, d
<1>5. /\ y1 \in Seq(Cell) /\ Len(y1) = Len(ch) /\ y1[h1] = c1
      /\ \A i \in 1..Len(ch) : i # h1 => y1[i] = ch[i]
  BY <1>1, <1>2
<1> HIDE DEF y1
<1>6. /\ y2 \in Seq(Cell) /\ Len(y2) = Len(ch)
      /\ \A i \in 1..Len(ch) : i # n2 => y2[i] = y1[i]
      /\ n2 # kInvalid => y2[n2] = [ch[n2] EXCEPT !.prev = h1]
  <2>1. CASE n2 = kInvalid
    BY <1>5, <2>1
  <2>2. CASE n2 # kInvalid
    <3>1. n2 \in 1..Len(ch) /\ y1[n2] = ch[n2] /\ ch[n2] \in Cell
      BY <1>1, <1>5, <2>2
    <3>2. [ch[n2] EXCEPT !.prev = h1] \in Cell
      <4>1. h1 \in Nat
        BY <1>1
      <4> QED  BY <3>1, <4>1 DEF Cell
    <3>3. y2 = [y1 EXCEPT ![n2] = [ch[n2] EXCEPT !.prev = h1]]
      BY <2>2, <3>1
    <3> HIDE DEF y2
    <3> QED  BY <1>5, <3>1, <3>2, <3>3
  <2> QED  BY <2>1, <2>2
<1> HIDE DEF y2
<1>7. /\ y3 \in Seq(Cell) /\ Len(y3) = Len(ch) /\ y3[h2] = d
      /\ \A i \in 1..Len(ch) : i # h2 => y3[i] = y2[i]
  BY <1>1, <1>3, <1>6
<1> HIDE DEF y3
<1>8. n2 # kInvalid => /\ y3[n2].ptr = ch[n2].ptr /\ y3[n2].size = ch[n2].size
                       /\ y3[n2].next = ch[n2].next /\ y3[n2].used = ch[n2].used
                       /\ y3[n2].bin = ch[n2].bin /\ y3[n2].prev = h1
  <2> SUFFICES ASSUME n2 # kInvalid  PROVE
                       /\ y3[n2].ptr = ch[n2].ptr /\ y3[n2].size = ch[n2].size
                       /\ y3[n2].next = ch[n2].next /\ y3[n2].used = ch[n2].used
                       /\ y3[n2].bin = ch[n2].bin /\ y3[n2].prev = h1
    OBVIOUS
  <2>1. n2 \in 1..Len(ch) /\ ch[n2] \in Cell
    BY <1>1
  <2>2. y3[n2] = [ch[n2] EXCEPT !.prev = h1]
    BY <1>1, <1>6, <1>7, <2>1
  <2> QED  BY <2>1, <2>2 DEF Cell
<1>9. y3[h1] = c1 /\ \A i \in 1..Len(ch) : i \notin {h1, h2, n2} => y3[i] = ch[i]
  BY <1>1, <1>5, <1>6, <1>7
<1>10. \A g \in L : g # kInvalid
  BY <1>1 DEF kInvalid
<1>11. Fused(ch, y3, h1, h2, hp.free, L)
  <2>1. \A g \in L \ {h1, h2} :
          /\ y3[g].ptr = ch[g].ptr /\ y3[g].size = ch[g].size /\ y3[g].next = ch[g].next
          /\ y3[g].used = ch[g].used /\ y3[g].bin = ch[g].bin
          /\ y3[g].prev = IF g = n2 THEN h1 ELSE ch[g].prev
    BY <1>1, <1>8, <1>9, <1>10
  <2>2. \A g \in Unused(ch, L) : y3[g].next = ch[g].next /\ y3[g].prev = ch[g].prev
    <3> SUFFICES ASSUME NEW g \in 1..Len(ch), g \notin L  PROVE y3[g] = ch[g]
      BY DEF Unused
    <3>1. g # n2
      BY <1>1 DEF kInvalid
    <3> QED  BY <1>9, <3>1
  <2> QED  BY <1>2, <1>3, <1>7, <1>9, <2>1, <2>2 DEF Fused
<1> QED  BY <1>4, <1>11


\* Two chunks in hand that follow each other become one.
LEMMA MergeSound ==
  ASSUME NEW hp, NEW L, NEW regs, NEW X, Sound(hp, L, regs, X),
         NEW h1 \in L, NEW h2 \in L, hp.chunks[h1].next = h2, h1 \in X, h2 \in X,
         ~hp.chunks[h1].used, ~hp.chunks[h2].used
  PROVE  LET hp2 == Merge(hp, h1, h2)
         IN  /\ Sound(hp2, L \ {h2}, regs, X \ {h2})
             /\ Fused(hp.chunks, hp2.chunks, h1, h2, hp.free, L)
             /\ h1 # h2
<1> DEFINE ch == hp.chunks
           n2 == ch[h2].next
           M == L \ {h2}
           hd2 == [p \in DOMAIN hp.handles \ {ch[h2].ptr} |-> hp.handles[p]]
<1>1. PICK ch2 : Merge(hp, h1, h2) = HeapOf(ch2, h2, hp.bins, hd2)
                 /\ Fused(ch, ch2, h1, h2, hp.free, L)
  BY MergeHeap
<1>2. h1 # h2 /\ n2 \notin {h1, h2}
  BY ThreeChunks
<1>3. ch \in Seq(Cell) /\ L \subseteq 1..Len(ch) /\ hp.free \in 0..Len(ch)
  BY DEF Sound, Typed
<1>4. \A g \in L : /\ ch[g] \in Cell /\ ch[g].ptr \in Nat /\ ch[g].size \in Nat /\ g # kInvalid
                   /\ ch[g].size > 0
  <2>1. \A g \in L : ch[g] \in Cell /\ g # kInvalid
    BY <1>3 DEF kInvalid
  <2> QED  BY <2>1 DEF Cell, Sound, Linked
<1>5. Typed(ch2, h2, hp.bins, M)
  BY <1>1, <1>3 DEF Sound, Typed, Fused
<1>6. Named(ch2, hd2, M)
  <2>1. Named(ch, hp.handles, L)
    BY DEF Sound
  <2>2. \A g \in M : ch2[g].ptr = ch[g].ptr
    BY <1>1 DEF Fused
  <2>3. DOMAIN hp.handles = {ch[h].ptr : h \in L}
    BY <2>1 DEF Named
  <2>4. \A g \in M : ch[g].ptr # ch[h2].ptr
    BY <2>1 DEF Named
  <2>5. {ch2[h].ptr : h \in M} = DOMAIN hp.handles \ {ch[h2].ptr}
    BY <2>2, <2>3, <2>4
  <2>6. \A g \in M : hd2[ch2[g].ptr] = g
    BY <2>1, <2>2, <2>3, <2>4 DEF Named
  <2> QED  BY <2>5, <2>6 DEF Named
<1>7. Chained(ch2, h2, M)
  <2>1. Chained(ch, hp.free, L) /\ Len(ch2) = Len(ch)
    BY <1>1 DEF Sound, Fused
  <2>2. /\ ch2[h2].next = hp.free /\ ch2[h2].prev = kInvalid
        /\ \A g \in Unused(ch, L) : ch2[g].next = ch[g].next /\ ch2[g].prev = ch[g].prev
    BY <1>1 DEF Fused
  <2> QED  BY <1>3, <2>1, <2>2, ChainedPush
<1>8. /\ ch2[h1].ptr = ch[h1].ptr /\ ch2[h1].size = ch[h1].size + ch[h2].size
      /\ ch2[h1].prev = ch[h1].prev /\ ch2[h1].next = n2
      /\ ch2[h1].used = ch[h1].used /\ ch2[h1].bin = ch[h1].bin
      /\ \A g \in M \ {h1} :
           /\ ch2[g].ptr = ch[g].ptr /\ ch2[g].size = ch[g].size /\ ch2[g].next = ch[g].next
           /\ ch2[g].used = ch[g].used /\ ch2[g].bin = ch[g].bin
           /\ ch2[g].prev = IF g = n2 THEN h1 ELSE ch[g].prev
  BY <1>1 DEF Fused
<1>9. /\ ch[h2].ptr = ch[h1].ptr + ch[h1].size /\ ch[h2].prev = h1
      /\ \A g \in L : g # h1 => ch[g].next # h2
      /\ \A g \in L : g # h2 /\ ch[g].next # kInvalid => ch[g].next # n2
      /\ \A g \in L : g # n2 => ch[g].prev # h2
      /\ n2 # kInvalid => n2 \in L /\ ch[n2].prev = h2 /\ ch[n2].ptr = ch[h2].ptr + ch[h2].size
  <2>1. Linked(ch, L)
    BY DEF Sound
  <2> QED  BY <1>4, <2>1 DEF Linked, End
<1>10. Linked(ch2, M)
  <2>1. Linked(ch, L)
    BY DEF Sound
  <2> SUFFICES ASSUME NEW g \in M
               PROVE  /\ ch2[g].size > 0
                      /\ ch2[g].next # kInvalid =>
                           /\ ch2[g].next \in M /\ ch2[ch2[g].next].prev = g
                           /\ ch2[ch2[g].next].ptr = ch2[g].ptr + ch2[g].size
                      /\ ch2[g].prev # kInvalid => ch2[g].prev \in M /\ ch2[ch2[g].prev].next = g
    BY DEF Linked, End
  <2>2. ch2[g].size > 0
    BY <1>4, <1>8
  <2>3. ASSUME ch2[g].next # kInvalid
        PROVE  /\ ch2[g].next \in M /\ ch2[ch2[g].next].prev = g
               /\ ch2[ch2[g].next].ptr = ch2[g].ptr + ch2[g].size
    <3>1. CASE g = h1
      BY <1>2, <1>4, <1>8, <1>9, <2>3, <3>1
    <3>2. CASE g # h1
      <4>1. ch2[g].next = ch[g].next /\ ch2[g].size = ch[g].size /\ ch2[g].ptr = ch[g].ptr
        BY <1>8, <3>2
      <4>2. /\ ch[g].next \in L /\ ch[ch[g].next].prev = g
            /\ ch[ch[g].next].ptr = ch[g].ptr + ch[g].size
        BY <2>1, <2>3, <4>1 DEF Linked, End
      <4>3. ch[g].next # h2 /\ ch[g].next # n2
        BY <1>9, <2>3, <3>2, <4>1
      <4> QED  BY <1>8, <4>1, <4>2, <4>3
    <3> QED  BY <3>1, <3>2
  <2>4. ASSUME ch2[g].prev # kInvalid
        PROVE  ch2[g].prev \in M /\ ch2[ch2[g].prev].next = g
    <3>1. CASE g = n2
      BY <1>2, <1>8, <3>1
    <3>2. CASE g # n2
      <4>1. ch2[g].prev = ch[g].prev
        BY <1>8, <3>2
      <4>2. ch[g].prev \in L /\ ch[ch[g].prev].next = g /\ ch[g].prev # h2
        BY <1>9, <2>1, <2>4, <3>2, <4>1 DEF Linked
      <4>3. ch[g].prev # h1
        BY <4>2
      <4> QED  BY <1>8, <4>1, <4>2, <4>3
    <3> QED  BY <3>1, <3>2
  <2> QED  BY <2>2, <2>3, <2>4
<1>11. Apart(ch2, M)
  <2>1. Apart(ch, L)
    BY DEF Sound
  <2>2. \A g \in M \ {h1} : /\ End(ch2[g]) <= ch2[h1].ptr \/ End(ch2[h1]) <= ch2[g].ptr
    <3> SUFFICES ASSUME NEW g \in M \ {h1}
                 PROVE  End(ch2[g]) <= ch2[h1].ptr \/ End(ch2[h1]) <= ch2[g].ptr
      OBVIOUS
    <3>1. /\ End(ch[g]) <= ch[h1].ptr \/ End(ch[h1]) <= ch[g].ptr
          /\ End(ch[g]) <= ch[h2].ptr \/ End(ch[h2]) <= ch[g].ptr
      BY <2>1 DEF Apart
    <3> QED  BY <1>4, <1>8, <1>9, <3>1 DEF End
  <2>3. \A g, h \in M \ {h1} : g # h => End(ch2[g]) <= ch2[h].ptr \/ End(ch2[h]) <= ch2[g].ptr
    BY <1>8, <2>1 DEF Apart, End
  <2> QED  BY <2>2, <2>3 DEF Apart
<1>12. Placed(ch2, M, regs)
  <2>1. Placed(ch, L, regs)
    BY DEF Sound
  <2>2. \A r \in regs : r.ptr \in Nat /\ r.size \in Nat
    BY <2>1 DEF Placed, Disjoint
  <2>3. \A g \in L, r \in regs :
          ch[g].next # kInvalid => (Inside(ch[g], r) <=> Inside(ch[ch[g].next], r))
    BY <2>1 DEF Placed
  <2>4. \A r \in regs : Inside(ch[h1], r) <=> Inside(ch[h2], r)
    BY <1>4, <2>3
  <2>5. \A r \in regs : Inside(ch2[h1], r) <=> Inside(ch[h1], r)
    <3> SUFFICES ASSUME NEW r \in regs  PROVE Inside(ch2[h1], r) <=> Inside(ch[h1], r)
      OBVIOUS
    <3>1. Inside(ch[h1], r) <=> Inside(ch[h2], r)
      BY <2>4
    <3> QED  BY <1>4, <1>8, <1>9, <2>2, <3>1 DEF Inside, End
  <2>6. \A g \in M, r \in regs : Inside(ch2[g], r) <=> Inside(ch[g], r)
    BY <1>8, <2>5 DEF Inside, End
  <2>7. \A g \in M : \E r \in regs : Inside(ch2[g], r)
    <3>1. \A g \in L : \E r \in regs : Inside(ch[g], r)
      BY <2>1 DEF Placed
    <3> QED  BY <2>6, <3>1
  <2>8. ASSUME NEW g \in M, NEW r \in regs, ch2[g].next # kInvalid
        PROVE  Inside(ch2[g], r) <=> Inside(ch2[ch2[g].next], r)
    <3>1. CASE g = h1
      <4>1. n2 # kInvalid /\ n2 \in M /\ ch2[g].next = n2
        BY <1>2, <1>8, <1>9, <2>8, <3>1
      <4>2. Inside(ch[h2], r) <=> Inside(ch[n2], r)
        BY <2>3, <4>1
      <4> QED  BY <2>4, <2>6, <3>1, <4>1, <4>2
    <3>2. CASE g # h1
      <4>1. ch2[g].next = ch[g].next /\ ch[g].next \in M
        BY <1>8, <1>10, <2>8, <3>2 DEF Linked
      <4> QED  BY <2>3, <2>6, <2>8, <4>1
    <3> QED  BY <3>1, <3>2
  <2>9. \A g \in M : ch2[g].next = kInvalid => \E r \in regs : End(ch2[g]) = r.ptr + r.size
    <3>1. \A g \in L : ch[g].next = kInvalid => \E r \in regs : End(ch[g]) = r.ptr + r.size
      BY <2>1 DEF Placed
    <3>2. End(ch2[h1]) = End(ch[h2])
      BY <1>4, <1>8, <1>9 DEF End
    <3>3. \A g \in M \ {h1} : End(ch2[g]) = End(ch[g]) /\ ch2[g].next = ch[g].next
      BY <1>8 DEF End
    <3> QED  BY <1>8, <3>1, <3>2, <3>3
  <2>10. \A r \in regs : \E h \in M : ch2[h].ptr = r.ptr /\ ch2[h].prev = kInvalid
    <3> SUFFICES ASSUME NEW r \in regs  PROVE \E h \in M : ch2[h].ptr = r.ptr /\ ch2[h].prev = kInvalid
      OBVIOUS
    <3>1. PICK h \in L : ch[h].ptr = r.ptr /\ ch[h].prev = kInvalid
      BY <2>1 DEF Placed
    <3>2. h # h2 /\ h # n2
      BY <1>4, <1>9, <3>1
    <3> QED  BY <1>8, <3>1, <3>2
  <2>11. Disjoint(regs)
    BY <2>1 DEF Placed
  <2> QED  BY <2>7, <2>8, <2>9, <2>10, <2>11 DEF Placed
<1>13. Binned(ch2, hp.bins, M, X \ {h2})
  <2>1. Binned(ch, hp.bins, L, X) /\ ch[h2].bin = NoBin /\ ch[h1].bin = NoBin
    BY DEF Sound, Binned
  <2>2. \A g \in M : ch2[g].bin = IF ch2[g].used \/ g \in X \ {h2} THEN NoBin
                                                   ELSE BinNumForSize(ch2[g].size)
    BY <1>8, <2>1 DEF Binned
  <2>3. ASSUME NEW b \in 0..(NumBins - 1)  PROVE hp.bins[b] = {h \in M : ch2[h].bin = b}
    <3>1. hp.bins[b] = {h \in L : ch[h].bin = b} /\ b # NoBin
      BY <2>1 DEF Binned, NoBin
    <3> QED  BY <1>8, <2>1, <3>1
  <2> QED  BY <2>2, <2>3 DEF Binned
<1>14. Joined(ch2, M, X \ {h2})
  <2>1. Joined(ch, L, X)
    BY DEF Sound
  <2> SUFFICES ASSUME NEW g \in M, g \notin X, ~ch2[g].used, ch2[g].next # kInvalid,
                      ch2[g].next \notin X \ {h2}
               PROVE  ch2[ch2[g].next].used
    BY DEF Joined
  <2>2. g # h1 /\ ch2[g].next = ch[g].next /\ ch[g].next \in M /\ ~ch[g].used /\ g \notin X
    BY <1>8, <1>10 DEF Linked
  <2>3. ch[g].next # h1 /\ ch[g].next # h2
    BY <1>9, <2>2
  <2>4. ch[ch[g].next].used
    BY <2>1, <2>2, <2>3 DEF Joined
  <2> QED  BY <1>8, <2>2, <2>3, <2>4
<1>15. Sound(HeapOf(ch2, h2, hp.bins, hd2), M, regs, X \ {h2})
  BY <1>5, <1>6, <1>7, <1>10, <1>11, <1>12, <1>13, <1>14, HeapFields DEF Sound
<1>16. HeapOf(ch2, h2, hp.bins, hd2).chunks = ch2
  BY HeapFields
<1> QED  BY <1>1, <1>2, <1>15, <1>16


-----------------------------------------------------------------------------
(* A chunk is added to the heap: the rest of one that is cut, or a region. *)

\* The heap that SetHandle leaves.
LEMMA SetHandleHeap ==
  ASSUME NEW hp, IsHeap(hp), NEW ptr, NEW h
  PROVE  SetHandle(hp, ptr, h)
           = HeapOf(hp.chunks, hp.free, hp.bins,
                    [p \in DOMAIN hp.handles \cup {ptr} |-> IF p = ptr THEN h ELSE hp.handles[p]])
<1> DEFINE x == [p \in DOMAIN hp.handles \cup {ptr} |-> IF p = ptr THEN h ELSE hp.handles[p]]
<1>1. SetHandle(hp, ptr, h) = [hp EXCEPT !.handles = x]
  BY DEF SetHandle
<1> HIDE DEF x
<1>2. [hp EXCEPT !.handles = x] = HeapOf(hp.chunks, hp.free, hp.bins, x)
  BY DEF IsHeap, HeapOf
<1> QED  BY <1>1, <1>2 DEF x

Shortened(hp, h, size, next) == [hp EXCEPT !.chunks[h].size = size, !.chunks[h].next = next]

ShortenedCells(ch, h, size, next) == [ch EXCEPT ![h] = [ch[h] EXCEPT !.size = size, !.next = next]]

\* The part of SplitChunk that shortens the chunk.
LEMMA ShortenHeap ==
  ASSUME NEW hp, IsHeap(hp), hp.chunks \in Seq(Cell), NEW h \in 1..Len(hp.chunks),
         NEW next \in Nat, NEW size \in Nat
  PROVE  Shortened(hp, h, size, next)
           = HeapOf(ShortenedCells(hp.chunks, h, size, next), hp.free, hp.bins, hp.handles)
<1> DEFINE c == [hp.chunks[h] EXCEPT !.size = size, !.next = next]
           y == [hp.chunks EXCEPT ![h] = c]
<1>1. PICK r : r = [hp EXCEPT !.chunks[h].size = size]
  OBVIOUS
<1>2. PICK z : z = [hp.chunks EXCEPT ![h].size = size]
  OBVIOUS
<1>3. r = HeapOf(z, hp.free, hp.bins, hp.handles)
  <2>1. r = [hp EXCEPT !.chunks = z]
    BY <1>1, <1>2 DEF IsHeap, HeapOf
  <2> QED  BY <2>1, HeapExcept
<1>4. IsHeap(r) /\ r.chunks = z /\ r.free = hp.free /\ r.bins = hp.bins /\ r.handles = hp.handles
  BY <1>3, HeapFields
<1>5. [hp EXCEPT !.chunks[h].size = size, !.chunks[h].next = next]
        = [r EXCEPT !.chunks[h].next = next]
  BY <1>1
<1>6. [z EXCEPT ![h].next = next] = y
  <2>1. hp.chunks[h] \in Cell
    OBVIOUS
  <2>2. z[h] = [hp.chunks[h] EXCEPT !.size = size] /\ z \in Seq(Cell) /\ Len(z) = Len(hp.chunks)
    <3>1. [hp.chunks[h] EXCEPT !.size = size] \in Cell
      BY <2>1 DEF Cell
    <3> QED  BY <1>2, <3>1
  <2>3. [z[h] EXCEPT !.next = next] = c
    BY <2>1, <2>2 DEF Cell
  <2> HIDE DEF c
  <2> QED  BY <1>2, <2>2, <2>3
<1>7. [r EXCEPT !.chunks[h].next = next] = [r EXCEPT !.chunks = [z EXCEPT ![h].next = next]]
  BY <1>4 DEF IsHeap, HeapOf
<1> HIDE DEF y
<1>8. [r EXCEPT !.chunks = y] = HeapOf(y, hp.free, hp.bins, hp.handles)
  BY <1>4, HeapExcept
<1>9. [hp EXCEPT !.chunks[h].size = size, !.chunks[h].next = next]
        = HeapOf(y, hp.free, hp.bins, hp.handles)
  BY <1>5, <1>6, <1>7, <1>8
<1> QED  BY <1>9 DEF y, Shortened, ShortenedCells

\* The handle that is taken was not in use, and the list of the others stays in order.
Added(ch, ch2, f2, new, c, L) ==
  /\ ch2 \in Seq(Cell) /\ f2 \in 0..Len(ch2)
  /\ 1..Len(ch2) = (1..Len(ch)) \cup {new} /\ new \in Nat /\ new \notin L /\ new # kInvalid
  /\ ch2[new] = c /\ \A i \in 1..Len(ch) : i # new => ch2[i] = ch[i]
  /\ Chained(ch2, f2, L \cup {new})

\* The heap that AllocateChunk leaves, with a handle that was in use for nothing.
LEMMA AllocateHeap ==
  ASSUME NEW hp, NEW L, NEW regs, NEW X, Sound(hp, L, regs, X), NEW c \in Cell
  PROVE  \E ch2, f2 : /\ AllocateChunk(hp, c) = HeapOf(ch2, f2, hp.bins, hp.handles)
                      /\ Added(hp.chunks, ch2, f2, NewHandle(hp), c, L)
<1> DEFINE ch == hp.chunks
<1>1. ch \in Seq(Cell) /\ L \subseteq 1..Len(ch) /\ hp.free \in 0..Len(ch) /\ IsHeap(hp)
  BY DEF Sound, Typed
<1>2. Chained(ch, hp.free, L)
  BY DEF Sound
<1>3. CASE hp.free # kInvalid
  <2> DEFINE new == hp.free
             f2 == ch[new].next
             ch2 == [ch EXCEPT ![new] = c]
  <2>0. PICK z, x : z = hp.chunks /\ x = hp.free
    OBVIOUS
  <2>1. new \in 1..Len(ch) /\ new \in Unused(ch, L) /\ NewHandle(hp) = new
    <3>1. Chained(z, x, L) /\ L \subseteq 1..Len(z) /\ Len(z) \in Nat
      BY <1>1, <1>2, <2>0
    <3>2. x \notin L /\ x \in 0..Len(z) /\ (x # kInvalid => x \in Unused(z, L))
      BY <3>1, ChainedFirst
    <3> QED  BY <1>3, <2>0, <3>1, <3>2 DEF kInvalid, NewHandle
  <2>2. AllocateChunk(hp, c) = HeapOf(ch2, f2, hp.bins, hp.handles)
    <3>1. AllocateChunk(hp, c) = [hp EXCEPT !.free = f2, !.chunks[hp.free] = c]
      BY <1>3 DEF AllocateChunk
    <3>2. PICK a, b, e, d : hp = [chunks |-> a, free |-> b, bins |-> e, handles |-> d]
      BY <1>1 DEF IsHeap, HeapOf
    <3>3. hp.chunks = a /\ hp.free = b /\ hp.bins = e /\ hp.handles = d
      BY <3>2
    <3> HIDE DEF f2
    <3>4. PICK r : r = [hp EXCEPT !.free = f2]
      OBVIOUS
    <3>5. r = [chunks |-> a, free |-> f2, bins |-> e, handles |-> d]
      BY <3>2, <3>4
    <3>6. AllocateChunk(hp, c) = [r EXCEPT !.chunks[b] = c]
      BY <3>1, <3>3, <3>4
    <3>7. [r EXCEPT !.chunks[b] = c] = [r EXCEPT !.chunks = [a EXCEPT ![b] = c]]
      BY <3>5
    <3>8. PICK y : y = [a EXCEPT ![b] = c]
      OBVIOUS
    <3>9. [r EXCEPT !.chunks = y] = [chunks |-> y, free |-> f2, bins |-> e, handles |-> d]
      BY <3>5
    <3> QED  BY <3>3, <3>6, <3>7, <3>8, <3>9 DEF HeapOf
  <2>3. /\ ch2 \in Seq(Cell) /\ Len(ch2) = Len(ch) /\ ch2[new] = c
        /\ \A i \in 1..Len(ch) : i # new => ch2[i] = ch[i]
    BY <1>1, <2>1
  <2> HIDE DEF ch2
  <2>4. Chained(ch2, f2, L \cup {new})
    <3>1. Chained(z, x, L) /\ L \subseteq 1..Len(z) /\ Len(z) \in Nat /\ x # kInvalid
      BY <1>1, <1>2, <1>3, <2>0
    <3>2. Len(ch2) = Len(z) /\ \A i \in 1..Len(z) : i # x => ch2[i] = z[i]
      BY <2>0, <2>3
    <3>3. Chained(ch2, z[x].next, L \cup {x})
      BY <3>1, <3>2, ChainedPop
    <3> QED  BY <2>0, <3>3
  <2>5. f2 \in 0..Len(ch2)
    <3>1. PICK M : M = L \cup {new}
      OBVIOUS
    <3>2. M \subseteq 1..Len(ch2) /\ Len(ch2) \in Nat
      <4>1. 1..Len(ch2) = 1..Len(ch) /\ Len(ch2) \in Nat
        BY <1>1, <2>3
      <4>2. L \subseteq 1..Len(ch) /\ new \in 1..Len(ch)
        BY <1>1, <2>1
      <4> HIDE DEF new, ch
      <4> QED  BY <3>1, <4>1, <4>2
    <3>3. PICK f : f = f2
      OBVIOUS
    <3>4. Chained(ch2, f, M)
      BY <2>4, <3>1, <3>3
    <3>5. f \in 0..Len(ch2)
      BY <3>2, <3>4, ChainedFirst
    <3> QED  BY <3>3, <3>5
  <2>6. Added(ch, ch2, f2, new, c, L)
    BY <1>1, <1>3, <2>1, <2>3, <2>4, <2>5 DEF Added, Unused
  <2> QED  BY <2>1, <2>2, <2>6 DEF ch2
<1>4. CASE hp.free = kInvalid
  <2> DEFINE new == Len(ch) + 1
             ch2 == Append(ch, c)
  <2>1. NewHandle(hp) = new
    BY <1>4 DEF NewHandle
  <2>2. AllocateChunk(hp, c) = HeapOf(ch2, hp.free, hp.bins, hp.handles)
    <3>1. AllocateChunk(hp, c) = [hp EXCEPT !.chunks = ch2]
      BY <1>4 DEF AllocateChunk
    <3> HIDE DEF ch2
    <3> QED  BY <1>1, <3>1, HeapExcept
  <2>3. /\ ch2 \in Seq(Cell) /\ Len(ch2) = Len(ch) + 1 /\ ch2[new] = c
        /\ \A i \in 1..Len(ch) : i # new /\ ch2[i] = ch[i]
    BY <1>1
  <2> HIDE DEF ch2
  <2>4. 1..Len(ch2) = (1..Len(ch)) \cup {new} /\ new \notin L /\ new \in Nat /\ new # kInvalid
    BY <1>1, <2>3 DEF kInvalid
  <2>5. Unused(ch2, L \cup {new}) = Unused(ch, L)
    BY <1>1, <2>3, <2>4 DEF Unused
  <2>6. \A g \in Unused(ch, L) : ch2[g].next = ch[g].next /\ ch2[g].prev = ch[g].prev
    BY <2>3 DEF Unused
  <2>7. Chained(ch2, hp.free, L \cup {new})
    BY <1>2, <2>5, <2>6, ChainedSame
  <2>8. Added(ch, ch2, hp.free, new, c, L)
    BY <1>1, <2>3, <2>4, <2>7 DEF Added
  <2> QED  BY <2>1, <2>2, <2>8 DEF ch2
<1> QED  BY <1>3, <1>4


\* SplitChunk before the rest of the chunk is put into a bin.
Cut(hp, h, bytes) ==
  LET c == hp.chunks[h]
      new == NewHandle(hp)
      added == AllocateChunk(hp, Chunk(c.ptr + bytes, c.size - bytes, h, c.next))
  IN  SetPrev(SetHandle(Shortened(added, h, bytes, new), c.ptr + bytes, new), c.next, new)

\* The chunks after the rest of h became the chunk new.
Divided(ch, ch2, f2, h, new, bytes, L) ==
  /\ ch2 \in Seq(Cell) /\ f2 \in 0..Len(ch2)
  /\ 1..Len(ch2) = (1..Len(ch)) \cup {new} /\ new \in Nat /\ new \notin L /\ new # kInvalid
  /\ ch2[new].ptr = ch[h].ptr + bytes /\ ch2[new].size = ch[h].size - bytes
  /\ ch2[new].prev = h /\ ch2[new].next = ch[h].next
  /\ ch2[new].used = FALSE /\ ch2[new].bin = NoBin
  /\ ch2[h].ptr = ch[h].ptr /\ ch2[h].size = bytes
  /\ ch2[h].prev = ch[h].prev /\ ch2[h].next = new
  /\ ch2[h].used = ch[h].used /\ ch2[h].bin = ch[h].bin
  /\ \A g \in L \ {h} :
       /\ ch2[g].ptr = ch[g].ptr /\ ch2[g].size = ch[g].size /\ ch2[g].next = ch[g].next
       /\ ch2[g].used = ch[g].used /\ ch2[g].bin = ch[g].bin
       /\ ch2[g].prev = IF g = ch[h].next THEN new ELSE ch[g].prev
  /\ Chained(ch2, f2, L \cup {new})

\* The heap that SplitChunk leaves before the new chunk goes into a bin.
LEMMA CutHeap ==
  ASSUME NEW hp, NEW L, NEW regs, NEW X, Sound(hp, L, regs, X),
         NEW h \in L, NEW bytes \in Nat, 0 < bytes, bytes < hp.chunks[h].size
  PROVE  \E ch2, f2 :
           /\ Cut(hp, h, bytes)
                = HeapOf(ch2, f2, hp.bins,
                         [p \in DOMAIN hp.handles \cup {hp.chunks[h].ptr + bytes} |->
                            IF p = hp.chunks[h].ptr + bytes THEN NewHandle(hp) ELSE hp.handles[p]])
           /\ Divided(hp.chunks, ch2, f2, h, NewHandle(hp), bytes, L)
<1> DEFINE ch == hp.chunks
           n == ch[h].next
           new == NewHandle(hp)
           ptr == ch[h].ptr + bytes
           c == Chunk(ptr, ch[h].size - bytes, h, n)
           hd2 == [p \in DOMAIN hp.handles \cup {ptr} |-> IF p = ptr THEN new ELSE hp.handles[p]]
<1> HIDE DEF new
<1>1. /\ ch \in Seq(Cell) /\ h \in 1..Len(ch) /\ h # kInvalid /\ ch[h] \in Cell /\ h \in Nat
      /\ ch[h].ptr \in Nat /\ ch[h].size \in Nat /\ n \in Nat /\ ch[h].size - bytes \in Nat
      /\ L \subseteq 1..Len(ch)
  <2>1. ch \in Seq(Cell) /\ h \in 1..Len(ch) /\ h # kInvalid /\ ch[h] \in Cell
    BY CellFacts
  <2>2. ch[h].ptr \in Nat /\ ch[h].size \in Nat /\ n \in Nat
    BY <2>1 DEF Cell
  <2> QED  BY <2>1, <2>2 DEF Sound, Typed
<1>2. n # kInvalid => n \in L /\ n # h
  <2>1. n # kInvalid => n \in L /\ ch[n].ptr = ch[h].ptr + ch[h].size
    BY DEF Sound, Linked, End
  <2> QED  BY <1>1, <2>1
<1>3. /\ c \in Cell /\ c.ptr = ptr /\ c.size = ch[h].size - bytes /\ c.prev = h /\ c.next = n
      /\ c.used = FALSE /\ c.bin = NoBin
  <2>1. PICK p \in Nat, s \in Nat, m \in Nat : p = ptr /\ s = ch[h].size - bytes /\ m = n
    BY <1>1, SMTT(30)
  <2>2. c = Chunk(p, s, h, m)
    BY <2>1
  <2> HIDE DEF c, ptr, n, ch
  <2> QED  BY <1>1, <2>1, <2>2 DEF Cell, Chunk, NoBin
<1> HIDE DEF c
<1>4. PICK y1, f2 : /\ AllocateChunk(hp, c) = HeapOf(y1, f2, hp.bins, hp.handles)
                    /\ Added(ch, y1, f2, new, c, L)
  BY <1>3, AllocateHeap DEF new
<1>5. /\ y1 \in Seq(Cell) /\ f2 \in 0..Len(y1)
      /\ 1..Len(y1) = (1..Len(ch)) \cup {new} /\ new \in Nat /\ new \notin L /\ new # kInvalid
      /\ y1[new] = c /\ \A i \in 1..Len(ch) : i # new => y1[i] = ch[i]
      /\ Chained(y1, f2, L \cup {new})
  BY <1>4 DEF Added
<1>6. y1[h] = ch[h] /\ h \in 1..Len(y1) /\ h # new
  BY <1>1, <1>5
<1> DEFINE d == [y1[h] EXCEPT !.size = bytes, !.next = new]
           y2 == ShortenedCells(y1, h, bytes, new)
           y3 == IF n = kInvalid THEN y2 ELSE [y2 EXCEPT ![n].prev = new]
<1>7. /\ d \in Cell /\ d.ptr = ch[h].ptr /\ d.size = bytes /\ d.prev = ch[h].prev /\ d.next = new
      /\ d.used = ch[h].used /\ d.bin = ch[h].bin
  BY <1>1, <1>5, <1>6 DEF Cell
<1>8. y2 = [y1 EXCEPT ![h] = d]
  BY DEF ShortenedCells
<1> HIDE DEF d, y2
<1>9. /\ y2 \in Seq(Cell) /\ Len(y2) = Len(y1) /\ y2[h] = d
      /\ \A i \in 1..Len(y1) : i # h => y2[i] = y1[i]
  BY <1>5, <1>6, <1>7, <1>8
<1>10. Cut(hp, h, bytes) = HeapOf(y3, f2, hp.bins, hd2)
  <2>1. PICK a : a = AllocateChunk(hp, c)
    OBVIOUS
  <2>2. IsHeap(a) /\ a.chunks = y1 /\ a.free = f2 /\ a.bins = hp.bins /\ a.handles = hp.handles
    BY <1>4, <2>1, HeapFields
  <2>3. PICK b : b = Shortened(a, h, bytes, new)
    OBVIOUS
  <2>4. b = HeapOf(y2, f2, hp.bins, hp.handles)
    BY <1>5, <1>6, <2>2, <2>3, ShortenHeap DEF y2
  <2>5. IsHeap(b) /\ b.chunks = y2 /\ b.free = f2 /\ b.bins = hp.bins /\ b.handles = hp.handles
    BY <2>4, HeapFields
  <2>6. PICK e : e = SetHandle(b, ptr, new)
    OBVIOUS
  <2>7. e = HeapOf(y2, f2, hp.bins, hd2)
    BY <2>5, <2>6, SetHandleHeap
  <2> HIDE DEF hd2
  <2>8. IsHeap(e) /\ e.chunks = y2 /\ e.free = f2 /\ e.bins = hp.bins /\ e.handles = hd2
    BY <2>7, HeapFields
  <2>9. SetPrev(e, n, new) = HeapOf(y3, f2, hp.bins, hd2)
    BY <2>8, SetPrevHeap
  <2>10. Cut(hp, h, bytes) = SetPrev(e, n, new)
    BY <2>1, <2>3, <2>6 DEF Cut, c, new
  <2> QED  BY <2>9, <2>10
<1>11. /\ y3 \in Seq(Cell) /\ Len(y3) = Len(y1)
       /\ \A i \in 1..Len(y1) : i # n => y3[i] = y2[i]
       /\ n # kInvalid => y3[n] = [ch[n] EXCEPT !.prev = new] /\ ch[n] \in Cell
  <2>1. CASE n = kInvalid
    BY <1>9, <2>1
  <2>2. CASE n # kInvalid
    <3>1. n \in 1..Len(y1) /\ n \in 1..Len(ch) /\ y2[n] = ch[n] /\ ch[n] \in Cell
      <4>1. n \in 1..Len(ch) /\ n # new /\ n # h
        BY <1>1, <1>2, <1>5, <2>2
      <4>2. n \in 1..Len(y1) /\ y1[n] = ch[n]
        BY <1>5, <4>1
      <4> QED  BY <1>1, <1>9, <4>1, <4>2
    <3>2. [ch[n] EXCEPT !.prev = new] \in Cell
      BY <1>5, <3>1 DEF Cell
    <3>3. y3 = [y2 EXCEPT ![n] = [ch[n] EXCEPT !.prev = new]]
      BY <2>2, <3>1
    <3> HIDE DEF y3
    <3> QED  BY <1>9, <3>1, <3>2, <3>3
  <2> QED  BY <2>1, <2>2
<1> HIDE DEF y3
<1>12. n # kInvalid => /\ y3[n].ptr = ch[n].ptr /\ y3[n].size = ch[n].size
                       /\ y3[n].next = ch[n].next /\ y3[n].used = ch[n].used
                       /\ y3[n].bin = ch[n].bin /\ y3[n].prev = new
  BY <1>11 DEF Cell
<1>13. y3[h] = d /\ y3[new] = c
  BY <1>1, <1>2, <1>5, <1>6, <1>9, <1>11
<1>14. \A g \in 1..Len(ch) : g \notin {h, n, new} => y3[g] = ch[g]
  BY <1>5, <1>9, <1>11
<1>15. \A g \in L \ {h} :
         /\ y3[g].ptr = ch[g].ptr /\ y3[g].size = ch[g].size /\ y3[g].next = ch[g].next
         /\ y3[g].used = ch[g].used /\ y3[g].bin = ch[g].bin
         /\ y3[g].prev = IF g = n THEN new ELSE ch[g].prev
  <2>1. TAKE g \in L \ {h}
  <2>2. g \in 1..Len(ch) /\ g # new /\ g # kInvalid
    BY <1>1, <1>5 DEF kInvalid
  <2>3. CASE g = n
    BY <1>12, <2>2, <2>3
  <2>4. CASE g # n
    BY <1>14, <2>2, <2>4
  <2> QED  BY <2>3, <2>4
<1>16. Chained(y3, f2, L \cup {new})
  <2>1. Unused(y3, L \cup {new}) = Unused(y1, L \cup {new})
    BY <1>11 DEF Unused
  <2>2. \A g \in Unused(y1, L \cup {new}) : y3[g] = y1[g]
    BY <1>2, <1>9, <1>11 DEF Unused, kInvalid
  <2> QED  BY <1>5, <2>1, <2>2, ChainedSame
<1>17. Divided(ch, y3, f2, h, new, bytes, L)
  BY <1>3, <1>5, <1>7, <1>11, <1>13, <1>15, <1>16 DEF Divided
<1> QED  BY <1>10, <1>17 DEF new


\* A chunk in hand that is cut leaves two chunks in hand.
LEMMA CutSound ==
  ASSUME NEW hp, NEW L, NEW regs, NEW X, Sound(hp, L, regs, X),
         NEW h \in L, h \in X, NEW bytes \in Nat, 0 < bytes, bytes < hp.chunks[h].size
  PROVE  /\ Sound(Cut(hp, h, bytes), L \cup {NewHandle(hp)}, regs, X \cup {NewHandle(hp)})
         /\ \E f2 : Divided(hp.chunks, Cut(hp, h, bytes).chunks, f2, h, NewHandle(hp), bytes, L)
<1> DEFINE ch == hp.chunks
           n == ch[h].next
           new == NewHandle(hp)
           M == L \cup {new}
           ptr == ch[h].ptr + bytes
           hd2 == [p \in DOMAIN hp.handles \cup {ptr} |-> IF p = ptr THEN new ELSE hp.handles[p]]
<1> HIDE DEF new
<1>1. PICK ch2, f2 : Cut(hp, h, bytes) = HeapOf(ch2, f2, hp.bins, hd2)
                     /\ Divided(ch, ch2, f2, h, new, bytes, L)
  BY CutHeap DEF new
<1>2. ch \in Seq(Cell) /\ L \subseteq 1..Len(ch)
  BY DEF Sound, Typed
<1>3. \A g \in L : /\ ch[g].ptr \in Nat /\ ch[g].size \in Nat /\ g # kInvalid
                   /\ ch[g].size > 0
  <2>1. \A g \in L : ch[g] \in Cell /\ g # kInvalid
    BY <1>2 DEF kInvalid
  <2> QED  BY <2>1 DEF Cell, Sound, Linked
<1>4. /\ ch2 \in Seq(Cell) /\ f2 \in 0..Len(ch2)
      /\ 1..Len(ch2) = (1..Len(ch)) \cup {new} /\ new \in Nat /\ new \notin L /\ new # kInvalid
  BY <1>1 DEF Divided
<1>5. /\ ch2[new].ptr = ptr /\ ch2[new].size = ch[h].size - bytes
      /\ ch2[new].prev = h /\ ch2[new].next = n
      /\ ch2[new].used = FALSE /\ ch2[new].bin = NoBin
      /\ ch2[h].ptr = ch[h].ptr /\ ch2[h].size = bytes
      /\ ch2[h].prev = ch[h].prev /\ ch2[h].next = new
      /\ ch2[h].used = ch[h].used /\ ch2[h].bin = ch[h].bin
      /\ \A g \in L \ {h} :
           /\ ch2[g].ptr = ch[g].ptr /\ ch2[g].size = ch[g].size /\ ch2[g].next = ch[g].next
           /\ ch2[g].used = ch[g].used /\ ch2[g].bin = ch[g].bin
           /\ ch2[g].prev = IF g = n THEN new ELSE ch[g].prev
  BY <1>1 DEF Divided
<1>6. Typed(ch2, f2, hp.bins, M)
  BY <1>2, <1>4 DEF Sound, Typed
<1>7. \A g \in L : ch[g].ptr # ptr
  <2>1. TAKE g \in L
  <2>2. CASE g = h
    BY <1>3, <2>2
  <2>3. CASE g # h
    <3>1. ch[g].ptr + ch[g].size <= ch[h].ptr \/ ch[h].ptr + ch[h].size <= ch[g].ptr
      BY <2>3 DEF Sound, Apart, End
    <3> QED  BY <1>3, <3>1
  <2> QED  BY <2>2, <2>3
<1>8. Named(ch2, hd2, M)
  <2>1. Named(ch, hp.handles, L)
    BY DEF Sound
  <2>2. \A g \in L : ch2[g].ptr = ch[g].ptr
    BY <1>5
  <2>3. DOMAIN hp.handles = {ch[g].ptr : g \in L}
    BY <2>1 DEF Named
  <2>4. {ch2[g].ptr : g \in M} = DOMAIN hp.handles \cup {ptr}
    BY <1>5, <2>2, <2>3
  <2>5. \A g \in L : hd2[ch2[g].ptr] = g
    BY <1>7, <2>1, <2>2, <2>3 DEF Named
  <2>6. hd2[ch2[new].ptr] = new
    BY <1>5
  <2>7. \A g \in M : hd2[ch2[g].ptr] = g
    BY <2>5, <2>6
  <2> QED  BY <2>4, <2>7 DEF Named
<1>9. Chained(ch2, f2, M)
  BY <1>1 DEF Divided
<1>10. /\ n # h /\ n # new
       /\ n # kInvalid => n \in L /\ ch[n].prev = h /\ ch[n].ptr = ch[h].ptr + ch[h].size
       /\ \A g \in L : g # h /\ ch[g].next # kInvalid => ch[g].next # n
       /\ \A g \in L : g # n => ch[g].prev # h
  <2>1. Linked(ch, L)
    BY DEF Sound
  <2>2. n # kInvalid => n \in L /\ ch[n].prev = h /\ ch[n].ptr = ch[h].ptr + ch[h].size
    BY <2>1 DEF Linked, End
  <2>3. n # h
    BY <1>3, <2>2
  <2>4. n # new
    BY <1>4, <2>2
  <2>5. ASSUME NEW g \in L, g # h, ch[g].next # kInvalid
        PROVE  ch[g].next # n
    <3>1. ch[ch[g].next].prev = g
      BY <2>1, <2>5 DEF Linked
    <3> QED  BY <2>2, <2>5, <3>1
  <2>6. ASSUME NEW g \in L, g # n
        PROVE  ch[g].prev # h
    <3>1. ch[g].prev # kInvalid => ch[ch[g].prev].next = g
      BY <2>1 DEF Linked
    <3> QED  BY <1>3, <2>6, <3>1
  <2> QED  BY <2>2, <2>3, <2>4, <2>5, <2>6
<1>11. Linked(ch2, M)
  <2>1. Linked(ch, L)
    BY DEF Sound
  <2> SUFFICES ASSUME NEW g \in M
               PROVE  /\ ch2[g].size > 0
                      /\ ch2[g].next # kInvalid =>
                           /\ ch2[g].next \in M /\ ch2[ch2[g].next].prev = g
                           /\ ch2[ch2[g].next].ptr = ch2[g].ptr + ch2[g].size
                      /\ ch2[g].prev # kInvalid => ch2[g].prev \in M /\ ch2[ch2[g].prev].next = g
    BY DEF Linked, End
  <2>2. ch2[g].size > 0
    BY <1>3, <1>5
  <2>3. ASSUME ch2[g].next # kInvalid
        PROVE  /\ ch2[g].next \in M /\ ch2[ch2[g].next].prev = g
               /\ ch2[ch2[g].next].ptr = ch2[g].ptr + ch2[g].size
    <3>1. CASE g = h
      BY <1>5, <3>1
    <3>2. CASE g = new
      BY <1>3, <1>5, <1>10, <2>3, <3>2
    <3>3. CASE g # h /\ g # new
      <4>1. ch2[g].next = ch[g].next /\ ch2[g].size = ch[g].size /\ ch2[g].ptr = ch[g].ptr
        BY <1>5, <3>3
      <4>2. /\ ch[g].next \in L /\ ch[ch[g].next].prev = g
            /\ ch[ch[g].next].ptr = ch[g].ptr + ch[g].size
        BY <2>1, <2>3, <3>3, <4>1 DEF Linked, End
      <4>3. ch[g].next # n
        BY <1>10, <2>3, <3>3, <4>1
      <4> QED  BY <1>5, <4>1, <4>2, <4>3
    <3> QED  BY <3>1, <3>2, <3>3
  <2>4. ASSUME ch2[g].prev # kInvalid
        PROVE  ch2[g].prev \in M /\ ch2[ch2[g].prev].next = g
    <3>1. CASE g = n
      BY <1>5, <1>10, <3>1
    <3>2. CASE g = new
      BY <1>5, <3>2
    <3>3. CASE g # n /\ g # new
      <4>1. ch2[g].prev = ch[g].prev
        BY <1>5, <3>3
      <4>2. ch[g].prev \in L /\ ch[ch[g].prev].next = g /\ ch[g].prev # h
        BY <1>10, <2>1, <2>4, <3>3, <4>1 DEF Linked
      <4> QED  BY <1>5, <4>1, <4>2
    <3> QED  BY <3>1, <3>2, <3>3
  <2> QED  BY <2>2, <2>3, <2>4
<1>12. Apart(ch2, M)
  <2>1. Apart(ch, L)
    BY DEF Sound
  <2>2. \A g \in L \ {h} : /\ End(ch2[g]) <= ch2[h].ptr \/ End(ch2[h]) <= ch2[g].ptr
                           /\ End(ch2[g]) <= ch2[new].ptr \/ End(ch2[new]) <= ch2[g].ptr
    <3> TAKE g \in L \ {h}
    <3>1. End(ch[g]) <= ch[h].ptr \/ End(ch[h]) <= ch[g].ptr
      BY <2>1 DEF Apart
    <3> QED  BY <1>3, <1>5, <3>1 DEF End
  <2>3. \A g, k \in L \ {h} : g # k => End(ch2[g]) <= ch2[k].ptr \/ End(ch2[k]) <= ch2[g].ptr
    BY <1>5, <2>1 DEF Apart, End
  <2>4. End(ch2[h]) <= ch2[new].ptr
    BY <1>3, <1>5 DEF End
  <2> QED  BY <2>2, <2>3, <2>4 DEF Apart
<1>13. Placed(ch2, M, regs)
  <2>1. Placed(ch, L, regs)
    BY DEF Sound
  <2>2. Disjoint(regs) /\ \A r \in regs : r.ptr \in Nat /\ r.size \in Nat
    BY <2>1 DEF Placed, Disjoint
  <2>3. \A g \in L, r \in regs :
          ch[g].next # kInvalid => (Inside(ch[g], r) <=> Inside(ch[ch[g].next], r))
    BY <2>1 DEF Placed
  <2>4. PICK r0 \in regs : Inside(ch[h], r0)
    BY <2>1 DEF Placed
  <2>5. \A r \in regs : /\ Inside(ch2[h], r) <=> Inside(ch[h], r)
                        /\ Inside(ch2[new], r) <=> Inside(ch[h], r)
    <3> TAKE r \in regs
    <3>1. r # r0 => r.ptr + r.size <= r0.ptr \/ r0.ptr + r0.size <= r.ptr
      BY <2>2 DEF Disjoint
    <3> QED  BY <1>3, <1>5, <2>2, <2>4, <3>1 DEF Inside, End
  <2>6. \A g \in L, r \in regs : Inside(ch2[g], r) <=> Inside(ch[g], r)
    <3> TAKE g \in L, r \in regs
    <3>1. CASE g = h
      BY <2>5, <3>1
    <3>2. CASE g # h
      BY <1>5, <3>2 DEF Inside, End
    <3> QED  BY <3>1, <3>2
  <2>7. \A g \in M : \E r \in regs : Inside(ch2[g], r)
    <3>1. \A g \in L : \E r \in regs : Inside(ch[g], r)
      BY <2>1 DEF Placed
    <3> QED  BY <2>5, <2>6, <3>1
  <2>8. ASSUME NEW g \in M, NEW r \in regs, ch2[g].next # kInvalid
        PROVE  Inside(ch2[g], r) <=> Inside(ch2[ch2[g].next], r)
    <3>1. CASE g = h
      BY <1>5, <2>5, <3>1
    <3>2. CASE g = new
      <4>1. n # kInvalid /\ n \in L /\ ch2[g].next = n
        BY <1>5, <1>10, <2>8, <3>2
      <4>2. Inside(ch[h], r) <=> Inside(ch[n], r)
        BY <2>3, <4>1
      <4> QED  BY <2>5, <2>6, <3>2, <4>1, <4>2
    <3>3. CASE g # h /\ g # new
      <4>1. ch2[g].next = ch[g].next /\ g \in L
        BY <1>5, <3>3
      <4>2. ch[g].next \in L
        BY <2>8, <4>1 DEF Sound, Linked
      <4> QED  BY <2>3, <2>6, <2>8, <4>1, <4>2
    <3> QED  BY <3>1, <3>2, <3>3
  <2>9. \A g \in M : ch2[g].next = kInvalid => \E r \in regs : End(ch2[g]) = r.ptr + r.size
    <3>1. \A g \in L : ch[g].next = kInvalid => \E r \in regs : End(ch[g]) = r.ptr + r.size
      BY <2>1 DEF Placed
    <3>2. End(ch2[new]) = End(ch[h]) /\ ch2[new].next = ch[h].next
      BY <1>3, <1>5 DEF End
    <3>3. \A g \in L \ {h} : End(ch2[g]) = End(ch[g]) /\ ch2[g].next = ch[g].next
      BY <1>5 DEF End
    <3> QED  BY <1>4, <1>5, <3>1, <3>2, <3>3
  <2>10. \A r \in regs : \E g \in M : ch2[g].ptr = r.ptr /\ ch2[g].prev = kInvalid
    <3> TAKE r \in regs
    <3>1. PICK g \in L : ch[g].ptr = r.ptr /\ ch[g].prev = kInvalid
      BY <2>1 DEF Placed
    <3>2. g # n
      BY <1>3, <1>10, <3>1
    <3> QED  BY <1>5, <3>1, <3>2
  <2> QED  BY <2>2, <2>7, <2>8, <2>9, <2>10 DEF Placed
<1>14. Binned(ch2, hp.bins, M, X \cup {new})
  <2>1. Binned(ch, hp.bins, L, X) /\ ch[h].bin = NoBin
    BY DEF Sound, Binned
  <2>2. \A g \in M : ch2[g].bin = IF ch2[g].used \/ g \in X \cup {new} THEN NoBin
                                                   ELSE BinNumForSize(ch2[g].size)
    BY <1>4, <1>5, <2>1 DEF Binned
  <2>3. ASSUME NEW b \in 0..(NumBins - 1)  PROVE hp.bins[b] = {g \in M : ch2[g].bin = b}
    <3>1. hp.bins[b] = {g \in L : ch[g].bin = b} /\ b # NoBin
      BY <2>1 DEF Binned, NoBin
    <3> QED  BY <1>5, <2>1, <3>1
  <2> QED  BY <2>2, <2>3 DEF Binned
<1>15. Joined(ch2, M, X \cup {new})
  <2>1. Joined(ch, L, X)
    BY DEF Sound
  <2> SUFFICES ASSUME NEW g \in M, g \notin X \cup {new}, ~ch2[g].used, ch2[g].next # kInvalid,
                      ch2[g].next \notin X \cup {new}
               PROVE  ch2[ch2[g].next].used
    BY DEF Joined
  <2>2. g \in L /\ g # h /\ ch2[g].next = ch[g].next /\ ~ch[g].used
    BY <1>5
  <2>3. ch[g].next \in L /\ ch[g].next # h
    BY <2>2 DEF Sound, Linked
  <2>4. ch[ch[g].next].used
    BY <2>1, <2>2, <2>3 DEF Joined
  <2> QED  BY <1>5, <2>2, <2>3, <2>4
<1>16. Sound(HeapOf(ch2, f2, hp.bins, hd2), M, regs, X \cup {new})
  BY <1>6, <1>8, <1>9, <1>11, <1>12, <1>13, <1>14, <1>15, HeapFields DEF Sound
<1>17. HeapOf(ch2, f2, hp.bins, hd2).chunks = ch2
  BY HeapFields
<1> QED  BY <1>1, <1>16, <1>17 DEF new


-----------------------------------------------------------------------------
(* The operations on the heap, put together again                          *)

\* The chunks are the same but for bins.
SameButBins(hp, hp2, L) ==
  /\ SamePlaces(hp.chunks, hp2.chunks)
  /\ \A g \in L : hp2.chunks[g].used = hp.chunks[g].used

\* A heap whose chunks are where they were, and are used as they were, is kept.
LEMMA SameIsKept ==
  ASSUME NEW hp, NEW L, NEW regs, NEW X, Sound(hp, L, regs, X), NEW hp2, NEW x,
         SamePlaces(hp.chunks, hp2.chunks),
         \A g \in L : g # x => hp2.chunks[g].used = hp.chunks[g].used
  PROVE  Kept(hp, L, hp2, L, x)
<1>1. L \subseteq 1..Len(hp.chunks)
  BY DEF Sound, Typed
<1> QED  BY <1>1 DEF Kept, SamePlaces

\* What a free chunk, in no hand, has for neighbours.
LEMMA NeighboursUsed ==
  ASSUME NEW hp, NEW L, NEW regs, NEW X, Sound(hp, L, regs, X), NEW h \in L, h \notin X,
         ~hp.chunks[h].used
  PROVE  /\ hp.chunks[h].next # kInvalid => /\ hp.chunks[h].next \in L
                                            /\ hp.chunks[h].next \notin X => hp.chunks[hp.chunks[h].next].used
         /\ hp.chunks[h].prev # kInvalid => /\ hp.chunks[h].prev \in L
                                            /\ hp.chunks[h].prev \notin X => hp.chunks[hp.chunks[h].prev].used
<1> DEFINE ch == hp.chunks
<1>1. Linked(ch, L) /\ Joined(ch, L, X) /\ h # kInvalid
  BY CellFacts DEF Sound
<1>2. ASSUME ch[h].next # kInvalid
      PROVE  ch[h].next \in L /\ (ch[h].next \notin X => ch[ch[h].next].used)
  BY <1>1, <1>2 DEF Linked, Joined
<1>3. ASSUME ch[h].prev # kInvalid
      PROVE  ch[h].prev \in L /\ (ch[h].prev \notin X => ch[ch[h].prev].used)
  <2>1. ch[h].prev \in L /\ ch[ch[h].prev].next = h
    BY <1>1, <1>3 DEF Linked
  <2> QED  BY <1>1, <2>1 DEF Joined
<1> QED  BY <1>2, <1>3

\* FindChunkPtr hands out the chunk h of hp, in hp2.
HandedOut(hp, L, hp2, L2, h, bytes) ==
  /\ h \in L2 /\ hp2.chunks[h].used /\ hp2.chunks[h].ptr = hp.chunks[h].ptr
  /\ bytes <= hp2.chunks[h].size /\ hp2.chunks[h].size < 2 * RoundedBytes(bytes)
  /\ Kept(hp, L, hp2, L2, h)

\* FindChunkPtr: the chunk leaves its bin, is split if it is large, and is marked.
LEMMA TakenSound ==
  ASSUME NEW hp, NEW L, NEW regs, Sound(hp, L, regs, {}), NEW h \in L, ~hp.chunks[h].used,
         NEW bytes \in Nat \ {0}, RoundedBytes(bytes) <= hp.chunks[h].size
  PROVE  \E L2 : /\ Sound(Taken(hp, h, bytes), L2, regs, {})
                 /\ HandedOut(hp, L, Taken(hp, h, bytes), L2, h, bytes)
<1> DEFINE rounded == RoundedBytes(bytes)
<1>1. rounded \in Nat \ {0} /\ bytes <= rounded
  BY RoundedFacts
<1> HIDE DEF rounded
<1>2. PICK a : a = RemoveFreeChunkFromBin(hp, h)
  OBVIOUS
<1>3. /\ Sound(a, L, regs, {h}) /\ SamePlaces(hp.chunks, a.chunks)
      /\ \A g \in L : a.chunks[g].used = hp.chunks[g].used
  <2>1. {} \cup {h} = {h}
    OBVIOUS
  <2>2. h \notin {}
    OBVIOUS
  <2>3. /\ Sound(RemoveFreeChunkFromBin(hp, h), L, regs, {} \cup {h})
        /\ SamePlaces(hp.chunks, RemoveFreeChunkFromBin(hp, h).chunks)
        /\ \A g \in L : RemoveFreeChunkFromBin(hp, h).chunks[g].used = hp.chunks[g].used
    BY <2>2, Remove
  <2> QED  BY <1>2, <2>1, <2>3
<1>4. /\ h \in 1..Len(hp.chunks) /\ L \subseteq 1..Len(hp.chunks) /\ hp.chunks[h].size \in Nat
      /\ h # kInvalid
  BY CellFacts DEF Sound, Typed, Cell
<1>5. Kept(hp, L, a, L, h)
  BY <1>3, SameIsKept
<1>6. /\ a.chunks[h].ptr = hp.chunks[h].ptr /\ a.chunks[h].size = hp.chunks[h].size
      /\ a.chunks[h].next = hp.chunks[h].next
  BY <1>3, <1>4 DEF SamePlaces
<1>7. PICK b : b = SplitIfLarge(a, h, rounded)
  OBVIOUS
<1>8. Taken(hp, h, bytes) = [b EXCEPT !.chunks[h].used = TRUE]
  BY <1>2, <1>7 DEF Taken, rounded
<1>9. \E M : /\ Sound(b, M, regs, {h}) /\ h \in M /\ Kept(hp, L, b, M, h)
             /\ b.chunks[h].ptr = hp.chunks[h].ptr
             /\ rounded <= b.chunks[h].size /\ b.chunks[h].size < 2 * rounded
  <2>1. CASE a.chunks[h].size < 2 * rounded
    <3>1. b = a
      BY <1>1, <1>4, <1>6, <1>7, <2>1 DEF SplitIfLarge
    <3> QED  BY <1>3, <1>5, <1>6, <2>1, <3>1 DEF rounded
  <2>2. CASE a.chunks[h].size >= 2 * rounded
    <3> DEFINE new == NewHandle(a)
               M == L \cup {new}
    <3>1. PICK c : c = Cut(a, h, rounded)
      OBVIOUS
    <3>2. b = InsertFreeChunkIntoBin(c, new)
      BY <1>7, <2>2, <3>1 DEF SplitIfLarge, SplitChunk, Cut, Shortened
    <3> HIDE DEF new
    <3>3. 0 < rounded /\ rounded < a.chunks[h].size
      BY <1>1, <1>4, <1>6, <2>2
    <3>4. PICK f2 : Sound(c, M, regs, {h} \cup {new})
                    /\ Divided(a.chunks, c.chunks, f2, h, new, rounded, L)
      BY <1>1, <1>3, <3>1, <3>3, CutSound DEF new
    <3>5. /\ new \notin L /\ new # kInvalid /\ c.chunks[new].prev = h
          /\ c.chunks[new].next = a.chunks[h].next /\ c.chunks[new].used = FALSE
          /\ c.chunks[h].ptr = a.chunks[h].ptr /\ c.chunks[h].size = rounded
          /\ \A g \in L \ {h} : /\ c.chunks[g].ptr = a.chunks[g].ptr
                                /\ c.chunks[g].size = a.chunks[g].size
                                /\ c.chunks[g].used = a.chunks[g].used
      BY <3>4 DEF Divided
    <3>6. c.chunks[new].next # kInvalid => c.chunks[c.chunks[new].next].used
      <4>1. hp.chunks[h].next # kInvalid =>
              hp.chunks[h].next \in L /\ hp.chunks[hp.chunks[h].next].used
        BY NeighboursUsed
      <4>2. hp.chunks[h].next # h
        BY <1>4, <4>1
      <4> QED  BY <1>3, <1>6, <3>5, <4>1, <4>2
    <3>7. ({h} \cup {new}) \ {new} = {h}
      BY <3>5
    <3>8. /\ Sound(b, M, regs, {h}) /\ SamePlaces(c.chunks, b.chunks)
          /\ \A g \in M : b.chunks[g].used = c.chunks[g].used
      <4>1. c.chunks[new].prev \in ({h} \cup {new}) \ {new} /\ ~c.chunks[new].used /\ new \in M
            /\ new \in {h} \cup {new}
        BY <3>5, <3>7
      <4> HIDE DEF M
      <4>2. /\ Sound(InsertFreeChunkIntoBin(c, new), M, regs, ({h} \cup {new}) \ {new})
            /\ SamePlaces(c.chunks, InsertFreeChunkIntoBin(c, new).chunks)
            /\ \A g \in M : InsertFreeChunkIntoBin(c, new).chunks[g].used = c.chunks[g].used
        BY <3>4, <3>6, <4>1, Insert
      <4> QED  BY <3>2, <3>7, <4>2
    <3>9. Kept(a, L, c, M, h)
      BY <3>5 DEF Kept
    <3>10. Kept(c, M, b, M, h)
      BY <3>4, <3>8, SameIsKept
    <3>11. Kept(hp, L, b, M, h)
      BY <1>5, <3>9, <3>10, KeptTransitive
    <3>12. b.chunks[h].ptr = hp.chunks[h].ptr /\ b.chunks[h].size = rounded
      <4>1. h \in 1..Len(c.chunks)
        BY <3>4, CellFacts
      <4> QED  BY <1>6, <3>5, <3>8, <4>1 DEF SamePlaces
    <3> QED  BY <1>1, <3>8, <3>11, <3>12
  <2>3. a.chunks[h].size < 2 * rounded \/ a.chunks[h].size >= 2 * rounded
    BY <1>1, <1>4, <1>6
  <2> QED  BY <2>1, <2>2, <2>3
<1>10. PICK M : /\ Sound(b, M, regs, {h}) /\ h \in M /\ Kept(hp, L, b, M, h)
                /\ b.chunks[h].ptr = hp.chunks[h].ptr
                /\ rounded <= b.chunks[h].size /\ b.chunks[h].size < 2 * rounded
  BY <1>9
<1>11. PICK e : e = [b EXCEPT !.chunks[h].used = TRUE]
  OBVIOUS
<1>12. /\ Sound(e, M, regs, {}) /\ SamePlaces(b.chunks, e.chunks) /\ e.chunks[h].used
       /\ \A g \in M : g # h => e.chunks[g].used = b.chunks[g].used
  <2>1. {h} \ {h} = {}
    OBVIOUS
  <2>2. h \in {h}
    OBVIOUS
  <2>3. /\ Sound([b EXCEPT !.chunks[h].used = TRUE], M, regs, {h} \ {h})
        /\ SamePlaces(b.chunks, [b EXCEPT !.chunks[h].used = TRUE].chunks)
        /\ [b EXCEPT !.chunks[h].used = TRUE].chunks[h].used
        /\ \A g \in M : g # h => [b EXCEPT !.chunks[h].used = TRUE].chunks[g].used = b.chunks[g].used
    BY <1>10, <2>2, MarkUsed
  <2> QED  BY <1>11, <2>1, <2>3
<1>13. Kept(hp, L, e, M, h)
  BY <1>10, <1>12, SameIsKept, KeptTransitive
<1>14. e.chunks[h].ptr = hp.chunks[h].ptr /\ e.chunks[h].size = b.chunks[h].size
       /\ b.chunks[h].size \in Nat
  BY <1>10, <1>12, CellFacts DEF SamePlaces, Cell
<1>15. HandedOut(hp, L, e, M, h, bytes)
  BY <1>1, <1>10, <1>12, <1>13, <1>14 DEF HandedOut, rounded
<1> QED  BY <1>8, <1>11, <1>12, <1>15


\* The chunk h is not in use any more, the others are as they were.
Freed(hp, L, hp2, L2, h) ==
  /\ Kept(hp, L, hp2, L2, h)
  /\ \A g \in L2 : hp2.chunks[g].used => g # h

\* The chunk h, in hand, has taken in its next one.
TookNext(hp, L, regs, hp2, h, n) ==
  /\ Sound(hp2, L \ {n}, regs, {h}) /\ h \in L \ {n} /\ ~hp2.chunks[h].used
  /\ hp2.chunks[h].prev = hp.chunks[h].prev /\ hp2.chunks[h].next = hp.chunks[n].next
  /\ \A g \in L \ {h, n} : hp2.chunks[g].used = hp.chunks[g].used
  /\ Kept(hp, L, hp2, L \ {n}, h)

\* The first half of FreeAndMaybeCoalesce: the chunk is joined with the next one.
LEMMA JoinNext ==
  ASSUME NEW hp, NEW L, NEW regs, NEW h \in L, Sound(hp, L, regs, {h}), ~hp.chunks[h].used,
         NEW n \in L, hp.chunks[h].next = n, ~hp.chunks[n].used
  PROVE  TookNext(hp, L, regs, Merge(RemoveFreeChunkFromBin(hp, n), h, n), h, n)
<1>1. PICK a : a = RemoveFreeChunkFromBin(hp, n)
  OBVIOUS
<1>2. n # h /\ L \subseteq 1..Len(hp.chunks) /\ h \in 1..Len(hp.chunks)
  BY ThreeChunks DEF Sound, Typed
<1>3. /\ Sound(a, L, regs, {h} \cup {n}) /\ SamePlaces(hp.chunks, a.chunks)
      /\ \A g \in L : a.chunks[g].used = hp.chunks[g].used
  <2>1. PICK X : X = {h}
    OBVIOUS
  <2>2. n \notin X /\ Sound(hp, L, regs, X)
    BY <1>2, <2>1
  <2>3. /\ Sound(RemoveFreeChunkFromBin(hp, n), L, regs, X \cup {n})
        /\ SamePlaces(hp.chunks, RemoveFreeChunkFromBin(hp, n).chunks)
        /\ \A g \in L : RemoveFreeChunkFromBin(hp, n).chunks[g].used = hp.chunks[g].used
    BY <2>2, Remove
  <2> QED  BY <1>1, <2>1, <2>3
<1>4. \A g \in L : a.chunks[g].next = hp.chunks[g].next /\ a.chunks[g].prev = hp.chunks[g].prev
  BY <1>2, <1>3 DEF SamePlaces
<1>5. PICK b : b = Merge(a, h, n)
  OBVIOUS
<1>6. /\ Sound(b, L \ {n}, regs, {h}) /\ Fused(a.chunks, b.chunks, h, n, a.free, L)
  <2>1. ({h} \cup {n}) \ {n} = {h} /\ h \in {h} \cup {n} /\ n \in {h} \cup {n}
    BY <1>2
  <2>2. a.chunks[h].next = n /\ ~a.chunks[h].used /\ ~a.chunks[n].used
    BY <1>3, <1>4
  <2>3. /\ Sound(Merge(a, h, n), L \ {n}, regs, ({h} \cup {n}) \ {n})
        /\ Fused(a.chunks, Merge(a, h, n).chunks, h, n, a.free, L)
    BY <1>3, <2>1, <2>2, MergeSound
  <2> QED  BY <1>5, <2>1, <2>3
<1>7. /\ b.chunks[h].prev = a.chunks[h].prev /\ b.chunks[h].next = a.chunks[n].next
      /\ b.chunks[h].used = a.chunks[h].used
      /\ \A g \in L \ {h, n} : /\ b.chunks[g].used = a.chunks[g].used
                               /\ b.chunks[g].ptr = a.chunks[g].ptr
                               /\ b.chunks[g].size = a.chunks[g].size
  BY <1>6 DEF Fused
<1>8. Kept(hp, L, a, L, h)
  BY <1>3, SameIsKept
<1>9. ~a.chunks[h].used /\ ~a.chunks[n].used
  BY <1>3
<1>10. Kept(a, L, b, L \ {n}, h)
  BY <1>7, <1>9 DEF Kept
<1>11. Kept(hp, L, b, L \ {n}, h)
  BY <1>8, <1>10, KeptTransitive
<1>12. /\ ~b.chunks[h].used /\ b.chunks[h].prev = hp.chunks[h].prev
       /\ b.chunks[h].next = hp.chunks[n].next
       /\ \A g \in L \ {h, n} : b.chunks[g].used = hp.chunks[g].used
  BY <1>3, <1>4, <1>7, <1>9
<1>13. TookNext(hp, L, regs, b, h, n)
  BY <1>2, <1>6, <1>11, <1>12 DEF TookNext
<1> QED  BY <1>1, <1>5, <1>13

\* FreeAndMaybeCoalesce leaves a heap in order and every other used chunk as it was.
LEMMA CoalesceSound ==
  ASSUME NEW hp, NEW L, NEW regs, Sound(hp, L, regs, {}), NEW h \in L, hp.chunks[h].used
  PROVE  \E L2 : /\ Sound(FreeAndMaybeCoalesce(hp, h), L2, regs, {})
                 /\ Freed(hp, L, FreeAndMaybeCoalesce(hp, h), L2, h)
<1>1. PICK a : a = [hp EXCEPT !.chunks[h].used = FALSE]
  OBVIOUS
<1>2. /\ Sound(a, L, regs, {h}) /\ SamePlaces(hp.chunks, a.chunks) /\ ~a.chunks[h].used
      /\ \A g \in L : g # h => a.chunks[g].used = hp.chunks[g].used
  <2>1. {} \cup {h} = {h}
    OBVIOUS
  <2>2. /\ Sound([hp EXCEPT !.chunks[h].used = FALSE], L, regs, {} \cup {h})
        /\ SamePlaces(hp.chunks, [hp EXCEPT !.chunks[h].used = FALSE].chunks)
        /\ ~[hp EXCEPT !.chunks[h].used = FALSE].chunks[h].used
        /\ \A g \in L : g # h => [hp EXCEPT !.chunks[h].used = FALSE].chunks[g].used = hp.chunks[g].used
    BY MarkFree
  <2> QED  BY <1>1, <2>1, <2>2
<1>3. Kept(hp, L, a, L, h)
  BY <1>2, SameIsKept
<1>4. PICK n : n = a.chunks[h].next
  OBVIOUS
<1>5. PICK b : b = IF IsFree(a, n) THEN Merge(RemoveFreeChunkFromBin(a, n), h, n) ELSE a
  OBVIOUS
<1>6. /\ n # kInvalid => n \in L /\ n # h
      /\ h # kInvalid
      /\ Linked(a.chunks, L)
  BY <1>2, <1>4, ThreeChunks, CellFacts DEF Sound, Linked
<1>7. \E M : /\ Sound(b, M, regs, {h}) /\ h \in M /\ ~b.chunks[h].used /\ Kept(hp, L, b, M, h)
             /\ b.chunks[h].next # kInvalid => b.chunks[b.chunks[h].next].used
  <2>1. CASE IsFree(a, n)
    <3>1. n \in L /\ ~a.chunks[n].used /\ n \notin {h}
      BY <1>6, <2>1 DEF IsFree
    <3>2. b = Merge(RemoveFreeChunkFromBin(a, n), h, n)
      BY <1>5, <2>1
    <3>3. /\ Sound(b, L \ {n}, regs, {h}) /\ h \in L \ {n} /\ ~b.chunks[h].used
          /\ b.chunks[h].next = a.chunks[n].next
          /\ \A g \in L \ {h, n} : b.chunks[g].used = a.chunks[g].used
          /\ Kept(a, L, b, L \ {n}, h)
      <4>1. Sound(a, L, regs, {h}) /\ ~a.chunks[h].used /\ n \in L /\ a.chunks[h].next = n
            /\ ~a.chunks[n].used
        BY <1>2, <1>4, <3>1
      <4>2. TookNext(a, L, regs, b, h, n)
        BY <3>2, <4>1, JoinNext
      <4> QED  BY <4>2 DEF TookNext
    <3>4. a.chunks[n].next # kInvalid =>
            /\ a.chunks[n].next \in L
            /\ (a.chunks[n].next \notin {h} => a.chunks[a.chunks[n].next].used)
      BY <1>2, <3>1, NeighboursUsed
    <3>5. a.chunks[n].next \notin {h, n}
      BY <1>2, <1>4, <3>1, ThreeChunks
    <3>6. Kept(hp, L, b, L \ {n}, h)
      BY <1>3, <3>3, KeptTransitive
    <3> QED  BY <3>3, <3>4, <3>5, <3>6
  <2>2. CASE ~IsFree(a, n)
    <3>1. b = a
      BY <1>5, <2>2
    <3> QED  BY <1>2, <1>3, <1>4, <2>2, <3>1 DEF IsFree
  <2> QED  BY <2>1, <2>2
<1>8. PICK M : /\ Sound(b, M, regs, {h}) /\ h \in M /\ ~b.chunks[h].used /\ Kept(hp, L, b, M, h)
               /\ b.chunks[h].next # kInvalid => b.chunks[b.chunks[h].next].used
  BY <1>7
<1>9. PICK p : p = b.chunks[h].prev
  OBVIOUS
<1>10. p # kInvalid => p \in M /\ b.chunks[p].next = h /\ p # h
  <2>1. p # kInvalid => p \in M /\ b.chunks[p].next = h
    BY <1>8, <1>9 DEF Sound, Linked
  <2> QED  BY <1>8, <2>1, ThreeChunks
<1>13. FreeAndMaybeCoalesce(hp, h)
         = IF IsFree(b, p)
             THEN InsertFreeChunkIntoBin(Merge(RemoveFreeChunkFromBin(b, p), p, h), p)
             ELSE InsertFreeChunkIntoBin(b, h)
  BY <1>1, <1>4, <1>5, <1>9 DEF FreeAndMaybeCoalesce
<1>11. CASE IsFree(b, p)
  <2>1. p \in M /\ ~b.chunks[p].used /\ b.chunks[p].next = h /\ p # h /\ p \notin {h}
    BY <1>10, <1>11 DEF IsFree
  <2>2. PICK c : c = RemoveFreeChunkFromBin(b, p)
    OBVIOUS
  <2>3. /\ Sound(c, M, regs, {h} \cup {p}) /\ SamePlaces(b.chunks, c.chunks)
        /\ \A g \in M : c.chunks[g].used = b.chunks[g].used
    <3>1. /\ Sound(RemoveFreeChunkFromBin(b, p), M, regs, {h} \cup {p})
          /\ SamePlaces(b.chunks, RemoveFreeChunkFromBin(b, p).chunks)
          /\ \A g \in M : RemoveFreeChunkFromBin(b, p).chunks[g].used = b.chunks[g].used
      BY <1>8, <2>1, Remove
    <3> QED  BY <2>2, <3>1
  <2>4. \A g \in M : c.chunks[g].next = b.chunks[g].next /\ c.chunks[g].prev = b.chunks[g].prev
    BY <1>8, <2>3 DEF SamePlaces, Sound, Typed
  <2>5. PICK d : d = Merge(c, p, h)
    OBVIOUS
  <2>6. /\ Sound(d, M \ {h}, regs, {p}) /\ Fused(c.chunks, d.chunks, p, h, c.free, M)
    <3>1. ({h} \cup {p}) \ {h} = {p} /\ h \in {h} \cup {p} /\ p \in {h} \cup {p}
      BY <2>1
    <3>2. c.chunks[p].next = h /\ ~c.chunks[p].used /\ ~c.chunks[h].used
      BY <1>8, <2>1, <2>3, <2>4
    <3>3. /\ Sound(Merge(c, p, h), M \ {h}, regs, ({h} \cup {p}) \ {h})
          /\ Fused(c.chunks, Merge(c, p, h).chunks, p, h, c.free, M)
      BY <1>8, <2>1, <2>3, <3>1, <3>2, MergeSound
    <3> QED  BY <2>5, <3>1, <3>3
  <2>7. /\ d.chunks[p].prev = c.chunks[p].prev /\ d.chunks[p].next = c.chunks[h].next
        /\ d.chunks[p].used = c.chunks[p].used
        /\ \A g \in M \ {h, p} : /\ d.chunks[g].used = c.chunks[g].used
                                 /\ d.chunks[g].ptr = c.chunks[g].ptr
                                 /\ d.chunks[g].size = c.chunks[g].size
    BY <2>6 DEF Fused
  <2>8. /\ d.chunks[p].prev = b.chunks[p].prev /\ d.chunks[p].next = b.chunks[h].next
        /\ ~d.chunks[p].used /\ \A g \in M \ {h, p} : d.chunks[g].used = b.chunks[g].used
    BY <1>8, <2>1, <2>3, <2>4, <2>7
  <2>9. Kept(b, M, c, M, h)
    BY <1>8, <2>3, SameIsKept
  <2>10. Kept(c, M, d, M \ {h}, h)
    BY <2>1, <2>3, <2>7 DEF Kept
  <2>11. d.chunks[p].next # kInvalid => d.chunks[d.chunks[p].next].used
    <3>1. b.chunks[h].next # kInvalid => b.chunks[h].next \in M /\ b.chunks[b.chunks[h].next].used
      BY <1>8 DEF Sound, Linked
    <3>2. b.chunks[h].next \notin {h, p}
      BY <1>8, <2>1, ThreeChunks
    <3> QED  BY <2>8, <3>1, <3>2
  <2>12. d.chunks[p].prev # kInvalid => d.chunks[d.chunks[p].prev].used
    <3>1. b.chunks[p].prev # kInvalid =>
            /\ b.chunks[p].prev \in M
            /\ (b.chunks[p].prev \notin {h} => b.chunks[b.chunks[p].prev].used)
      BY <1>8, <2>1, NeighboursUsed
    <3>2. b.chunks[p].prev # kInvalid => b.chunks[p].prev # p /\ b.chunks[p].prev # h
      <4> SUFFICES ASSUME b.chunks[p].prev # kInvalid
                   PROVE  b.chunks[p].prev # p /\ b.chunks[p].prev # h
        OBVIOUS
      <4>1. b.chunks[p].prev \in M /\ b.chunks[b.chunks[p].prev].next = p
        BY <1>8, <2>1 DEF Sound, Linked
      <4>2. b.chunks[p].prev # p
        BY <1>8, <2>1, <4>1
      <4>3. b.chunks[p].prev # h
        <5>1. b.chunks[h].next \notin {p, h}
          BY <1>8, <2>1, ThreeChunks
        <5> QED  BY <4>1, <5>1
      <4> QED  BY <4>2, <4>3
    <3> QED  BY <2>8, <3>1, <3>2
  <2>13. PICK e : e = InsertFreeChunkIntoBin(d, p)
    OBVIOUS
  <2>14. /\ Sound(e, M \ {h}, regs, {}) /\ SamePlaces(d.chunks, e.chunks)
         /\ \A g \in M \ {h} : e.chunks[g].used = d.chunks[g].used
    <3>1. {p} \ {p} = {} /\ p \in {p} /\ p \in M \ {h}
      BY <2>1
    <3>2. /\ Sound(InsertFreeChunkIntoBin(d, p), M \ {h}, regs, {p} \ {p})
          /\ SamePlaces(d.chunks, InsertFreeChunkIntoBin(d, p).chunks)
          /\ \A g \in M \ {h} : InsertFreeChunkIntoBin(d, p).chunks[g].used = d.chunks[g].used
      <4>1. PICK K, X : K = M \ {h} /\ X = {p}
        OBVIOUS
      <4>2. Sound(d, K, regs, X) /\ p \in K /\ p \in X
        BY <2>6, <3>1, <4>1
      <4>3. /\ Sound(InsertFreeChunkIntoBin(d, p), K, regs, X \ {p})
            /\ SamePlaces(d.chunks, InsertFreeChunkIntoBin(d, p).chunks)
            /\ \A g \in K : InsertFreeChunkIntoBin(d, p).chunks[g].used = d.chunks[g].used
        BY <2>8, <2>11, <2>12, <4>2, Insert
      <4> QED  BY <4>1, <4>3
    <3> QED  BY <2>13, <3>1, <3>2
  <2>15. Kept(d, M \ {h}, e, M \ {h}, h)
    BY <2>6, <2>14, SameIsKept
  <2>16. Kept(hp, L, e, M \ {h}, h)
    <3>1. Kept(hp, L, c, M, h)
      BY <1>8, <2>9, KeptTransitive
    <3>2. Kept(hp, L, d, M \ {h}, h)
      BY <2>10, <3>1, KeptTransitive
    <3> QED  BY <2>15, <3>2, KeptTransitive
  <2>17. FreeAndMaybeCoalesce(hp, h) = e
    BY <1>11, <1>13, <2>2, <2>5, <2>13
  <2> QED  BY <2>14, <2>16, <2>17 DEF Freed
<1>12. CASE ~IsFree(b, p)
  <2>1. PICK e : e = InsertFreeChunkIntoBin(b, h)
    OBVIOUS
  <2>2. p # kInvalid => b.chunks[p].used
    BY <1>12 DEF IsFree
  <2>3. /\ Sound(e, M, regs, {}) /\ SamePlaces(b.chunks, e.chunks)
        /\ \A g \in M : e.chunks[g].used = b.chunks[g].used
    <3>1. PICK X : X = {h} /\ h \in X /\ X \ {h} = {}
      OBVIOUS
    <3>2. /\ Sound(b, M, regs, X) /\ h \in M /\ ~b.chunks[h].used
          /\ b.chunks[h].next # kInvalid => b.chunks[b.chunks[h].next].used
          /\ b.chunks[h].prev # kInvalid => b.chunks[b.chunks[h].prev].used
      BY <1>8, <1>9, <2>2, <3>1
    <3>3. /\ Sound(InsertFreeChunkIntoBin(b, h), M, regs, X \ {h})
          /\ SamePlaces(b.chunks, InsertFreeChunkIntoBin(b, h).chunks)
          /\ \A g \in M : InsertFreeChunkIntoBin(b, h).chunks[g].used = b.chunks[g].used
      BY <3>1, <3>2, Insert
    <3> QED  BY <2>1, <3>1, <3>3
  <2>4. Kept(hp, L, e, M, h)
    BY <1>8, <2>3, SameIsKept, KeptTransitive
  <2>5. FreeAndMaybeCoalesce(hp, h) = e
    BY <1>12, <1>13, <2>1
  <2>6. \A g \in M : e.chunks[g].used => g # h
    BY <1>8, <2>3
  <2> QED  BY <2>3, <2>4, <2>5, <2>6 DEF Freed
<1> QED  BY <1>11, <1>12


\* A new region behind the others is one free chunk, in the bin of its size.
LEMMA RegionSound ==
  ASSUME NEW hp, NEW L, NEW regs, Sound(hp, L, regs, {}), NEW mem \in Nat, NEW bytes \in Nat \ {0},
         \A r \in regs : r.ptr + r.size <= mem
  PROVE  \E L2 : /\ Sound(AddRegion(hp, mem, bytes), L2, regs \cup {[ptr |-> mem, size |-> bytes]}, {})
                 /\ Kept(hp, L, AddRegion(hp, mem, bytes), L2, kInvalid)
<1> DEFINE ch == hp.chunks
           new == NewHandle(hp)
           c == Chunk(mem, bytes, kInvalid, kInvalid)
           M == L \cup {new}
           q == [ptr |-> mem, size |-> bytes]
           regs2 == regs \cup {q}
           hd2 == [p \in DOMAIN hp.handles \cup {mem} |-> IF p = mem THEN new ELSE hp.handles[p]]
<1> HIDE DEF new
<1>1. /\ c \in Cell /\ c.ptr = mem /\ c.size = bytes /\ c.prev = kInvalid /\ c.next = kInvalid
      /\ c.used = FALSE /\ c.bin = NoBin
  BY DEF Cell, Chunk, NoBin, kInvalid
<1> HIDE DEF c
<1>2. PICK ch2, f2 : /\ AllocateChunk(hp, c) = HeapOf(ch2, f2, hp.bins, hp.handles)
                     /\ Added(ch, ch2, f2, new, c, L)
  BY <1>1, AllocateHeap DEF new
<1>3. ch \in Seq(Cell) /\ L \subseteq 1..Len(ch)
  BY DEF Sound, Typed
<1>4. /\ ch2 \in Seq(Cell) /\ f2 \in 0..Len(ch2)
      /\ 1..Len(ch2) = (1..Len(ch)) \cup {new} /\ new \in Nat /\ new \notin L /\ new # kInvalid
      /\ ch2[new] = c /\ \A g \in L : ch2[g] = ch[g]
      /\ Chained(ch2, f2, M)
  BY <1>2, <1>3 DEF Added
<1>5. \A g \in L : /\ ch[g].ptr \in Nat /\ ch[g].size \in Nat /\ g # kInvalid
                   /\ ch[g].size > 0
  <2>1. \A g \in L : ch[g] \in Cell /\ g # kInvalid
    BY <1>3 DEF kInvalid
  <2> QED  BY <2>1 DEF Cell, Sound, Linked
<1>6. Placed(ch, L, regs) /\ Disjoint(regs) /\ \A r \in regs : r.ptr \in Nat /\ r.size \in Nat \ {0}
  BY DEF Sound, Placed, Disjoint
<1>7. q.ptr = mem /\ q.size = bytes /\ q \in [ptr : Nat, size : Nat \ {0}]
  OBVIOUS
<1> HIDE DEF q
<1>8. \A g \in L : End(ch[g]) <= mem /\ ch[g].ptr # mem
  <2> TAKE g \in L
  <2>1. PICK r \in regs : Inside(ch[g], r)
    BY <1>6 DEF Placed
  <2> QED  BY <1>5, <1>6, <2>1 DEF Inside, End
<1>9. Typed(ch2, f2, hp.bins, M)
  BY <1>3, <1>4 DEF Sound, Typed
<1>10. Named(ch2, hd2, M)
  <2>1. Named(ch, hp.handles, L)
    BY DEF Sound
  <2>2. DOMAIN hp.handles = {ch[g].ptr : g \in L}
    BY <2>1 DEF Named
  <2>3. {ch2[g].ptr : g \in M} = DOMAIN hp.handles \cup {mem}
    BY <1>1, <1>4, <2>2
  <2>4. \A g \in L : hd2[ch2[g].ptr] = g
    BY <1>4, <1>8, <2>1, <2>2 DEF Named
  <2>5. hd2[ch2[new].ptr] = new
    BY <1>1, <1>4
  <2>6. \A g \in M : hd2[ch2[g].ptr] = g
    BY <2>4, <2>5
  <2> QED  BY <2>3, <2>6 DEF Named
<1>11. Linked(ch2, M)
  <2>1. Linked(ch, L)
    BY DEF Sound
  <2> QED  BY <1>1, <1>4, <2>1 DEF Linked
<1>12. Apart(ch2, M)
  <2>1. Apart(ch, L)
    BY DEF Sound
  <2> QED  BY <1>1, <1>4, <1>8, <2>1 DEF Apart
<1>13. Placed(ch2, M, regs2)
  <2>1. Disjoint(regs2)
    <3>1. regs2 \subseteq [ptr : Nat, size : Nat \ {0}]
      BY <1>6, <1>7 DEF Disjoint
    <3>2. \A r, s \in regs : r # s => r.ptr + r.size <= s.ptr \/ s.ptr + s.size <= r.ptr
      BY <1>6 DEF Disjoint
    <3>3. \A r \in regs : r.ptr + r.size <= q.ptr
      BY <1>7
    <3> QED  BY <3>1, <3>2, <3>3 DEF Disjoint
  <2>2. Inside(ch2[new], q) /\ End(ch2[new]) = q.ptr + q.size
    BY <1>1, <1>4, <1>7 DEF Inside, End
  <2>3. \A g \in L : ~Inside(ch[g], q)
    BY <1>5, <1>7, <1>8 DEF Inside, End
  <2>4. \A g \in M : \E r \in regs2 : Inside(ch2[g], r)
    <3>1. \A g \in L : \E r \in regs : Inside(ch[g], r)
      BY <1>6 DEF Placed
    <3> QED  BY <1>4, <2>2, <3>1
  <2>5. ASSUME NEW g \in M, NEW r \in regs2, ch2[g].next # kInvalid
        PROVE  Inside(ch2[g], r) <=> Inside(ch2[ch2[g].next], r)
    <3>1. g \in L /\ ch2[g].next = ch[g].next
      BY <1>1, <1>4, <2>5
    <3>2. ch[g].next \in L
      BY <2>5, <3>1 DEF Sound, Linked
    <3>3. CASE r = q
      BY <1>4, <2>3, <3>1, <3>2, <3>3
    <3>4. CASE r \in regs
      BY <1>4, <1>6, <2>5, <3>1, <3>2, <3>4 DEF Placed
    <3> QED  BY <3>3, <3>4
  <2>6. \A g \in M : ch2[g].next = kInvalid => \E r \in regs2 : End(ch2[g]) = r.ptr + r.size
    <3>1. \A g \in L : ch[g].next = kInvalid => \E r \in regs : End(ch[g]) = r.ptr + r.size
      BY <1>6 DEF Placed
    <3> QED  BY <1>4, <2>2, <3>1
  <2>7. \A r \in regs2 : \E g \in M : ch2[g].ptr = r.ptr /\ ch2[g].prev = kInvalid
    <3>1. \A r \in regs : \E g \in L : ch[g].ptr = r.ptr /\ ch[g].prev = kInvalid
      BY <1>6 DEF Placed
    <3> QED  BY <1>1, <1>4, <1>7, <3>1
  <2> QED  BY <2>1, <2>4, <2>5, <2>6, <2>7 DEF Placed
<1>14. Binned(ch2, hp.bins, M, {new})
  <2>1. Binned(ch, hp.bins, L, {})
    BY DEF Sound
  <2>2. \A g \in M : ch2[g].bin = IF ch2[g].used \/ g \in {new} THEN NoBin
                                                   ELSE BinNumForSize(ch2[g].size)
    BY <1>1, <1>4, <2>1 DEF Binned
  <2>3. ASSUME NEW b \in 0..(NumBins - 1)  PROVE hp.bins[b] = {g \in M : ch2[g].bin = b}
    <3>1. hp.bins[b] = {g \in L : ch[g].bin = b} /\ b # NoBin
      BY <2>1 DEF Binned, NoBin
    <3> QED  BY <1>1, <1>4, <3>1
  <2> QED  BY <2>2, <2>3 DEF Binned
<1>15. Joined(ch2, M, {new})
  <2>1. Joined(ch, L, {})
    BY DEF Sound
  <2>2. \A g \in L : ch[g].next # kInvalid => ch[g].next \in L
    BY DEF Sound, Linked
  <2> QED  BY <1>4, <2>1, <2>2 DEF Joined
<1>16. PICK a : a = HeapOf(ch2, f2, hp.bins, hd2)
  OBVIOUS
<1>17. AddRegion(hp, mem, bytes) = InsertFreeChunkIntoBin(a, new)
  <2>1. PICK e : e = AllocateChunk(hp, c)
    OBVIOUS
  <2>2. IsHeap(e) /\ e.chunks = ch2 /\ e.free = f2 /\ e.bins = hp.bins /\ e.handles = hp.handles
    BY <1>2, <2>1, HeapFields
  <2>3. SetHandle(e, mem, new) = a
    BY <1>16, <2>2, SetHandleHeap
  <2> QED  BY <2>1, <2>3 DEF AddRegion, c, new
<1> HIDE DEF hd2, regs2
<1>18. Sound(a, M, regs2, {new}) /\ a.chunks = ch2
  BY <1>4, <1>9, <1>10, <1>11, <1>12, <1>13, <1>14, <1>15, <1>16, HeapFields DEF Sound
<1>19. /\ Sound(InsertFreeChunkIntoBin(a, new), M, regs2, {new} \ {new})
       /\ SamePlaces(a.chunks, InsertFreeChunkIntoBin(a, new).chunks)
       /\ \A g \in M : InsertFreeChunkIntoBin(a, new).chunks[g].used = a.chunks[g].used
  <2>1. PICK K, X : K = M /\ X = {new}
    OBVIOUS
  <2>2. Sound(a, K, regs2, X) /\ new \in K /\ new \in X
    BY <1>18, <2>1
  <2>3. ~a.chunks[new].used /\ a.chunks[new].next = kInvalid /\ a.chunks[new].prev = kInvalid
    BY <1>1, <1>4, <1>18
  <2>4. /\ Sound(InsertFreeChunkIntoBin(a, new), K, regs2, X \ {new})
        /\ SamePlaces(a.chunks, InsertFreeChunkIntoBin(a, new).chunks)
        /\ \A g \in K : InsertFreeChunkIntoBin(a, new).chunks[g].used = a.chunks[g].used
    BY <2>2, <2>3, Insert
  <2> QED  BY <2>1, <2>4
<1>20. Sound(AddRegion(hp, mem, bytes), M, regs2, {})
  <2>1. {new} \ {new} = {}
    OBVIOUS
  <2> QED  BY <1>17, <1>19, <2>1
<1>21. Kept(hp, L, a, M, kInvalid)
  BY <1>1, <1>4, <1>18 DEF Kept
<1>22. Kept(a, M, AddRegion(hp, mem, bytes), M, kInvalid)
  BY <1>17, <1>18, <1>19, SameIsKept
<1> QED  BY <1>20, <1>21, <1>22, KeptTransitive DEF regs2, q

-----------------------------------------------------------------------------
(* The search                                                              *)

\* The first chunk that fits of the first bin that has one is free, and no free chunk
\* that fits is smaller.
LEMMA FoundFacts ==
  ASSUME NEW hp, NEW L, NEW regs, Sound(hp, L, regs, {}), NEW rounded \in Nat,
         FittingBins(hp, rounded) # {}
  PROVE  /\ Found(hp, rounded) \in L /\ ~hp.chunks[Found(hp, rounded)].used
         /\ rounded <= hp.chunks[Found(hp, rounded)].size
         /\ \A g \in L : ~hp.chunks[g].used /\ rounded <= hp.chunks[g].size =>
              hp.chunks[Found(hp, rounded)].size <= hp.chunks[g].size
<1> DEFINE ch == hp.chunks
           B == FittingBins(hp, rounded)
           b == Min(B)
           fits == FitsIn(hp, b, rounded)
<1>1. B \subseteq 0..(NumBins - 1) /\ B \subseteq Nat
  BY BinFacts DEF FittingBins
<1>2. b \in B /\ \A a \in B : b <= a
  <2>1. B # {}
    OBVIOUS
  <2> HIDE DEF B
  <2> QED  BY <1>1, <2>1, MinFacts
<1>3. fits # {} /\ b \in 0..(NumBins - 1) /\ b >= BinNumForSize(rounded)
  BY <1>1, <1>2 DEF FittingBins
<1> HIDE DEF B, b
<1>4. \A h \in L : /\ ch[h] \in Cell /\ ch[h].size \in Nat /\ ch[h].ptr \in Nat
  <2>1. \A h \in L : ch[h] \in Cell
    BY CellFacts
  <2> QED  BY <2>1 DEF Cell
<1>5. Binned(ch, hp.bins, L, {})
  BY DEF Sound
<1>6. \A a \in 0..(NumBins - 1) : \A h \in hp.bins[a] :
        h \in L /\ ~ch[h].used /\ a = BinNumForSize(ch[h].size)
  <2>1. TAKE a \in 0..(NumBins - 1)
  <2>2. TAKE h \in hp.bins[a]
  <2>3. h \in L /\ ch[h].bin = a
    BY <1>5 DEF Binned
  <2>4. a # NoBin
    BY DEF NoBin
  <2> QED  BY <1>5, <2>3, <2>4 DEF Binned
<1>7. \A h \in fits : h \in L /\ ~ch[h].used /\ ch[h].size >= rounded /\ BinNumForSize(ch[h].size) = b
  BY <1>3, <1>6 DEF FitsIn
<1>8. \E h \in fits : \A g \in fits : Before(hp, h, g)
  <2> DEFINE S == {ch[h].size : h \in fits}
  <2>1. S \subseteq Nat /\ S # {}
    BY <1>3, <1>4, <1>7
  <2>2. PICK s \in S : \A t \in S : s <= t
    <3> HIDE DEF S
    <3> QED  BY <2>1, MinFacts
  <2> DEFINE P == {ch[h].ptr : h \in {g \in fits : ch[g].size = s}}
  <2>3. P \subseteq Nat /\ P # {}
    BY <1>4, <1>7
  <2>4. PICK p \in P : \A o \in P : p <= o
    <3> HIDE DEF P
    <3> QED  BY <2>3, MinFacts
  <2>5. PICK h \in fits : ch[h].size = s /\ ch[h].ptr = p
    OBVIOUS
  <2>6. ASSUME NEW g \in fits  PROVE Before(hp, h, g)
    <3>1. s <= ch[g].size /\ ch[g].size \in Nat /\ s \in Nat
      BY <1>4, <1>7, <2>1, <2>2
    <3>2. CASE ch[g].size = s
      <4>1. ch[g].ptr \in P
        BY <3>2
      <4> QED  BY <2>4, <2>5, <3>2, <4>1 DEF Before
    <3>3. CASE ch[g].size # s
      BY <2>5, <3>1, <3>3 DEF Before
    <3> QED  BY <3>2, <3>3
  <2> QED  BY <2>6
<1>9. Found(hp, rounded) \in fits /\ \A g \in fits : Before(hp, Found(hp, rounded), g)
  <2>1. Found(hp, rounded) = CHOOSE h \in fits : \A g \in fits : Before(hp, h, g)
    BY DEF Found, B, b
  <2> HIDE DEF fits
  <2> QED  BY <1>8, <2>1
<1> DEFINE f == Found(hp, rounded)
<1> HIDE DEF f
<1>10. f \in L /\ ~ch[f].used /\ rounded <= ch[f].size /\ BinNumForSize(ch[f].size) = b
  BY <1>4, <1>7, <1>9 DEF f
<1>11. ASSUME NEW g \in L, ~ch[g].used, rounded <= ch[g].size
       PROVE  ch[f].size <= ch[g].size
  <2> DEFINE a == BinNumForSize(ch[g].size)
  <2>1. a \in 0..(NumBins - 1) /\ a >= BinNumForSize(rounded) /\ BinNumForSize(rounded) \in Nat
    BY <1>4, <1>11, BinFacts, BinMonotone
  <2>2. g \in hp.bins[a]
    <3>1. ch[g].bin = a
      BY <1>5, <1>11 DEF Binned
    <3> HIDE DEF a
    <3> QED  BY <1>5, <2>1, <3>1 DEF Binned
  <2>3. g \in FitsIn(hp, a, rounded)
    BY <1>4, <1>11, <2>2 DEF FitsIn
  <2>4. a \in B
    BY <2>1, <2>3 DEF FittingBins, B
  <2>5. b <= a
    BY <1>2, <2>4
  <2>6. CASE a = b
    <3>1. g \in fits
      BY <2>3, <2>6
    <3>2. Before(hp, f, g)
      BY <1>9, <3>1 DEF f
    <3> QED  BY <1>4, <1>10, <3>2 DEF Before
  <2>7. CASE a # b
    <3> SUFFICES ASSUME ~(ch[f].size <= ch[g].size)  PROVE FALSE
      OBVIOUS
    <3>1. ch[g].size <= ch[f].size
      BY <1>4, <1>10
    <3>2. a <= b
      BY <1>4, <1>10, <3>1, BinMonotone
    <3> QED  BY <1>1, <1>2, <2>1, <2>5, <2>7, <3>2
  <2> QED  BY <2>6, <2>7
<1> QED  BY <1>10, <1>11 DEF f


-----------------------------------------------------------------------------
(* The bytes of the chunks in use                                          *)

\* Induction for a set.
LEMMA SetInduction ==
  ASSUME NEW N, N \subseteq Nat, 0 \in N, \A n \in N : n + 1 \in N
  PROVE  \A n \in Nat : n \in N
<1> SUFFICES ASSUME NEW n \in Nat, n \notin N  PROVE FALSE
  OBVIOUS
<1>1. PICK S : S = Nat \ N
  OBVIOUS
<1>2. S \subseteq Nat /\ S # {}
  BY <1>1
<1>3. PICK m \in S : \A s \in S : m <= s
  BY <1>2, MinFacts
<1>4. m \in Nat /\ m # 0 /\ m \notin N
  BY <1>1, <1>3
<1>5. m - 1 \in Nat /\ m - 1 \notin S
  BY <1>3, <1>4
<1>6. m - 1 \in N
  BY <1>1, <1>5
<1>7. (m - 1) + 1 \in N
  BY <1>6
<1> QED  BY <1>4, <1>7

One(s) == CHOOSE x \in s : TRUE

\* F[s] is the sum of the sizes of the chunks of s, added in the order of One.
AddsOn(w, D, F) ==
  F = [s \in D |-> IF s = {} THEN 0 ELSE w[One(s)].size + F[s \ {One(s)}]]

Sum(w, S) == MapThenSumSet(LAMBDA h : w[h].size, S)

\* Taking one away from a finite set.
LEMMA OneLess ==
  ASSUME NEW s, IsFiniteSet(s), s # {}
  PROVE  /\ One(s) \in s /\ IsFiniteSet(s \ {One(s)})
         /\ Cardinality(s) \in Nat /\ Cardinality(s \ {One(s)}) \in Nat
         /\ Cardinality(s) = Cardinality(s \ {One(s)}) + 1
<1>1. One(s) \in s
  BY DEF One
<1>2. PICK x : x = One(s)
  OBVIOUS
<1>3. IsFiniteSet(s \ {x}) /\ Cardinality(s \ {x}) = Cardinality(s) - 1
  BY <1>1, <1>2, FS_RemoveElement
<1>4. Cardinality(s) \in Nat /\ Cardinality(s \ {x}) \in Nat
  BY <1>3, FS_CardinalityType
<1> QED  BY <1>1, <1>2, <1>3, <1>4

\* The sum of a finite set is well defined.
LEMMA SumExists ==
  ASSUME NEW w, NEW S, IsFiniteSet(S)
  PROVE  \E F : AddsOn(w, SUBSET S, F)
<1> DEFINE Upto(n) == {s \in SUBSET S : Cardinality(s) <= n}
           N == {n \in Nat : \E F : AddsOn(w, Upto(n), F)}
<1>1. \A s \in SUBSET S : IsFiniteSet(s) /\ Cardinality(s) \in Nat
  BY FS_Subset, FS_CardinalityType
<1>2. 0 \in N
  <2>1. \A s \in Upto(0) : s = {}
    BY <1>1, FS_EmptySet
  <2>2. PICK F : F = [s \in Upto(0) |-> 0]
    OBVIOUS
  <2>3. AddsOn(w, Upto(0), F)
    <3> HIDE DEF Upto
    <3> QED  BY <2>1, <2>2 DEF AddsOn
  <2> QED  BY <2>3
<1>3. ASSUME NEW n \in N
      PROVE  n + 1 \in N
  <2>1. PICK F : AddsOn(w, Upto(n), F)
    OBVIOUS
  <2>2. n \in Nat /\ Upto(n) \subseteq Upto(n + 1)
    BY <1>1
  <2>3. \A s \in Upto(n + 1) : s # {} => s \ {One(s)} \in Upto(n)
    BY <1>1, <2>2, OneLess
  <2>4. PICK G : G = [s \in Upto(n + 1) |-> IF s = {} THEN 0 ELSE w[One(s)].size + F[s \ {One(s)}]]
    OBVIOUS
  <2> HIDE DEF Upto
  <2>5. \A t \in Upto(n) : G[t] = F[t]
    BY <2>1, <2>2, <2>4 DEF AddsOn
  <2>6. \A s \in Upto(n + 1) : s # {} => G[s \ {One(s)}] = F[s \ {One(s)}]
    BY <2>3, <2>5
  <2>7. \A s \in Upto(n + 1) : G[s] = IF s = {} THEN 0 ELSE w[One(s)].size + G[s \ {One(s)}]
    BY <2>4, <2>6
  <2>8. G = [s \in Upto(n + 1) |-> IF s = {} THEN 0 ELSE w[One(s)].size + G[s \ {One(s)}]]
    BY <2>4, <2>7
  <2>9. AddsOn(w, Upto(n + 1), G)
    BY <2>8 DEF AddsOn
  <2> QED  BY <2>2, <2>9
<1>4. N \subseteq Nat
  OBVIOUS
<1>5. \A n \in Nat : n \in N
  <2> HIDE DEF N
  <2> QED  BY <1>2, <1>3, <1>4, SetInduction
<1>6. PICK m \in Nat : m = Cardinality(S)
  BY FS_CardinalityType
<1>7. Upto(m) = SUBSET S
  BY <1>6, FS_Subset
<1> QED  BY <1>5, <1>7

\* The sum over a finite set is the value of such a function.
LEMMA SumIs ==
  ASSUME NEW w, NEW S, IsFiniteSet(S)
  PROVE  \E F : AddsOn(w, SUBSET S, F) /\ Sum(w, S) = F[S]
<1> DEFINE F == CHOOSE F : F = [s \in SUBSET S |->
                  IF s = {} THEN 0 ELSE w[CHOOSE x \in s : TRUE].size + F[s \ {CHOOSE x \in s : TRUE}]]
<1>1. \E F0 : F0 = [s \in SUBSET S |->
        IF s = {} THEN 0 ELSE w[CHOOSE x \in s : TRUE].size + F0[s \ {CHOOSE x \in s : TRUE}]]
  <2>1. PICK F0 : AddsOn(w, SUBSET S, F0)
    BY SumExists
  <2>2. F0 = [s \in SUBSET S |->
          IF s = {} THEN 0 ELSE w[CHOOSE x \in s : TRUE].size + F0[s \ {CHOOSE x \in s : TRUE}]]
    BY ONLY <2>1 DEF AddsOn, One
  <2> QED  BY ONLY <2>2
<1>2. F = [s \in SUBSET S |->
        IF s = {} THEN 0 ELSE w[CHOOSE x \in s : TRUE].size + F[s \ {CHOOSE x \in s : TRUE}]]
  BY ONLY <1>1
<1>3. Sum(w, S) = F[S]
  BY DEF Sum, MapThenSumSet, MapThenFoldSet
<1> HIDE DEF F
<1>4. AddsOn(w, SUBSET S, F)
  BY <1>2 DEF AddsOn, One
<1> QED  BY <1>3, <1>4

\* F and G add up the same sizes in Z.
SameSizes(w, S, F, v, T, G, Z) ==
  /\ AddsOn(w, SUBSET S, F) /\ AddsOn(v, SUBSET T, G)
  /\ Z \subseteq S /\ Z \subseteq T /\ IsFiniteSet(Z)
  /\ \A h \in Z : w[h].size = v[h].size

\* A sum depends on the sizes of the chunks only.
LEMMA AddsSame ==
  ASSUME NEW w, NEW S, NEW F, NEW v, NEW T, NEW G, NEW Z, SameSizes(w, S, F, v, T, G, Z)
  PROVE  F[Z] = G[Z]
<1> USE DEF SameSizes
<1> DEFINE N == {n \in Nat : \A s \in SUBSET Z : Cardinality(s) = n => F[s] = G[s]}
<1>1. \A s \in SUBSET Z : IsFiniteSet(s) /\ Cardinality(s) \in Nat /\ s \in SUBSET S /\ s \in SUBSET T
  BY FS_Subset, FS_CardinalityType
<1>2. \A s \in SUBSET Z : /\ F[s] = IF s = {} THEN 0 ELSE w[One(s)].size + F[s \ {One(s)}]
                          /\ G[s] = IF s = {} THEN 0 ELSE v[One(s)].size + G[s \ {One(s)}]
  BY <1>1 DEF AddsOn
<1>3. 0 \in N
  BY <1>1, <1>2, FS_EmptySet
<1>4. ASSUME NEW n \in N
      PROVE  n + 1 \in N
  <2> SUFFICES ASSUME NEW s \in SUBSET Z, Cardinality(s) = n + 1  PROVE F[s] = G[s]
    OBVIOUS
  <2>1. s # {}
    <3>1. n \in Nat /\ n + 1 # 0
      OBVIOUS
    <3> HIDE DEF N
    <3> QED  BY <3>1, FS_EmptySet
  <2>2. One(s) \in s /\ Cardinality(s \ {One(s)}) = n
    BY <1>1, <2>1, OneLess
  <2>3. F[s \ {One(s)}] = G[s \ {One(s)}]
    BY <2>2
  <2>4. w[One(s)].size = v[One(s)].size
    BY <2>2
  <2> QED  BY <1>2, <2>1, <2>3, <2>4
<1>5. N \subseteq Nat
  OBVIOUS
<1>6. \A n \in Nat : n \in N
  <2> HIDE DEF N
  <2> QED  BY <1>3, <1>4, <1>5, SetInduction
<1>7. Z \in SUBSET Z
  OBVIOUS
<1> QED  BY <1>1, <1>6, <1>7

\* The order does not matter.
LEMMA AddsAny ==
  ASSUME NEW w, NEW S, NEW F, AddsOn(w, SUBSET S, F), IsFiniteSet(S), \A h \in S : w[h].size \in Nat
  PROVE  /\ F[S] \in Nat
         /\ \A x \in S : F[S] = w[x].size + F[S \ {x}]
<1> DEFINE N == {n \in Nat : \A s \in SUBSET S : Cardinality(s) <= n =>
                   F[s] \in Nat /\ \A x \in s : F[s] = w[x].size + F[s \ {x}]}
<1>1. \A s \in SUBSET S : /\ IsFiniteSet(s) /\ Cardinality(s) \in Nat
                          /\ \A x \in s : Cardinality(s \ {x}) = Cardinality(s) - 1
  BY FS_Subset, FS_CardinalityType, FS_RemoveElement
<1>2. \A s \in SUBSET S : F[s] = IF s = {} THEN 0 ELSE w[One(s)].size + F[s \ {One(s)}]
  BY DEF AddsOn
<1>2a. F[{}] = 0
  <2>1. {} \in SUBSET S
    OBVIOUS
  <2> QED  BY <1>2, <2>1
<1>3. 0 \in N
  <2>1. \A s \in SUBSET S : Cardinality(s) <= 0 => s = {}
    BY <1>1, FS_EmptySet
  <2>2. \A s \in SUBSET S : Cardinality(s) <= 0 =>
          F[s] \in Nat /\ \A x \in s : F[s] = w[x].size + F[s \ {x}]
    <3> TAKE s \in SUBSET S
    <3> HAVE Cardinality(s) <= 0
    <3>1. s = {}
      BY <2>1
    <3>2. F[s] = 0
      BY <1>2a, <3>1
    <3>3. \A x \in s : FALSE
      BY <3>1
    <3> QED  BY <3>2, <3>3
  <2> QED  BY <2>2
<1>4. ASSUME NEW n \in N
      PROVE  n + 1 \in N
  <2> SUFFICES ASSUME NEW s \in SUBSET S, Cardinality(s) <= n + 1
               PROVE  F[s] \in Nat /\ \A x \in s : F[s] = w[x].size + F[s \ {x}]
    OBVIOUS
  <2>1. n \in Nat /\ \A t \in SUBSET S : Cardinality(t) <= n =>
                       F[t] \in Nat /\ \A x \in t : F[t] = w[x].size + F[t \ {x}]
    OBVIOUS
  <2> HIDE DEF N
  <2>2. CASE s = {}
    BY <1>2a, <2>2
  <2>3. CASE s # {}
    <3>1. PICK y \in s : y = One(s)
      BY <2>3 DEF One
    <3>2. F[s] = w[y].size + F[s \ {y}]
      BY <1>2, <2>3, <3>1
    <3>3. \A t \in SUBSET s : t # s => F[t] \in Nat /\ \A x \in t : F[t] = w[x].size + F[t \ {x}]
      <4> TAKE t \in SUBSET s
      <4> HAVE t # s
      <4>1. Cardinality(t) <= Cardinality(s) /\ Cardinality(t) # Cardinality(s)
        BY <1>1, FS_Subset
      <4>2. t \in SUBSET S /\ Cardinality(t) \in Nat /\ Cardinality(s) \in Nat
        BY <1>1
      <4>3. Cardinality(t) <= n
        BY <2>1, <4>1, <4>2
      <4> QED  BY <2>1, <4>2, <4>3
    <3>4. F[s] \in Nat
      <4>1. w[y].size \in Nat /\ F[s \ {y}] \in Nat
        BY <3>3
      <4> QED  BY <3>2, <4>1
    <3>5. ASSUME NEW x \in s
          PROVE  F[s] = w[x].size + F[s \ {x}]
      <4>1. CASE x = y
        BY <3>2, <4>1
      <4>2. CASE x # y
        <5>1. PICK t : t = (s \ {x}) \ {y} /\ t = (s \ {y}) \ {x}
          OBVIOUS
        <5>2. F[s \ {y}] = w[x].size + F[t]
          BY <3>3, <4>2, <5>1
        <5>3. F[s \ {x}] = w[y].size + F[t]
          BY <3>3, <4>2, <5>1
        <5>4. F[t] \in Nat /\ w[x].size \in Nat /\ w[y].size \in Nat
          BY <3>3, <5>1
        <5> QED  BY <3>2, <5>2, <5>3, <5>4
      <4> QED  BY <4>1, <4>2
    <3> QED  BY <3>4, <3>5
  <2> QED  BY <2>2, <2>3
<1>5. N \subseteq Nat
  OBVIOUS
<1>6. \A n \in Nat : n \in N
  <2> HIDE DEF N
  <2> QED  BY <1>3, <1>4, <1>5, SetInduction
<1>7. S \in SUBSET S
  OBVIOUS
<1> QED  BY <1>1, <1>6, <1>7, SMTT(30)

\* Sums of the sizes of chunks.
LEMMA SumFacts ==
  ASSUME NEW w, NEW S, IsFiniteSet(S), \A h \in S : w[h].size \in Nat
  PROVE  Sum(w, S) \in Nat
<1>1. PICK F : AddsOn(w, SUBSET S, F) /\ Sum(w, S) = F[S]
  BY SumIs
<1>2. F[S] \in Nat
  BY <1>1, AddsAny
<1> QED  BY <1>1, <1>2

\* Chunks of the same sizes have the same sum.
LEMMA SumSame ==
  ASSUME NEW w, NEW v, NEW S, IsFiniteSet(S), \A h \in S : w[h].size = v[h].size
  PROVE  Sum(w, S) = Sum(v, S)
<1>1. PICK F : AddsOn(w, SUBSET S, F) /\ Sum(w, S) = F[S]
  BY SumIs
<1>2. PICK G : AddsOn(v, SUBSET S, G) /\ Sum(v, S) = G[S]
  BY SumIs
<1>3. SameSizes(w, S, F, v, S, G, S)
  BY <1>1, <1>2 DEF SameSizes
<1>4. F[S] = G[S]
  BY <1>3, AddsSame
<1> QED  BY <1>1, <1>2, <1>4

\* The sum with and without a chunk.
LEMMA SumWithout ==
  ASSUME NEW w, NEW S, IsFiniteSet(S), \A h \in S : w[h].size \in Nat, NEW x \in S
  PROVE  Sum(w, S) = w[x].size + Sum(w, S \ {x})
<1>1. PICK F : AddsOn(w, SUBSET S, F) /\ Sum(w, S) = F[S]
  BY SumIs
<1>2. PICK T : T = S \ {x}
  OBVIOUS
<1>3. IsFiniteSet(T) /\ T \subseteq S
  BY <1>2, FS_RemoveElement
<1>4. PICK G : AddsOn(w, SUBSET T, G) /\ Sum(w, T) = G[T]
  BY <1>3, SumIs
<1>5. F[T] = G[T]
  <2>1. SameSizes(w, S, F, w, T, G, T)
    BY <1>1, <1>3, <1>4 DEF SameSizes
  <2> QED  BY <2>1, AddsSame
<1>6. F[S] = w[x].size + F[S \ {x}]
  BY <1>1, AddsAny
<1> QED  BY <1>1, <1>2, <1>4, <1>5, <1>6

\* The sum over no chunks.
LEMMA SumEmpty ==
  ASSUME NEW w
  PROVE  Sum(w, {}) = 0
<1>1. IsFiniteSet({})
  BY FS_EmptySet
<1>2. PICK F : AddsOn(w, SUBSET {}, F) /\ Sum(w, {}) = F[{}]
  BY <1>1, SumIs
<1>3. {} \in SUBSET {}
  OBVIOUS
<1> QED  BY <1>2, <1>3 DEF AddsOn


-----------------------------------------------------------------------------
(* The state                                                               *)

\* The statistics have the bytes of the chunks that are marked as used.
UsedIn(hp, L) == {h \in L : hp.chunks[h].used}

Counted(hp, L, use) == use = Sum(hp.chunks, UsedIn(hp, L))

Held(hp, L, cl, use) == Lent(hp, L, cl) /\ Counted(hp, L, use)

Inv ==
  /\ \E L : Sound(heap, L, regions, {}) /\ Held(heap, L, client, inUse)
  /\ Rest

\* A multiple of a multiple of the smallest size is one too.
LEMMA MultiplesTimes ==
  ASSUME NEW n \in Multiples, NEW k \in Nat
  PROVE  n * k \in Multiples
<1> DEFINE m == MinAllocationSize
<1>1. m \in Nat \ {0} /\ n \in Nat /\ n % m = 0
  BY BinsAssumption DEF Multiples
<1> HIDE DEF m
<1>2. PICK j \in Nat : n = m * j
  <2>1. n = m * (n \div m) /\ n \div m \in Nat
    BY <1>1
  <2> QED  BY <2>1
<1>3. PICK i \in Nat : i = j * k
  OBVIOUS
<1>4. n * k = m * i
  BY <1>1, <1>2, <1>3
<1>5. m * i \in Nat /\ (m * i) % m = 0
  BY <1>1, <1>3
<1> QED  BY <1>4, <1>5 DEF Multiples, m

\* Doubling reaches every size.
LEMMA GrownFacts ==
  ASSUME NEW size \in Nat \ {0}, NEW wanted \in Nat
  PROVE  /\ Grown(size, wanted) \in Nat \ {0} /\ Grown(size, wanted) >= wanted
         /\ size \in Multiples => Grown(size, wanted) \in Multiples
<1> DEFINE K == 0..(wanted \div size)
           S == {s \in {size * 2^k : k \in K} : s >= wanted}
<1>1. PICK d \in Nat : d = wanted \div size /\ wanted < size * d + size
  OBVIOUS
<1>2. \A k \in K : 2^k \in Nat /\ 2^k > k /\ k \in Nat
  BY <1>1, PowerOfTwo
<1>3. \A k \in K : size * 2^k \in Nat \ {0}
  <2> TAKE k \in K
  <2>1. PICK m \in Nat : m = 2^k /\ m > 0
    BY <1>2
  <2>2. size * m \in Nat \ {0}
    BY <2>1
  <2> QED  BY <2>1, <2>2
<1>4. S \subseteq Nat \ {0}
  BY <1>3
<1>5. size * 2^d \in S
  <2>1. d \in K
    BY <1>1
  <2>2. PICK m \in Nat : m = 2^d /\ m >= d + 1
    BY <1>2, <2>1
  <2>3. size * m >= size * d + size
    <3>1. size * m >= size * (d + 1)
      BY <2>2
    <3>2. size * (d + 1) = size * d + size
      OBVIOUS
    <3> QED  BY <3>1, <3>2
  <2>4. size * m >= wanted
    <3>1. size * m \in Nat /\ size * d \in Nat
      OBVIOUS
    <3> QED  BY <1>1, <2>3, <3>1
  <2> QED  BY <2>1, <2>2, <2>4
<1>6. Grown(size, wanted) = Min(S)
  BY DEF Grown
<1>7. \A s \in S : s >= wanted
  OBVIOUS
<1>8. ASSUME size \in Multiples
      PROVE  S \subseteq Multiples
  BY <1>2, <1>8, MultiplesTimes
<1> HIDE DEF S
<1>9. Min(S) \in S
  BY <1>4, <1>5, MinFacts
<1> QED  BY <1>4, <1>5, <1>6, <1>7, <1>8, <1>9

\* The end of the last of some parts of memory.
Last(G) == Max({r.ptr + r.size : r \in G} \cup {0})

\* The end of the last region bounds all the others, and is the least bound.
LEMMA LastFacts ==
  ASSUME NEW G, NEW top \in Nat, \A g \in G : g \in [ptr : Nat, size : Nat] /\ g.ptr + g.size <= top
  PROVE  /\ Last(G) \in Nat
         /\ \A g \in G : g.ptr + g.size <= Last(G)
         /\ \A n \in Nat : (\A g \in G : g.ptr + g.size <= n) => Last(G) <= n
<1> DEFINE S == {r.ptr + r.size : r \in G} \cup {0}
<1>1. \A g \in G : g.ptr + g.size \in Nat
  OBVIOUS
<1>2. S \subseteq Nat /\ S # {} /\ \A y \in S : y <= top
  BY <1>1
<1>3. Max(S) \in S /\ \A y \in S : Max(S) >= y
  <2> HIDE DEF S
  <2> QED  BY <1>2, MaxFacts
<1>4. Last(G) = Max(S)
  BY DEF Last
<1>5. \A g \in G : g.ptr + g.size <= Max(S)
  BY <1>1, <1>2, <1>3
<1>6. \A n \in Nat : (\A g \in G : g.ptr + g.size <= n) => Max(S) <= n
  <2> TAKE n \in Nat
  <2> HAVE \A g \in G : g.ptr + g.size <= n
  <2>1. \A y \in S : y <= n
    OBVIOUS
  <2> QED  BY <1>3, <2>1
<1> QED  BY <1>2, <1>3, <1>4, <1>5, <1>6

\* The place for the next region is behind all that was granted.
LEMMA AddressFacts ==
  ASSUME RegionsOK
  PROVE  /\ NextAddress \in Nat /\ NextAddress = Last(granted)
         /\ \A g \in granted : g.ptr + g.size <= NextAddress
<1>1. device \in Nat /\ \A g \in granted : g \in [ptr : Nat, size : Nat] /\ g.ptr + g.size <= device
  BY SizesAssumption DEF RegionsOK
<1>2. NextAddress = Last(granted)
  BY DEF NextAddress, Last
<1> QED  BY <1>1, <1>2, LastFacts

\* What the limit leaves, rounded down, together with the regions is within the limit.
LEMMA AvailableFacts ==
  ASSUME LimitOK
  PROVE  /\ Available \in Nat /\ Available % MinAllocationSize = 0
         /\ region.total + Available <= MemoryLimit /\ region.total \in Nat
<1>1. PICK d \in Nat, t \in Nat : t = region.total /\ d = MemoryLimit - t
  BY SizesAssumption DEF LimitOK
<1> DEFINE m == MinAllocationSize
           q == d \div m
<1>2. m \in Nat \ {0}
  BY BinsAssumption
<1>3. Available = q * m
  BY <1>1 DEF Available
<1> HIDE DEF m
<1>4. q \in Nat /\ m * q <= d
  BY <1>2
<1>5. q * m = m * q /\ m * q \in Nat /\ (m * q) % m = 0
  BY <1>2, <1>4
<1> HIDE DEF q
<1>6. t + m * q <= MemoryLimit
  BY <1>1, <1>4, <1>5, SizesAssumption
<1> QED  BY <1>1, <1>3, <1>5, <1>6 DEF m

\* Clients that hold memory hold the same.
SameHoldings(cl, cl2) ==
  \A c \in Clients : /\ cl2[c].pc = "holds" <=> cl[c].pc = "holds"
                     /\ cl[c].pc = "holds" => cl2[c].ptr = cl[c].ptr /\ cl2[c].bytes = cl[c].bytes

\* The clients hold what they held if the used chunks are kept.
LEMMA LentKept ==
  ASSUME NEW hp, NEW L, NEW hp2, NEW L2, NEW cl, NEW cl2, Lent(hp, L, cl),
         Kept(hp, L, hp2, L2, kInvalid), kInvalid \notin L \cup L2, SameHoldings(cl, cl2)
  PROVE  Lent(hp2, L2, cl2)
<1>1. ASSUME NEW c \in Clients, cl2[c].pc = "holds"
      PROVE  \E h \in L2 : /\ hp2.chunks[h].used /\ hp2.chunks[h].ptr = cl2[c].ptr
                           /\ cl2[c].bytes <= hp2.chunks[h].size
                           /\ hp2.chunks[h].size < 2 * RoundedBytes(cl2[c].bytes)
  <2>1. cl[c].pc = "holds" /\ cl2[c].ptr = cl[c].ptr /\ cl2[c].bytes = cl[c].bytes
    BY <1>1 DEF SameHoldings
  <2>2. PICK h \in L : /\ hp.chunks[h].used /\ hp.chunks[h].ptr = cl[c].ptr
                       /\ cl[c].bytes <= hp.chunks[h].size
                       /\ hp.chunks[h].size < 2 * RoundedBytes(cl[c].bytes)
    BY <2>1 DEF Lent
  <2>3. /\ h \in L2 /\ hp2.chunks[h].used
        /\ hp2.chunks[h].ptr = hp.chunks[h].ptr /\ hp2.chunks[h].size = hp.chunks[h].size
    BY <2>2 DEF Kept
  <2> QED  BY <2>1, <2>2, <2>3
<1>2. \A c, d \in Clients :
        cl2[c].pc = "holds" /\ cl2[d].pc = "holds" /\ c # d => cl2[c].ptr # cl2[d].ptr
  BY DEF SameHoldings, Lent
<1>3. ASSUME NEW h \in L2, hp2.chunks[h].used
      PROVE  \E c \in Clients : cl2[c].pc = "holds" /\ cl2[c].ptr = hp2.chunks[h].ptr
  <2>1. h \in L /\ hp.chunks[h].used
    BY <1>3 DEF Kept
  <2>2. hp2.chunks[h].ptr = hp.chunks[h].ptr
    BY <2>1 DEF Kept
  <2>3. PICK c \in Clients : cl[c].pc = "holds" /\ cl[c].ptr = hp.chunks[h].ptr
    BY <2>1 DEF Lent
  <2> QED  BY <2>2, <2>3 DEF SameHoldings
<1> QED  BY <1>1, <1>2, <1>3 DEF Lent

\* The invalid handle is in use for nothing.
LEMMA NotInvalid ==
  ASSUME NEW hp, NEW L, NEW regs, NEW X, Sound(hp, L, regs, X)
  PROVE  kInvalid \notin L
BY DEF Sound, Typed, kInvalid

\* The used chunks are finitely many, and their sizes are numbers.
LEMMA UsedFacts ==
  ASSUME NEW hp, NEW L, NEW regs, NEW X, Sound(hp, L, regs, X)
  PROVE  IsFiniteSet(UsedIn(hp, L)) /\ \A h \in UsedIn(hp, L) : hp.chunks[h].size \in Nat
<1>1. PICK n \in Nat : n = Len(hp.chunks)
  BY DEF Sound, Typed
<1>2. UsedIn(hp, L) \in SUBSET (1..n)
  BY <1>1 DEF Sound, Typed, UsedIn
<1>3. IsFiniteSet(1..n)
  BY FS_Interval
<1>4. IsFiniteSet(UsedIn(hp, L))
  BY <1>2, <1>3, FS_Subset
<1>5. \A h \in L : hp.chunks[h].size \in Nat
  BY CellFacts DEF Cell
<1> QED  BY <1>4, <1>5 DEF UsedIn

\* The chunks in use and the statistics are the same.
LEMMA CountedKept ==
  ASSUME NEW hp, NEW L, NEW regs, NEW X, Sound(hp, L, regs, X), NEW hp2, NEW L2,
         Kept(hp, L, hp2, L2, kInvalid), kInvalid \notin L \cup L2, NEW use, Counted(hp, L, use)
  PROVE  Counted(hp2, L2, use)
<1>1. PICK U : U = UsedIn(hp, L)
  OBVIOUS
<1>2. IsFiniteSet(U)
  BY <1>1, UsedFacts
<1>3. UsedIn(hp2, L2) = U
  BY <1>1 DEF UsedIn, Kept
<1>4. \A h \in U : hp.chunks[h].size = hp2.chunks[h].size
  BY <1>1 DEF UsedIn, Kept
<1>5. PICK w, v : w = hp.chunks /\ v = hp2.chunks
  OBVIOUS
<1>6. Sum(w, U) = Sum(v, U)
  BY <1>2, <1>4, <1>5, SumSame
<1> QED  BY <1>1, <1>3, <1>5, <1>6 DEF Counted

\* A chunk that is handed out adds its size to the bytes in use.
LEMMA CountedHandedOut ==
  ASSUME NEW hp, NEW L, NEW regs, NEW X, Sound(hp, L, regs, X), NEW hp2, NEW L2, NEW h \in L,
         Sound(hp2, L2, regs, X), ~hp.chunks[h].used, NEW bytes,
         HandedOut(hp, L, hp2, L2, h, bytes), NEW use, Counted(hp, L, use)
  PROVE  Counted(hp2, L2, use + hp2.chunks[h].size)
<1>1. PICK U, V : U = UsedIn(hp, L) /\ V = UsedIn(hp2, L2)
  OBVIOUS
<1>2. IsFiniteSet(U) /\ (\A g \in U : hp.chunks[g].size \in Nat)
  BY <1>1, UsedFacts
<1>3. IsFiniteSet(V) /\ (\A g \in V : hp2.chunks[g].size \in Nat)
  BY <1>1, UsedFacts
<1>4. U = V \ {h} /\ h \in V /\ \A g \in U : hp.chunks[g].size = hp2.chunks[g].size
  <2>1. h \in V /\ h \notin U
    BY <1>1 DEF UsedIn, HandedOut
  <2>2. \A g \in U : g \in V /\ hp.chunks[g].size = hp2.chunks[g].size
    BY <1>1, <2>1 DEF UsedIn, HandedOut, Kept
  <2>3. \A g \in V : g # h => g \in U
    BY <1>1 DEF UsedIn, HandedOut, Kept
  <2> QED  BY <2>1, <2>2, <2>3
<1>5. PICK w, v : w = hp.chunks /\ v = hp2.chunks
  OBVIOUS
<1>6. Sum(w, U) = Sum(v, U)
  BY <1>2, <1>4, <1>5, SumSame
<1>7. Sum(v, V) = v[h].size + Sum(v, V \ {h})
  BY <1>3, <1>4, <1>5, SumWithout
<1>8. Sum(w, U) \in Nat /\ v[h].size \in Nat
  BY <1>2, <1>3, <1>4, <1>5, SumFacts
<1>9. Sum(v, V) = Sum(w, U) + v[h].size
  BY <1>4, <1>6, <1>7, <1>8
<1> QED  BY <1>1, <1>5, <1>9 DEF Counted

\* A chunk that is freed takes its size from the bytes in use.
LEMMA CountedFreed ==
  ASSUME NEW hp, NEW L, NEW regs, NEW X, Sound(hp, L, regs, X), NEW hp2, NEW L2, NEW h \in L,
         Sound(hp2, L2, regs, X), hp.chunks[h].used, Freed(hp, L, hp2, L2, h),
         NEW use, Counted(hp, L, use)
  PROVE  Counted(hp2, L2, use - hp.chunks[h].size)
<1>1. PICK U, V : U = UsedIn(hp, L) /\ V = UsedIn(hp2, L2)
  OBVIOUS
<1>2. IsFiniteSet(U) /\ (\A g \in U : hp.chunks[g].size \in Nat)
  BY <1>1, UsedFacts
<1>3. IsFiniteSet(V) /\ (\A g \in V : hp2.chunks[g].size \in Nat)
  BY <1>1, UsedFacts
<1>4. V = U \ {h} /\ h \in U /\ \A g \in V : hp.chunks[g].size = hp2.chunks[g].size
  <2>1. h \in U /\ h \notin V
    BY <1>1 DEF UsedIn, Freed
  <2>2. \A g \in U : g # h => g \in V /\ hp.chunks[g].size = hp2.chunks[g].size
    BY <1>1 DEF UsedIn, Freed, Kept
  <2>3. \A g \in V : g \in U
    BY <1>1 DEF UsedIn, Freed, Kept
  <2> QED  BY <2>1, <2>2, <2>3
<1>5. PICK w, v : w = hp.chunks /\ v = hp2.chunks
  OBVIOUS
<1>6. Sum(w, V) = Sum(v, V)
  BY <1>3, <1>4, <1>5, SumSame
<1>7. Sum(w, U) = w[h].size + Sum(w, U \ {h})
  BY <1>2, <1>4, <1>5, SumWithout
<1>8. Sum(v, V) \in Nat /\ w[h].size \in Nat
  BY <1>2, <1>3, <1>4, <1>5, SumFacts
<1>9. Sum(v, V) = Sum(w, U) - w[h].size
  BY <1>4, <1>6, <1>7, <1>8
<1> QED  BY <1>1, <1>5, <1>9 DEF Counted

\* The heap is the same, and so are the holdings.
LEMMA SameHeap ==
  ASSUME Inv, heap' = heap, regions' = regions, inUse' = inUse, SameHoldings(client, client')
  PROVE  \E L : Sound(heap', L, regions', {}) /\ Held(heap', L, client', inUse')
<1>1. PICK L : Sound(heap, L, regions, {}) /\ Lent(heap, L, client) /\ Counted(heap, L, inUse)
  BY DEF Inv, Held
<1>2. kInvalid \notin L /\ Kept(heap, L, heap, L, kInvalid)
  BY <1>1, NotInvalid DEF Kept
<1>3. Lent(heap, L, client')
  BY <1>1, <1>2, LentKept
<1>4. Held(heap', L, client', inUse')
  BY <1>1, <1>3 DEF Held
<1> QED  BY <1>1, <1>4


\* No two chunks have an address.
LEMMA OneChunkPerAddress ==
  ASSUME NEW hp, NEW L, NEW regs, NEW X, Sound(hp, L, regs, X), NEW g \in L, NEW h \in L,
         hp.chunks[g].ptr = hp.chunks[h].ptr
  PROVE  g = h
<1>1. hp.handles[hp.chunks[g].ptr] = g /\ hp.handles[hp.chunks[h].ptr] = h
  BY DEF Sound, Named
<1> QED  BY <1>1

\* Client c, and no other, comes to hold bytes at ptr.
Gets(cl, cl2, c, ptr, bytes) ==
  /\ cl[c].pc # "holds"
  /\ cl2[c].pc = "holds" /\ cl2[c].ptr = ptr /\ cl2[c].bytes = bytes
  /\ \A d \in Clients \ {c} : cl2[d] = cl[d]

\* A client gets the free chunk h: it is its own.
LEMMA LentHandedOut ==
  ASSUME NEW hp, NEW L, NEW hp2, NEW L2, NEW regs, NEW cl, NEW cl2, NEW c \in Clients,
         NEW h \in L, NEW bytes, Sound(hp, L, regs, {}), ~hp.chunks[h].used,
         HandedOut(hp, L, hp2, L2, h, bytes), Lent(hp, L, cl),
         Gets(cl, cl2, c, hp.chunks[h].ptr, bytes)
  PROVE  Lent(hp2, L2, cl2)
<1> USE DEF Gets
<1>1. ASSUME NEW d \in Clients, d # c, cl2[d].pc = "holds"
      PROVE  /\ cl2[d].ptr # hp.chunks[h].ptr
             /\ \E g \in L2 : /\ hp2.chunks[g].used /\ hp2.chunks[g].ptr = cl2[d].ptr
                              /\ cl2[d].bytes <= hp2.chunks[g].size
                              /\ hp2.chunks[g].size < 2 * RoundedBytes(cl2[d].bytes)
  <2>1. cl2[d] = cl[d]
    BY <1>1
  <2>2. PICK g \in L : /\ hp.chunks[g].used /\ hp.chunks[g].ptr = cl[d].ptr
                       /\ cl[d].bytes <= hp.chunks[g].size
                       /\ hp.chunks[g].size < 2 * RoundedBytes(cl[d].bytes)
    BY <1>1, <2>1 DEF Lent
  <2>3. g # h
    BY <2>2
  <2>4. /\ g \in L2 /\ hp2.chunks[g].used
        /\ hp2.chunks[g].ptr = hp.chunks[g].ptr /\ hp2.chunks[g].size = hp.chunks[g].size
    BY <2>2, <2>3 DEF HandedOut, Kept
  <2>5. hp.chunks[g].ptr # hp.chunks[h].ptr
    BY <2>3, OneChunkPerAddress
  <2> QED  BY <2>1, <2>2, <2>4, <2>5
<1>2. \E g \in L2 : /\ hp2.chunks[g].used /\ hp2.chunks[g].ptr = cl2[c].ptr
                    /\ cl2[c].bytes <= hp2.chunks[g].size
                    /\ hp2.chunks[g].size < 2 * RoundedBytes(cl2[c].bytes)
  BY DEF HandedOut
<1>3. ASSUME NEW d \in Clients, NEW e \in Clients, d # e, cl2[d].pc = "holds", cl2[e].pc = "holds"
      PROVE  cl2[d].ptr # cl2[e].ptr
  <2>1. CASE d = c
    BY <1>1, <1>3, <2>1
  <2>2. CASE e = c
    BY <1>1, <1>3, <2>2
  <2>3. CASE d # c /\ e # c
    <3>1. cl2[d] = cl[d] /\ cl2[e] = cl[e]
      BY <2>3
    <3> QED  BY <1>3, <3>1 DEF Lent
  <2> QED  BY <2>1, <2>2, <2>3
<1>4. ASSUME NEW g \in L2, hp2.chunks[g].used
      PROVE  \E d \in Clients : cl2[d].pc = "holds" /\ cl2[d].ptr = hp2.chunks[g].ptr
  <2>1. CASE g = h
    BY <2>1 DEF HandedOut
  <2>2. CASE g # h
    <3>1. g \in L /\ hp.chunks[g].used
      BY <1>4, <2>2 DEF HandedOut, Kept
    <3>2. hp2.chunks[g].ptr = hp.chunks[g].ptr
      BY <2>2, <3>1 DEF HandedOut, Kept
    <3>3. PICK d \in Clients : cl[d].pc = "holds" /\ cl[d].ptr = hp.chunks[g].ptr
      BY <3>1 DEF Lent
    <3>4. cl2[d] = cl[d]
      BY <3>3
    <3> QED  BY <3>2, <3>3, <3>4
  <2> QED  BY <2>1, <2>2
<1> QED  BY <1>1, <1>2, <1>3, <1>4 DEF Lent

\* A client gives its chunk h back.
LEMMA LentFreed ==
  ASSUME NEW hp, NEW L, NEW hp2, NEW L2, NEW regs, NEW cl, NEW cl2, NEW c \in Clients,
         NEW h \in L, Sound(hp, L, regs, {}), Freed(hp, L, hp2, L2, h), Lent(hp, L, cl),
         cl[c].pc = "holds", cl[c].ptr = hp.chunks[h].ptr, cl2[c].pc # "holds",
         \A d \in Clients \ {c} : cl2[d] = cl[d]
  PROVE  Lent(hp2, L2, cl2)
<1>1. ASSUME NEW d \in Clients, cl2[d].pc = "holds"
      PROVE  \E g \in L2 : /\ hp2.chunks[g].used /\ hp2.chunks[g].ptr = cl2[d].ptr
                           /\ cl2[d].bytes <= hp2.chunks[g].size
                           /\ hp2.chunks[g].size < 2 * RoundedBytes(cl2[d].bytes)
  <2>1. d # c /\ cl2[d] = cl[d]
    BY <1>1
  <2>2. PICK g \in L : /\ hp.chunks[g].used /\ hp.chunks[g].ptr = cl[d].ptr
                       /\ cl[d].bytes <= hp.chunks[g].size
                       /\ hp.chunks[g].size < 2 * RoundedBytes(cl[d].bytes)
    BY <1>1, <2>1 DEF Lent
  <2>3. cl[d].ptr # cl[c].ptr
    BY <1>1, <2>1 DEF Lent
  <2>4. g # h
    BY <2>2, <2>3
  <2>5. /\ g \in L2 /\ hp2.chunks[g].used
        /\ hp2.chunks[g].ptr = hp.chunks[g].ptr /\ hp2.chunks[g].size = hp.chunks[g].size
    BY <2>2, <2>4 DEF Freed, Kept
  <2> QED  BY <2>1, <2>2, <2>5
<1>2. ASSUME NEW d \in Clients, NEW e \in Clients, d # e, cl2[d].pc = "holds", cl2[e].pc = "holds"
      PROVE  cl2[d].ptr # cl2[e].ptr
  <2>1. d # c /\ e # c /\ cl2[d] = cl[d] /\ cl2[e] = cl[e]
    BY <1>2
  <2> QED  BY <1>2, <2>1 DEF Lent
<1>3. ASSUME NEW g \in L2, hp2.chunks[g].used
      PROVE  \E d \in Clients : cl2[d].pc = "holds" /\ cl2[d].ptr = hp2.chunks[g].ptr
  <2>1. g # h
    BY <1>3 DEF Freed
  <2>2. g \in L /\ hp.chunks[g].used
    BY <1>3, <2>1 DEF Freed, Kept
  <2>3. hp2.chunks[g].ptr = hp.chunks[g].ptr
    BY <2>1, <2>2 DEF Freed, Kept
  <2>4. PICK d \in Clients : cl[d].pc = "holds" /\ cl[d].ptr = hp.chunks[g].ptr
    BY <2>2 DEF Lent
  <2>5. hp.chunks[g].ptr # hp.chunks[h].ptr
    BY <2>1, <2>2, OneChunkPerAddress
  <2>6. d # c /\ cl2[d] = cl[d]
    BY <2>4, <2>5
  <2> QED  BY <2>3, <2>4, <2>6
<1> QED  BY <1>1, <1>2, <1>3 DEF Lent

\* HandOut on a heap in order leaves one in order.
LEMMA HandOutSound ==
  ASSUME NEW hp, NEW L, NEW regs, Sound(hp, L, regs, {}), Held(hp, L, client, inUse), ClientsOK,
         NEW c \in Clients, client[c].pc \in Tries,
         FittingBins(hp, RoundedBytes(client[c].bytes)) # {}, HandOut(c, hp)
  PROVE  \E L2 : Sound(heap', L2, regs, {}) /\ Held(heap', L2, client', inUse')
<1>1. PICK bytes \in Nat \ {0} : bytes = client[c].bytes
  BY SizesAssumption DEF ClientsOK, Tries, Calls
<1>2. PICK rounded \in Nat : rounded = RoundedBytes(bytes)
  BY RoundedPositive
<1>3. PICK h : h = Found(hp, rounded)
  OBVIOUS
<1>4. FittingBins(hp, rounded) # {}
  BY <1>1, <1>2
<1>5. h \in L /\ ~hp.chunks[h].used /\ rounded <= hp.chunks[h].size
  BY <1>3, <1>4, FoundFacts
<1>6. /\ heap' = Taken(hp, h, bytes) /\ inUse' = inUse + heap'.chunks[h].size
      /\ client' = [client EXCEPT ![c].pc = "holds", ![c].ptr = hp.chunks[h].ptr,
                                  ![c].deadline = "unset"]
  BY <1>1, <1>2, <1>3 DEF HandOut
<1>7. PICK L2 : /\ Sound(Taken(hp, h, bytes), L2, regs, {})
                /\ HandedOut(hp, L, Taken(hp, h, bytes), L2, h, bytes)
  BY <1>2, <1>5, TakenSound
<1>8. PICK cl2 : cl2 = client'
  OBVIOUS
<1>9. /\ client[c].pc # "holds"
      /\ cl2[c].pc = "holds" /\ cl2[c].ptr = hp.chunks[h].ptr /\ cl2[c].bytes = bytes
      /\ \A d \in Clients \ {c} : cl2[d] = client[d]
  BY <1>1, <1>6, <1>8 DEF ClientsOK, Tries
<1>10. PICK hp2 : hp2 = Taken(hp, h, bytes)
  OBVIOUS
<1>11. HandedOut(hp, L, hp2, L2, h, bytes)
  BY <1>7, <1>10
<1>12. Gets(client, cl2, c, hp.chunks[h].ptr, bytes)
  BY <1>9 DEF Gets
<1>13. Lent(hp2, L2, cl2)
  BY <1>5, <1>11, <1>12, LentHandedOut DEF Held
<1>14. Counted(hp2, L2, inUse + hp2.chunks[h].size)
  <2>1. PICK use : use = inUse
    OBVIOUS
  <2>2. Counted(hp, L, use)
    BY <2>1 DEF Held
  <2>3. Sound(hp2, L2, regs, {})
    BY <1>7, <1>10
  <2>4. Counted(hp2, L2, use + hp2.chunks[h].size)
    BY <1>5, <1>11, <2>2, <2>3, CountedHandedOut
  <2> QED  BY <2>1, <2>4
<1>15. Held(heap', L2, client', inUse')
  BY <1>6, <1>8, <1>10, <1>13, <1>14 DEF Held
<1> QED  BY <1>6, <1>7, <1>15

\* The heap and the clients after DeallocateRaw.
LEMMA DeallocateSound ==
  ASSUME Inv, NEW c \in Clients, DeallocateRaw(c)
  PROVE  \E L2 : Sound(heap', L2, regions', {}) /\ Held(heap', L2, client', inUse')
<1>1. PICK L : Sound(heap, L, regions, {}) /\ Lent(heap, L, client) /\ Counted(heap, L, inUse)
  BY DEF Inv, Held
<1>2. client[c].pc = "holds"
  BY DEF DeallocateRaw
<1>3. PICK h \in L : heap.chunks[h].used /\ heap.chunks[h].ptr = client[c].ptr
  BY <1>1, <1>2 DEF Lent
<1>4. heap.handles[client[c].ptr] = h
  BY <1>1, <1>3 DEF Sound, Named
<1>5. /\ heap' = FreeAndMaybeCoalesce(heap, h) /\ regions' = regions
      /\ inUse' = inUse - heap.chunks[h].size
  BY <1>4 DEF DeallocateRaw
<1>6. PICK L2 : /\ Sound(FreeAndMaybeCoalesce(heap, h), L2, regions, {})
                /\ Freed(heap, L, FreeAndMaybeCoalesce(heap, h), L2, h)
  BY <1>1, <1>3, CoalesceSound
<1>7. PICK cl2 : cl2 = client'
  OBVIOUS
<1>8. cl2[c].pc # "holds" /\ \A d \in Clients \ {c} : cl2[d] = client[d]
  BY <1>7 DEF DeallocateRaw, Inv, Rest, ClientsOK, IdleClient
<1>9. PICK hp2 : hp2 = FreeAndMaybeCoalesce(heap, h)
  OBVIOUS
<1>10. Freed(heap, L, hp2, L2, h)
  BY <1>6, <1>9
<1>11. Lent(hp2, L2, cl2)
  BY <1>1, <1>2, <1>3, <1>8, <1>10, LentFreed, ZenonT(30)
<1>12. Counted(hp2, L2, inUse - heap.chunks[h].size)
  <2>1. Sound(hp2, L2, regions, {})
    BY <1>6, <1>9
  <2> QED  BY <1>1, <1>3, <1>10, <2>1, CountedFreed
<1>13. Held(heap', L2, client', inUse')
  BY <1>5, <1>7, <1>9, <1>11, <1>12 DEF Held
<1> QED  BY <1>5, <1>6, <1>13


-----------------------------------------------------------------------------
(* The clients and Extend                                                  *)

\* A client that is refused the memory it asked for holds nothing.
LEMMA RefusedClients ==
  ASSUME ClientsOK, NEW c \in Clients, client[c].pc \in Tries, Refused(c)
  PROVE  ClientsOK' /\ SameHoldings(client, client')
<1> DEFINE r == IF client[c].pc \in {"once", "final"} THEN IdleClient
                ELSE [client[c] EXCEPT !.pc = IF client[c].pc = "fast" THEN "retry" ELSE "failed"]
<1>2. client' = [client EXCEPT ![c] = r]
  BY DEF Refused
<1>3. /\ r \in [pc : Calls \cup {"idle", "holds", "notify"}, bytes : RequestSizes \cup {0},
                ptr : Nat, deadline : {"unset", "ahead", "passed"}]
      /\ r.pc # "holds" /\ client[c].pc # "holds"
      /\ r.pc \in Calls \cup {"holds"} => r.bytes \in RequestSizes
  BY DEF ClientsOK, Calls, Tries, IdleClient
<1> HIDE DEF r
<1>4. ClientsOK'
  BY <1>2, <1>3 DEF ClientsOK
<1>5. SameHoldings(client, client')
  BY <1>2, <1>3 DEF ClientsOK, SameHoldings
<1> QED  BY <1>4, <1>5

\* The client that is handed a chunk holds its address.
LEMMA HandOutClients ==
  ASSUME NEW hp, NEW L, NEW regs, Sound(hp, L, regs, {}), ClientsOK,
         NEW c \in Clients, client[c].pc \in Tries,
         FittingBins(hp, RoundedBytes(client[c].bytes)) # {}, HandOut(c, hp)
  PROVE  ClientsOK'
<1>1. PICK rounded \in Nat : rounded = RoundedBytes(client[c].bytes)
  BY RoundedPositive, SizesAssumption DEF ClientsOK, Tries, Calls
<1>2. PICK h : h = Found(hp, rounded)
  OBVIOUS
<1>3. h \in L
  BY <1>1, <1>2, FoundFacts
<1>4. PICK ptr \in Nat : ptr = hp.chunks[h].ptr
  BY <1>3, CellFacts DEF Cell
<1>5. client' = [client EXCEPT ![c].pc = "holds", ![c].ptr = ptr, ![c].deadline = "unset"]
  BY <1>1, <1>2, <1>4 DEF HandOut
<1>6. PICK r : r = [client[c] EXCEPT !.pc = "holds", !.ptr = ptr, !.deadline = "unset"]
  OBVIOUS
<1>7. client' = [client EXCEPT ![c] = r]
  BY <1>5, <1>6 DEF ClientsOK
<1>8. /\ r \in [pc : Calls \cup {"idle", "holds", "notify"}, bytes : RequestSizes \cup {0},
                ptr : Nat, deadline : {"unset", "ahead", "passed"}]
      /\ r.bytes \in RequestSizes
  BY <1>6 DEF ClientsOK, Tries, Calls
<1> QED  BY <1>7, <1>8 DEF ClientsOK

\* A new region of bytes in memory of alloc bytes; if alloc is larger then the loop of
\* Extend was entered.
LEMMA ExtendedSound ==
  ASSUME Inv, NEW c \in Clients, client[c].pc \in Tries, NEW alloc \in Nat,
         NEW bytes \in Nat \ {0}, bytes \in Multiples, bytes <= alloc, region.total + bytes <= MemoryLimit,
         NEW next \in Nat \ {0}, next \in Multiples, NEW backpedal \in BOOLEAN,
         ~backpedal => ~region.backpedal /\ alloc = bytes,
         HasMemory(alloc), Extended(c, alloc, bytes, next, backpedal), device' = device,
         extend' = NoExtend
  PROVE  Inv'
<1>1. ClientsOK /\ RegionsOK /\ LimitOK /\ device \in Nat
  BY SizesAssumption DEF Inv, Rest, RegionsOK
<1>2. PICK mem \in Nat : mem = NextAddress
  BY <1>1, AddressFacts
<1>3. /\ mem = Last(granted)
      /\ \A g \in granted : g \in [ptr : Nat, size : Nat] /\ g.ptr + g.size <= mem
  BY <1>1, <1>2, AddressFacts DEF RegionsOK
<1>4. mem + alloc <= device
  BY <1>2 DEF HasMemory
<1>5. PICK q, r, added : /\ q = [ptr |-> mem, size |-> alloc] /\ r = [ptr |-> mem, size |-> bytes]
                         /\ added = AddRegion(heap, mem, bytes)
  OBVIOUS
<1>6. /\ granted' = granted \cup {q} /\ regions' = regions \cup {r}
      /\ region' = [next |-> next, total |-> region.total + bytes, backpedal |-> backpedal]
      /\ \/ FittingBins(added, Wanted(c)) # {} /\ HandOut(c, added)
         \/ heap' = added /\ Refused(c) /\ inUse' = inUse
  BY <1>2, <1>5 DEF Extended
<1>7. RegionsOK'
  <2>1. /\ q \in [ptr : Nat, size : Nat] /\ q.ptr + q.size <= device
        /\ r \in [ptr : Nat, size : Nat \ {0}] /\ r.size \in Multiples
        /\ q.ptr = r.ptr /\ r.size <= q.size
    BY <1>4, <1>5
  <2>2. device' \in DeviceMemory
    BY <1>1 DEF RegionsOK
  <2>3. \A g \in granted' : g \in [ptr : Nat, size : Nat] /\ g.ptr + g.size <= device'
    BY <1>1, <1>6, <2>1 DEF RegionsOK
  <2>4. \A s \in regions' : /\ s \in [ptr : Nat, size : Nat \ {0}] /\ s.size \in Multiples
                            /\ \E g \in granted' : g.ptr = s.ptr /\ s.size <= g.size
    BY <1>1, <1>6, <2>1 DEF RegionsOK
  <2> QED  BY <2>2, <2>3, <2>4 DEF RegionsOK
<1>8. LimitOK'
  <2>1. PICK total \in Nat : total = region.total
    BY <1>1 DEF LimitOK
  <2>2. region' \in [next : Nat \ {0}, total : Nat, backpedal : BOOLEAN]
    BY <1>6, <2>1
  <2>3. region'.next \in Multiples /\ region'.total <= MemoryLimit
    BY <1>6
  <2>4. ASSUME ~region'.backpedal
        PROVE  NextAddress' = region'.total
    <3>1. ~backpedal
      BY <1>6, <2>4
    <3>2. mem = total /\ alloc = bytes
      BY <1>1, <1>2, <2>1, <3>1 DEF LimitOK
    <3>3. PICK G : G = granted \cup {q}
      OBVIOUS
    <3>4. PICK top \in Nat : top = mem + alloc
      OBVIOUS
    <3>5. \A g \in granted : g.ptr + g.size <= top
      BY <1>3, <3>4
    <3>6. q \in [ptr : Nat, size : Nat] /\ q.ptr + q.size = top
      BY <1>5, <3>4
    <3>7. \A g \in G : g \in [ptr : Nat, size : Nat] /\ g.ptr + g.size <= top
      BY <1>3, <3>3, <3>5, <3>6
    <3>8. Last(G) \in Nat /\ Last(G) <= top /\ top <= Last(G)
      BY <3>3, <3>6, <3>7, LastFacts
    <3>9. Last(G) = top
      BY <3>4, <3>8
    <3>10. NextAddress' = Last(G)
      BY <1>6, <3>3 DEF NextAddress, Last
    <3> QED  BY <1>6, <2>1, <3>2, <3>4, <3>9, <3>10
  <2> QED  BY <2>2, <2>3, <2>4 DEF LimitOK
<1>9. PICK L : Sound(heap, L, regions, {}) /\ Lent(heap, L, client) /\ Counted(heap, L, inUse)
  BY DEF Inv, Held
<1>10. PICK L1 : Sound(added, L1, regions', {}) /\ Kept(heap, L, added, L1, kInvalid)
  <2>1. ASSUME NEW s \in regions
        PROVE  s.ptr + s.size <= mem
    <3>1. PICK g \in granted : g.ptr = s.ptr /\ s.size <= g.size
      BY <1>1 DEF RegionsOK
    <3>2. s \in [ptr : Nat, size : Nat \ {0}] /\ g \in [ptr : Nat, size : Nat] /\ g.ptr + g.size <= mem
      BY <1>1, <1>3 DEF RegionsOK
    <3> QED  BY <3>1, <3>2
  <2>2. \E L1 : /\ Sound(AddRegion(heap, mem, bytes), L1, regions \cup {[ptr |-> mem, size |-> bytes]}, {})
                /\ Kept(heap, L, AddRegion(heap, mem, bytes), L1, kInvalid)
    BY <1>9, <2>1, RegionSound
  <2> QED  BY <1>5, <1>6, <2>2
<1>11. kInvalid \notin L \cup L1 /\ Counted(added, L1, inUse)
  <2>1. kInvalid \notin L \cup L1
    BY <1>9, <1>10, NotInvalid
  <2> QED  BY <1>9, <1>10, <2>1, CountedKept
<1>12. CASE FittingBins(added, Wanted(c)) # {} /\ HandOut(c, added)
  <2>1. SameHoldings(client, client)
    BY DEF SameHoldings
  <2>2. Held(added, L1, client, inUse)
    BY <1>9, <1>10, <1>11, <2>1, LentKept DEF Held
  <2>3. FittingBins(added, RoundedBytes(client[c].bytes)) # {}
    BY <1>12 DEF Wanted
  <2>4. PICK regs : regs = regions'
    OBVIOUS
  <2>5. Sound(added, L1, regs, {})
    BY <1>10, <2>4
  <2>6. \E L2 : Sound(heap', L2, regs, {}) /\ Held(heap', L2, client', inUse')
    BY <1>1, <1>12, <2>2, <2>3, <2>5, HandOutSound
  <2>7. ClientsOK'
    BY <1>1, <1>12, <2>3, <2>5, HandOutClients
  <2> QED  BY <1>7, <1>8, <2>4, <2>6, <2>7 DEF Inv, Rest, ExtendOK
<1>13. CASE heap' = added /\ Refused(c) /\ inUse' = inUse
  <2>1. ClientsOK' /\ SameHoldings(client, client')
    BY <1>1, <1>13, RefusedClients
  <2>2. Lent(added, L1, client')
    BY <1>9, <1>10, <1>11, <2>1, LentKept
  <2>3. Held(heap', L1, client', inUse')
    BY <1>11, <1>13, <2>2 DEF Held
  <2> QED  BY <1>7, <1>8, <1>10, <1>13, <2>1, <2>3 DEF Inv, Rest, ExtendOK
<1> QED  BY <1>6, <1>12, <1>13


\* A step of one client that leaves what it holds, if it holds anything.
LEMMA OneClient ==
  ASSUME ClientsOK, NEW c \in Clients, NEW r, client' = [client EXCEPT ![c] = r],
         r \in [pc : Calls \cup {"idle", "holds", "notify"}, bytes : RequestSizes \cup {0},
                ptr : Nat, deadline : {"unset", "ahead", "passed"}],
         r.pc \in Calls \cup {"holds"} => r.bytes \in RequestSizes,
         r.pc = "holds" <=> client[c].pc = "holds",
         r.pc = "holds" => r.ptr = client[c].ptr /\ r.bytes = client[c].bytes,
         client[c].pc \in Tries => r.pc \in Tries
  PROVE  /\ ClientsOK' /\ SameHoldings(client, client')
         /\ \A d \in Clients : client[d].pc \in Tries => client'[d].pc \in Tries
<1>1. ClientsOK'
  BY DEF ClientsOK
<1>2. SameHoldings(client, client')
  BY DEF ClientsOK, SameHoldings
<1>3. \A d \in Clients : client[d].pc \in Tries => client'[d].pc \in Tries
  BY DEF ClientsOK
<1> QED  BY <1>1, <1>2, <1>3

\* Only clients move, and none that is in the loop of Extend.
LEMMA ClientsMove ==
  ASSUME Inv, UNCHANGED <<heap, regions, region, inUse, device, granted>>, ClientsOK',
         SameHoldings(client, client'),
         \/ extend' = NoExtend
         \/ /\ extend' = extend
            /\ \A d \in Clients : client[d].pc \in Tries => client'[d].pc \in Tries
  PROVE  Inv'
<1>1. \E L : Sound(heap', L, regions', {}) /\ Held(heap', L, client', inUse')
  BY SameHeap
<1>2. RegionsOK' /\ LimitOK'
  BY DEF Inv, Rest, RegionsOK, LimitOK, NextAddress
<1>3. ExtendOK'
  BY DEF Inv, Rest, ExtendOK, Available
<1> QED  BY <1>1, <1>2, <1>3 DEF Inv, Rest

\* The actions, one by one.  AllocateRaw asks, and holds nothing yet.
LEMMA AllocateRawKeeps ==
  ASSUME Inv, NEW c \in Clients, AllocateRaw(c)
  PROVE  Inv'
<1>1. PICK bytes \in RequestSizes :
        client' = [client EXCEPT ![c] =
          [IdleClient EXCEPT !.pc = IF c \in NoRetry THEN "once" ELSE "fast", !.bytes = bytes]]
  BY DEF AllocateRaw
<1>2. PICK r : r = [IdleClient EXCEPT !.pc = IF c \in NoRetry THEN "once" ELSE "fast", !.bytes = bytes]
  OBVIOUS
<1>3. client' = [client EXCEPT ![c] = r]
  BY <1>1, <1>2
<1>4. /\ r \in [pc : Calls \cup {"idle", "holds", "notify"}, bytes : RequestSizes \cup {0},
                ptr : Nat, deadline : {"unset", "ahead", "passed"}]
      /\ r.pc \in Tries /\ r.pc # "holds" /\ r.bytes \in RequestSizes
  BY <1>2 DEF IdleClient, Calls, Tries
<1>5. client[c].pc # "holds" /\ ClientsOK
  BY DEF AllocateRaw, Inv, Rest
<1>6. /\ ClientsOK' /\ SameHoldings(client, client')
      /\ \A d \in Clients : client[d].pc \in Tries => client'[d].pc \in Tries
  BY <1>3, <1>4, <1>5, OneClient
<1> QED  BY <1>6, ClientsMove DEF AllocateRaw

\* The chunk is freed and its client holds nothing.
LEMMA DeallocateRawKeeps ==
  ASSUME Inv, NEW c \in Clients, DeallocateRaw(c)
  PROVE  Inv'
<1>1. \E L2 : Sound(heap', L2, regions', {}) /\ Held(heap', L2, client', inUse')
  BY DeallocateSound
<1>2. RegionsOK' /\ LimitOK' /\ ExtendOK'
  BY DEF DeallocateRaw, LockFree, Inv, Rest, RegionsOK, LimitOK, NextAddress, ExtendOK
<1>3. PICK r : r = [IdleClient EXCEPT !.pc = "notify"]
  OBVIOUS
<1>4. client' = [client EXCEPT ![c] = r]
  BY <1>3 DEF DeallocateRaw
<1>5. /\ r \in [pc : Calls \cup {"idle", "holds", "notify"}, bytes : RequestSizes \cup {0},
                ptr : Nat, deadline : {"unset", "ahead", "passed"}]
      /\ r.pc \notin Calls \cup {"holds"}
  BY <1>3 DEF IdleClient, Calls
<1>6. ClientsOK'
  BY <1>4, <1>5 DEF Inv, Rest, ClientsOK
<1> QED  BY <1>1, <1>2, <1>6 DEF Inv, Rest

\* A chunk that fits is handed out.
LEMMA FindChunkPtrKeeps ==
  ASSUME Inv, NEW c \in Clients, FindChunkPtr(c)
  PROVE  Inv'
<1>1. PICK L : Sound(heap, L, regions, {}) /\ Held(heap, L, client, inUse)
  BY DEF Inv
<1>2. /\ client[c].pc \in Tries /\ FittingBins(heap, RoundedBytes(client[c].bytes)) # {}
      /\ HandOut(c, heap) /\ extend' = NoExtend /\ ClientsOK
      /\ UNCHANGED <<regions, region, device, granted>>
  BY DEF FindChunkPtr, Trying, Tries, LockFree, Inv, Rest
<1>3. \E L2 : Sound(heap', L2, regions, {}) /\ Held(heap', L2, client', inUse')
  BY <1>1, <1>2, HandOutSound
<1>4. ClientsOK'
  BY <1>1, <1>2, HandOutClients
<1>5. RegionsOK' /\ LimitOK' /\ ExtendOK'
  BY <1>2 DEF Inv, Rest, RegionsOK, LimitOK, NextAddress, ExtendOK
<1> QED  BY <1>2, <1>3, <1>4, <1>5 DEF Inv, Rest

\* The limit allows no region that is large enough.
LEMMA ExtendTooLargeKeeps ==
  ASSUME Inv, NEW c \in Clients, ExtendTooLarge(c)
  PROVE  Inv'
<1>1. client[c].pc \in Tries /\ Refused(c) /\ ClientsOK /\ extend' = NoExtend
  BY DEF ExtendTooLarge, MustExtend, Trying, Tries, LockFree, Inv, Rest
<1>2. ClientsOK' /\ SameHoldings(client, client')
  BY <1>1, RefusedClients
<1> QED  BY <1>1, <1>2, ClientsMove DEF ExtendTooLarge

\* The size of the region that Extend asks for.
LEMMA SizeFacts ==
  ASSUME Inv, NEW c \in Clients, client[c].pc \in Tries
  PROVE  /\ Wanted(c) \in Nat \ {0}
         /\ Grown(region.next, Wanted(c)) \in Nat \ {0}
         /\ Grown(region.next, Wanted(c)) \in Multiples
         /\ Wanted(c) <= Available =>
              /\ Min({Grown(region.next, Wanted(c)), Available}) \in Nat \ {0}
              /\ Min({Grown(region.next, Wanted(c)), Available}) \in Multiples
              /\ Min({Grown(region.next, Wanted(c)), Available}) <= Available
<1>1. Wanted(c) \in Nat \ {0}
  <2>1. PICK bytes \in Nat \ {0} : bytes = client[c].bytes
    BY SizesAssumption DEF Inv, Rest, ClientsOK, Tries, Calls
  <2> QED  BY <2>1, RoundedPositive DEF Wanted
<1>2. PICK size \in Nat \ {0} : size = region.next /\ size \in Multiples
  BY DEF Inv, Rest, LimitOK
<1>3. PICK wanted \in Nat \ {0} : wanted = Wanted(c)
  BY <1>1
<1>4. PICK grown \in Nat \ {0} : /\ grown = Grown(region.next, Wanted(c)) /\ grown >= wanted
                               /\ grown \in Multiples
  <2>1. /\ Grown(size, wanted) \in Nat \ {0} /\ Grown(size, wanted) >= wanted
        /\ Grown(size, wanted) \in Multiples
    BY <1>2, GrownFacts
  <2> QED  BY <1>2, <1>3, <2>1
<1>5. PICK available \in Nat : available = Available /\ available \in Multiples
  BY AvailableFacts DEF Inv, Rest, Multiples
<1>6. ASSUME wanted <= available
      PROVE  /\ Min({grown, available}) \in Nat \ {0} /\ Min({grown, available}) \in Multiples
             /\ Min({grown, available}) <= available
  <2>1. PICK S : S = {grown, available}
    OBVIOUS
  <2>2. S \subseteq Nat /\ S # {} /\ available \in S /\ \A s \in S : s >= wanted /\ s \in Multiples
    BY <1>4, <1>5, <1>6, <2>1
  <2>3. Min(S) \in S /\ Min(S) <= available
    BY <2>2, MinFacts
  <2> QED  BY <2>1, <2>2, <2>3
<1> QED  BY <1>1, <1>3, <1>4, <1>5, <1>6

\* A region of the size that was asked for: NextAddress is the sum of the regions still.
LEMMA ExtendKeeps ==
  ASSUME Inv, NEW c \in Clients, Extend(c)
  PROVE  Inv'
<1>1. client[c].pc \in Tries /\ Wanted(c) <= Available /\ extend' = NoExtend /\ device' = device
  BY DEF Extend, MustExtend, Trying, Tries, LockFree
<1>2. PICK grown \in Nat \ {0} : grown = Grown(region.next, Wanted(c)) /\ grown \in Multiples
  BY <1>1, SizeFacts
<1>3. PICK bytes \in Nat \ {0} : /\ bytes = Min({grown, Available}) /\ bytes \in Multiples
                               /\ bytes <= Available
  BY <1>1, <1>2, SizeFacts
<1>4. PICK total \in Nat, available \in Nat :
        total = region.total /\ available = Available /\ total + available <= MemoryLimit
  BY AvailableFacts DEF Inv, Rest
<1>5. region.total + bytes <= MemoryLimit
  BY <1>3, <1>4, SizesAssumption
<1>6. PICK next \in Nat \ {0} : next = NextRegion(grown) /\ next \in Multiples
  <2>1. PICK size \in Nat \ {0} : size = region.next /\ size \in Multiples
    BY DEF Inv, Rest, LimitOK
  <2>2. 2 * size \in Nat \ {0} /\ 2 * size = size * 2 /\ size * 2 \in Multiples
    BY <2>1, MultiplesTimes
  <2> QED  BY <1>2, <2>1, <2>2 DEF NextRegion
<1>7. PICK backpedal \in BOOLEAN : backpedal = region.backpedal
  BY DEF Inv, Rest, LimitOK
<1>8. HasMemory(bytes) /\ Extended(c, bytes, bytes, next, backpedal)
  BY <1>2, <1>3, <1>6, <1>7 DEF Extend
<1>9. ~backpedal => ~region.backpedal /\ bytes = bytes
  BY <1>7
<1>10. bytes <= bytes /\ bytes \in Nat
  OBVIOUS
<1> QED  BY <1>1, <1>3, <1>5, <1>6, <1>8, <1>9, <1>10, ExtendedSound

\* The device has no region, the next size has grown all the same.
LEMMA ExtendRefusedKeeps ==
  ASSUME Inv, NEW c \in Clients, ExtendRefused(c)
  PROVE  Inv'
<1>1. /\ client[c].pc \in Tries /\ Refused(c) /\ ClientsOK /\ extend' = NoExtend
      /\ UNCHANGED <<heap, regions, inUse, device, granted>>
  BY DEF ExtendRefused, MustExtend, Trying, Tries, LockFree, Inv, Rest
<1>2. PICK grown \in (Nat \ {0}) \cap Multiples : region' = [region EXCEPT !.next = grown]
  BY <1>1, SizeFacts DEF ExtendRefused
<1>3. ClientsOK' /\ SameHoldings(client, client')
  BY <1>1, RefusedClients
<1>4. \E L : Sound(heap', L, regions', {}) /\ Held(heap', L, client', inUse')
  BY <1>1, <1>3, SameHeap
<1>5. RegionsOK' /\ ExtendOK'
  BY <1>1 DEF Inv, Rest, RegionsOK, ExtendOK
<1>6. LimitOK'
  BY <1>1, <1>2 DEF Inv, Rest, LimitOK, NextAddress
<1> QED  BY <1>3, <1>4, <1>5, <1>6 DEF Inv, Rest

\* The loop reduces the size to a multiple of the smallest size, and not to nothing.
LEMMA BackpedalFacts ==
  ASSUME NEW n \in Nat
  PROVE  /\ Backpedal(n) \in Nat /\ Backpedal(n) % MinAllocationSize = 0
         /\ \A k \in Nat : n <= k /\ k % MinAllocationSize = 0 => Backpedal(n) <= k
         /\ n > 1 => Backpedal(n) > 0
<1>1. PICK m \in Nat : m = (9 * n) \div 10 /\ m <= n /\ (n > 1 => m > 0)
  OBVIOUS
<1>2. Backpedal(n) = RoundedBytes(m)
  BY <1>1 DEF Backpedal
<1>3. \A k \in Nat : n <= k => m <= k
  BY <1>1
<1>4. RoundedBytes(m) \in Nat /\ m <= RoundedBytes(m) /\ RoundedBytes(m) % MinAllocationSize = 0
  BY RoundedFacts
<1>5. \A k \in Nat : n <= k /\ k % MinAllocationSize = 0 => RoundedBytes(m) <= k
  BY <1>3, RoundedBelow
<1> QED  BY <1>1, <1>2, <1>4, <1>5

\* The loop begins, with a size that the limit allows.
LEMMA StartBackpedalKeeps ==
  ASSUME Inv, NEW c \in Clients, StartBackpedal(c)
  PROVE  Inv'
<1>1. /\ client[c].pc \in Tries /\ Wanted(c) <= Available
      /\ UNCHANGED <<heap, regions, inUse, client, device, granted>>
  BY DEF StartBackpedal, MustExtend, Trying, Tries
<1>2. PICK grown \in Nat \ {0} : grown = Grown(region.next, Wanted(c)) /\ grown \in Multiples
  BY <1>1, SizeFacts
<1>3. PICK bytes \in Nat \ {0} : bytes = Min({grown, Available}) /\ bytes <= Available
  BY <1>1, <1>2, SizeFacts
<1>4. /\ region' = [region EXCEPT !.next = grown, !.backpedal = TRUE]
      /\ extend' = [by |-> c, bytes |-> Backpedal(bytes), grew |-> grown > region.next]
  BY <1>2, <1>3 DEF StartBackpedal
<1>5. /\ region' \in [next : Nat \ {0}, total : Nat, backpedal : BOOLEAN]
      /\ region'.total = region.total /\ region'.backpedal /\ region'.next \in Multiples
  BY <1>2, <1>4 DEF Inv, Rest, LimitOK
<1>6. PICK available \in Nat : available = Available /\ available % MinAllocationSize = 0
  BY AvailableFacts DEF Inv, Rest
<1>7. PICK less \in Nat : less = Backpedal(bytes) /\ less % MinAllocationSize = 0 /\ less <= available
  BY <1>3, <1>6, BackpedalFacts
<1>8. \E L : Sound(heap', L, regions', {}) /\ Held(heap', L, client', inUse')
  BY <1>1 DEF Inv
<1>9. ClientsOK' /\ RegionsOK'
  BY <1>1 DEF Inv, Rest, ClientsOK, RegionsOK
<1>10. LimitOK'
  BY <1>5 DEF Inv, Rest, LimitOK
<1>11. Available' = Available
  BY <1>5 DEF Available
<1>12. ExtendOK'
  <2>1. (grown > region.next) \in BOOLEAN
    OBVIOUS
  <2>2. extend' \in [by : Clients, bytes : Nat, grew : BOOLEAN] /\ extend'.by = c /\ extend'.bytes = less
    BY <1>4, <1>7, <2>1
  <2>3. client'[extend'.by].pc \in Tries
    BY <1>1, <2>2
  <2> QED  BY <1>5, <1>6, <1>7, <1>11, <2>2, <2>3 DEF ExtendOK
<1> QED  BY <1>8, <1>9, <1>10, <1>12 DEF Inv, Rest

\* The client of the loop.
LEMMA LoopFacts ==
  ASSUME Inv, NEW c \in Clients, extend.by = c
  PROVE  /\ extend \in [by : Clients, bytes : Nat, grew : BOOLEAN]
         /\ client[c].pc \in Tries /\ region.backpedal
         /\ extend.bytes % MinAllocationSize = 0 /\ extend.bytes <= Available
<1>1. extend # NoExtend
  BY ClientsAssumption DEF NoExtend
<1> QED  BY <1>1 DEF Inv, Rest, ExtendOK

\* The loop ends with a region, of which less is recorded than was granted.
LEMMA BackpedalGrantedKeeps ==
  ASSUME Inv, NEW c \in Clients, BackpedalGranted(c)
  PROVE  Inv'
<1>1. /\ extend.by = c /\ extend.bytes > Wanted(c) /\ HasMemory(extend.bytes)
      /\ extend' = NoExtend /\ device' = device
  BY DEF BackpedalGranted
<1>2. client[c].pc \in Tries
  BY <1>1, LoopFacts
<1>3. PICK alloc \in Nat : /\ alloc = extend.bytes /\ alloc % MinAllocationSize = 0
                           /\ alloc <= Available
  BY <1>1, LoopFacts
<1>4. alloc > 1
  <2>1. PICK wanted \in Nat \ {0} : wanted = Wanted(c)
    BY <1>2, SizeFacts
  <2> QED  BY <1>1, <1>3, <2>1
<1>5. PICK bytes \in Nat \ {0} : /\ bytes = Backpedal(alloc) /\ bytes <= alloc
                               /\ bytes \in Multiples
  BY <1>3, <1>4, BackpedalFacts DEF Multiples
<1>6. PICK total \in Nat, available \in Nat :
        total = region.total /\ available = Available /\ total + available <= MemoryLimit
  BY AvailableFacts DEF Inv, Rest
<1>7. region.total + bytes <= MemoryLimit
  BY <1>3, <1>5, <1>6, SizesAssumption
<1>8. PICK next \in Nat \ {0} : /\ next = IF extend.grew THEN region.next ELSE 2 * region.next
                               /\ next \in Multiples
  <2>1. PICK size \in Nat \ {0} : size = region.next /\ size \in Multiples
    BY DEF Inv, Rest, LimitOK
  <2>2. 2 * size \in Nat \ {0} /\ 2 * size = size * 2 /\ size * 2 \in Multiples
    BY <2>1, MultiplesTimes
  <2> QED  BY <2>1, <2>2
<1>9. PICK backpedal \in BOOLEAN : backpedal = TRUE
  OBVIOUS
<1>10. Extended(c, alloc, bytes, next, backpedal)
  BY <1>3, <1>5, <1>8, <1>9 DEF BackpedalGranted
<1>11. HasMemory(alloc) /\ (~backpedal => ~region.backpedal /\ alloc = bytes)
  BY <1>1, <1>3, <1>9
<1> QED  BY <1>1, <1>2, <1>5, <1>7, <1>8, <1>10, <1>11, ExtendedSound

\* The loop goes on with a smaller size.
LEMMA BackpedalRefusedKeeps ==
  ASSUME Inv, NEW c \in Clients, BackpedalRefused(c)
  PROVE  Inv'
<1>1. extend.by = c /\ UNCHANGED <<heap, regions, region, inUse, client, device, granted>>
  BY DEF BackpedalRefused
<1>2. /\ extend \in [by : Clients, bytes : Nat, grew : BOOLEAN]
      /\ client[c].pc \in Tries /\ region.backpedal
  BY <1>1, LoopFacts
<1>3. PICK bytes \in Nat : bytes = extend.bytes /\ bytes <= Available
  BY <1>1, LoopFacts
<1>4. PICK available \in Nat : available = Available /\ available % MinAllocationSize = 0
  BY AvailableFacts DEF Inv, Rest
<1>5. PICK less \in Nat : less = Backpedal(bytes) /\ less % MinAllocationSize = 0 /\ less <= available
  BY <1>3, <1>4, BackpedalFacts
<1>6. extend' = [extend EXCEPT !.bytes = less]
  BY <1>3, <1>5 DEF BackpedalRefused
<1>7. /\ extend' \in [by : Clients, bytes : Nat, grew : BOOLEAN]
      /\ extend'.by = c /\ extend'.bytes = less
  BY <1>1, <1>2, <1>6
<1>8. Available' = Available
  BY <1>1 DEF Available
<1>9. client'[extend'.by].pc \in Tries /\ region'.backpedal
  BY <1>1, <1>2, <1>7
<1>10. ExtendOK'
  BY <1>4, <1>5, <1>7, <1>8, <1>9 DEF ExtendOK
<1>11. ClientsOK' /\ RegionsOK' /\ LimitOK'
  BY <1>1 DEF Inv, Rest, ClientsOK, RegionsOK, LimitOK, NextAddress
<1>12. \E L : Sound(heap', L, regions', {}) /\ Held(heap', L, client', inUse')
  BY <1>1 DEF Inv
<1> QED  BY <1>10, <1>11, <1>12 DEF Inv, Rest

\* The loop ends without a region.
LEMMA BackpedalEndsKeeps ==
  ASSUME Inv, NEW c \in Clients, BackpedalEnds(c)
  PROVE  Inv'
<1>1. extend.by = c /\ extend' = NoExtend /\ Refused(c) /\ ClientsOK
  BY DEF BackpedalEnds, Inv, Rest
<1>2. client[c].pc \in Tries
  BY <1>1, LoopFacts
<1>3. ClientsOK' /\ SameHoldings(client, client')
  BY <1>1, <1>2, RefusedClients
<1> QED  BY <1>1, <1>3, ClientsMove DEF BackpedalEnds


\* Waiting, the deadline and the last try change nothing that is held.
LEMMA WaitsKeep ==
  ASSUME Inv, NEW c \in Clients, WaitForMemory(c) \/ LastTry(c) \/ DeadlinePasses(c)
  PROVE  Inv'
<1>1. /\ ClientsOK /\ client \in [Clients -> [pc : Calls \cup {"idle", "holds", "notify"},
                                              bytes : RequestSizes \cup {0}, ptr : Nat,
                                              deadline : {"unset", "ahead", "passed"}]]
      /\ client[c].pc \in Calls \cup {"holds"} => client[c].bytes \in RequestSizes
  BY DEF Inv, Rest, ClientsOK
<1>2. /\ extend' = extend /\ UNCHANGED <<heap, regions, region, inUse, device, granted>>
  BY DEF WaitForMemory, LastTry, DeadlinePasses
<1>3. PICK pc \in Calls \cup {"idle", "holds", "notify"}, deadline \in {"unset", "ahead", "passed"} :
        /\ client' = [client EXCEPT ![c].pc = pc, ![c].deadline = deadline]
        /\ \/ client[c].pc = "failed" /\ pc \in {"waiting", "final"}
           \/ client[c].pc = "waiting" /\ pc = "retry"
           \/ pc = client[c].pc
  <2>1. CASE WaitForMemory(c)
    BY <2>1 DEF WaitForMemory, Calls
  <2>2. CASE LastTry(c)
    BY <1>1, <2>2 DEF LastTry, Calls
  <2>3. CASE DeadlinePasses(c)
    <3>1. PICK pc : pc = IF client[c].pc = "waiting" THEN "retry" ELSE client[c].pc
      OBVIOUS
    <3>2. client' = [client EXCEPT ![c].pc = pc, ![c].deadline = "passed"]
      BY <1>1, <2>3, <3>1 DEF DeadlinePasses
    <3>3. pc \in Calls \cup {"idle", "holds", "notify"}
      BY <1>1, <3>1 DEF Calls
    <3> QED  BY <3>1, <3>2, <3>3
  <2> QED  BY <2>1, <2>2, <2>3
<1>4. PICK r : r = [client[c] EXCEPT !.pc = pc, !.deadline = deadline]
  OBVIOUS
<1>5. client' = [client EXCEPT ![c] = r]
  BY <1>1, <1>3, <1>4
<1>6. /\ r \in [pc : Calls \cup {"idle", "holds", "notify"}, bytes : RequestSizes \cup {0},
                ptr : Nat, deadline : {"unset", "ahead", "passed"}]
      /\ r.pc = pc /\ r.ptr = client[c].ptr /\ r.bytes = client[c].bytes
  BY <1>1, <1>4
<1>7. /\ r.pc \in Calls \cup {"holds"} => r.bytes \in RequestSizes
      /\ r.pc = "holds" <=> client[c].pc = "holds"
      /\ client[c].pc \in Tries => r.pc \in Tries
  BY <1>1, <1>3, <1>6 DEF Calls, Tries
<1>8. /\ ClientsOK' /\ SameHoldings(client, client')
      /\ \A d \in Clients : client[d].pc \in Tries => client'[d].pc \in Tries
  BY <1>1, <1>5, <1>6, <1>7, OneClient
<1> QED  BY <1>2, <1>8, ClientsMove

\* The waiters are woken.
LEMMA NotifyDeallocKeeps ==
  ASSUME Inv, NEW c \in Clients, NotifyDealloc(c)
  PROVE  Inv'
<1>1. /\ ClientsOK /\ client[c].pc = "notify" /\ extend' = extend
      /\ UNCHANGED <<heap, regions, region, inUse, device, granted>>
      /\ client' = [d \in Clients |->
           IF d = c THEN IdleClient
           ELSE IF client[d].pc = "waiting" THEN [client[d] EXCEPT !.pc = "retry"]
           ELSE client[d]]
  BY DEF NotifyDealloc, Inv, Rest
<1>2. ClientsOK'
  <2>1. ASSUME NEW d \in Clients
        PROVE  /\ client'[d] \in [pc : Calls \cup {"idle", "holds", "notify"},
                                  bytes : RequestSizes \cup {0}, ptr : Nat,
                                  deadline : {"unset", "ahead", "passed"}]
               /\ client'[d].pc \in Calls \cup {"holds"} => client'[d].bytes \in RequestSizes
    BY <1>1 DEF ClientsOK, Calls, IdleClient
  <2> QED  BY <1>1, <2>1 DEF ClientsOK
<1>3. SameHoldings(client, client') /\ \A d \in Clients : client[d].pc \in Tries => client'[d].pc \in Tries
  BY <1>1 DEF ClientsOK, SameHoldings, Tries, IdleClient
<1> QED  BY <1>1, <1>2, <1>3, ClientsMove

\* The device has more memory.
LEMMA OthersReleaseKeeps ==
  ASSUME Inv, OthersRelease
  PROVE  Inv'
<1>1. /\ device' \in DeviceMemory /\ device \in Nat /\ device' \in Nat /\ device' > device
      /\ UNCHANGED <<heap, regions, region, inUse, client, extend, granted>>
  BY SizesAssumption DEF OthersRelease, Inv, Rest, RegionsOK
<1>2. \E L : Sound(heap', L, regions', {}) /\ Held(heap', L, client', inUse')
  BY <1>1 DEF Inv
<1>3. RegionsOK'
  BY <1>1 DEF Inv, Rest, RegionsOK
<1>4. ClientsOK' /\ LimitOK' /\ ExtendOK'
  BY <1>1 DEF Inv, Rest, ClientsOK, LimitOK, NextAddress, ExtendOK, Available
<1> QED  BY <1>2, <1>3, <1>4 DEF Inv, Rest

\* Nothing changes.
LEMMA StutterKeeps ==
  ASSUME Inv, UNCHANGED vars
  PROVE  Inv'
<1>1. UNCHANGED <<heap, regions, region, inUse, client, extend, device, granted>>
  BY DEF vars
<1>2. \E L : Sound(heap', L, regions', {}) /\ Held(heap', L, client', inUse')
  BY <1>1 DEF Inv
<1>3. Rest'
  BY <1>1 DEF Inv, Rest, ClientsOK, RegionsOK, LimitOK, NextAddress, ExtendOK, Available
<1> QED  BY <1>2, <1>3 DEF Inv

\* There is no chunk at first.
LEMMA InvInit == Init => Inv
<1> SUFFICES ASSUME Init PROVE Inv
  OBVIOUS
<1>1. Sound(heap, {}, regions, {}) /\ Held(heap, {}, client, inUse)
  <2>1. /\ heap = HeapOf(<< >>, kInvalid, [b \in 0..(NumBins - 1) |-> {}], << >>)
        /\ regions = {} /\ client = [c \in Clients |-> IdleClient]
    BY DEF Init, HeapOf
  <2>2. /\ heap.chunks = << >> /\ heap.free = 0 /\ heap.handles = << >>
        /\ heap.bins = [b \in 0..(NumBins - 1) |-> {}] /\ IsHeap(heap)
    BY <2>1 DEF HeapOf, IsHeap, kInvalid
  <2>3. Typed(heap.chunks, heap.free, heap.bins, {})
    BY <2>2 DEF Typed
  <2>4. Named(heap.chunks, heap.handles, {})
    BY <2>2 DEF Named
  <2>5. Chained(heap.chunks, heap.free, {})
    <3>1. PICK q : q = [i \in 1..0 |-> 0]
      OBVIOUS
    <3>2. Unused(heap.chunks, {}) = {}
      BY <2>2 DEF Unused
    <3>3. Stacked(heap.chunks, heap.free, {}, 0, q)
      BY <2>2, <3>1, <3>2 DEF Stacked, kInvalid
    <3> QED  BY <3>2, <3>3 DEF Chained
  <2>6. Linked(heap.chunks, {}) /\ Apart(heap.chunks, {}) /\ Joined(heap.chunks, {}, {})
    BY DEF Linked, Apart, Joined
  <2>7. Placed(heap.chunks, {}, regions)
    BY <2>1 DEF Placed, Disjoint
  <2>8. Binned(heap.chunks, heap.bins, {}, {})
    BY <2>2 DEF Binned
  <2>9. Lent(heap, {}, client)
    BY <2>1 DEF Lent, IdleClient
  <2>10. Counted(heap, {}, inUse)
    <3>1. UsedIn(heap, {}) = {} /\ inUse = 0
      BY DEF Init, UsedIn
    <3>2. PICK w : w = heap.chunks
      OBVIOUS
    <3>3. Sum(w, {}) = 0
      BY SumEmpty
    <3> QED  BY <3>1, <3>2, <3>3 DEF Counted
  <2> QED  BY <2>2, <2>3, <2>4, <2>5, <2>6, <2>7, <2>8, <2>9, <2>10 DEF Sound, Held
<1>2. ClientsOK
  BY DEF Init, ClientsOK, IdleClient, Calls
<1>3. RegionsOK
  BY DEF Init, RegionsOK
<1>4. LimitOK
  <2>1. PICK bytes \in {Min({MemoryLimit, FirstAllocation}), MemoryLimit} :
          region = [next |-> RoundedBytes(bytes), total |-> 0, backpedal |-> FALSE]
    BY DEF Init
  <2>2. bytes \in Nat \ {0}
    <3>1. PICK S : S = {MemoryLimit, FirstAllocation}
      OBVIOUS
    <3>2. S \subseteq Nat \ {0} /\ S # {} /\ S \subseteq Nat
      BY <3>1, SizesAssumption
    <3>3. Min(S) \in S
      BY <3>2, MinFacts
    <3> QED  BY <2>1, <3>1, <3>2, <3>3, SizesAssumption
  <2>3. RoundedBytes(bytes) \in Nat \ {0} /\ RoundedBytes(bytes) \in Multiples
    BY <2>2, RoundedPositive, RoundedFacts DEF Multiples
  <2>4. NextAddress = 0
    <3>1. Last({}) \in Nat /\ Last({}) <= 0
      <4>1. PICK G : G = {}
        OBVIOUS
      <4>2. Last(G) \in Nat /\ \A n \in Nat : (\A g \in G : g.ptr + g.size <= n) => Last(G) <= n
        BY <4>1, LastFacts
      <4> QED  BY <4>1, <4>2
    <3>2. NextAddress = Last({})
      BY DEF Init, NextAddress, Last
    <3> QED  BY <3>1, <3>2
  <2> QED  BY <2>1, <2>3, <2>4, SizesAssumption DEF LimitOK
<1>5. ExtendOK
  BY DEF Init, ExtendOK
<1> QED  BY <1>1, <1>2, <1>3, <1>4, <1>5 DEF Inv, Rest

\* Every step keeps the invariant.
LEMMA InvKept == Inv /\ [Next]_vars => Inv'
<1> SUFFICES ASSUME Inv, [Next]_vars PROVE Inv'
  OBVIOUS
<1>1. ASSUME NEW c \in Clients, AllocateRaw(c) \/ DeallocateRaw(c) \/ DeadlinePasses(c)
      PROVE  Inv'
  BY <1>1, AllocateRawKeeps, DeallocateRawKeeps, WaitsKeep
<1>2. ASSUME NEW c \in Clients, Work(c)
      PROVE  Inv'
  BY <1>2, FindChunkPtrKeeps, ExtendTooLargeKeeps, ExtendKeeps, ExtendRefusedKeeps,
     StartBackpedalKeeps, BackpedalGrantedKeeps, BackpedalRefusedKeeps, BackpedalEndsKeeps,
     WaitsKeep, NotifyDeallocKeeps DEF Work
<1>3. CASE OthersRelease
  BY <1>3, OthersReleaseKeeps
<1>4. CASE UNCHANGED vars
  BY <1>4, StutterKeeps
<1> QED  BY <1>1, <1>2, <1>3, <1>4 DEF Next

\* The invariant holds in every state.
LEMMA InvAlways == Spec => []Inv
<1>1. Init => Inv
  BY InvInit
<1>2. Inv /\ [Next]_vars => Inv'
  BY InvKept
<1> QED  BY <1>1, <1>2, PTL DEF Spec


-----------------------------------------------------------------------------
(* What the invariant says                                                 *)

\* The chunks in use are those the table has.
LEMMA LiveChunks ==
  ASSUME NEW L, Sound(heap, L, regions, {})
  PROVE  Live = L
<1>1. /\ DOMAIN heap.handles = {heap.chunks[h].ptr : h \in L}
      /\ \A h \in L : heap.handles[heap.chunks[h].ptr] = h
  BY DEF Sound, Named
<1>2. Live \subseteq L
  BY <1>1 DEF Live
<1>3. L \subseteq Live
  BY <1>1 DEF Live
<1> QED  BY <1>2, <1>3

\* Chunks of two clients are two chunks, and these are apart.
LEMMA Exclusive == Inv => MemoryIsExclusive
<1> SUFFICES ASSUME Inv PROVE MemoryIsExclusive
  OBVIOUS
<1>1. PICK L : Sound(heap, L, regions, {}) /\ Lent(heap, L, client)
  BY DEF Inv, Held
<1>2. ASSUME NEW c \in Clients, client[c].pc = "holds"
      PROVE  \E h \in L : /\ heap.chunks[h].ptr = client[c].ptr
                          /\ client[c].bytes <= heap.chunks[h].size
                          /\ heap.chunks[h].ptr \in Nat /\ heap.chunks[h].size \in Nat
                          /\ client[c].ptr \in Nat /\ client[c].bytes \in Nat
  <2>1. PICK h \in L : heap.chunks[h].ptr = client[c].ptr /\ client[c].bytes <= heap.chunks[h].size
    BY <1>1, <1>2 DEF Lent
  <2>2. heap.chunks[h].ptr \in Nat /\ heap.chunks[h].size \in Nat
    BY <1>1, CellFacts DEF Cell
  <2>3. client[c].ptr \in Nat /\ client[c].bytes \in RequestSizes
    BY <1>2 DEF Inv, Rest, ClientsOK
  <2> QED  BY <2>1, <2>2, <2>3, SizesAssumption
<1>3. ASSUME NEW c \in Holders, NEW d \in Holders, c # d
      PROVE  InFrontOf(c, d) \/ InFrontOf(d, c)
  <2>0. c \in Clients /\ d \in Clients /\ client[c].pc = "holds" /\ client[d].pc = "holds"
    BY DEF Holders
  <2>1. PICK g \in L : /\ heap.chunks[g].ptr = client[c].ptr
                       /\ client[c].bytes <= heap.chunks[g].size
                       /\ heap.chunks[g].ptr \in Nat /\ heap.chunks[g].size \in Nat
                       /\ client[c].ptr \in Nat /\ client[c].bytes \in Nat
    BY <1>2, <2>0
  <2>2. PICK h \in L : /\ heap.chunks[h].ptr = client[d].ptr
                       /\ client[d].bytes <= heap.chunks[h].size
                       /\ heap.chunks[h].ptr \in Nat /\ heap.chunks[h].size \in Nat
                       /\ client[d].ptr \in Nat /\ client[d].bytes \in Nat
    BY <1>2, <2>0
  <2>3. g # h
    BY <1>1, <1>3, <2>0, <2>1, <2>2 DEF Lent
  <2>4. \/ heap.chunks[g].ptr + heap.chunks[g].size <= heap.chunks[h].ptr
        \/ heap.chunks[h].ptr + heap.chunks[h].size <= heap.chunks[g].ptr
    BY <1>1, <2>3 DEF Sound, Apart, End
  <2> QED  BY <2>1, <2>2, <2>4 DEF InFrontOf
<1>4. ASSUME NEW c \in Holders
      PROVE  \E r \in granted :
               r.ptr <= client[c].ptr /\ client[c].ptr + client[c].bytes <= r.ptr + r.size
  <2>1. PICK h \in L : /\ heap.chunks[h].ptr = client[c].ptr
                       /\ client[c].bytes <= heap.chunks[h].size
                       /\ heap.chunks[h].ptr \in Nat /\ heap.chunks[h].size \in Nat
                       /\ client[c].ptr \in Nat /\ client[c].bytes \in Nat
    BY <1>2 DEF Holders
  <2>2. PICK r \in regions : Inside(heap.chunks[h], r)
    BY <1>1 DEF Sound, Placed
  <2>3. PICK g \in granted : g.ptr = r.ptr /\ r.size <= g.size
    BY DEF Inv, Rest, RegionsOK
  <2>4. r.ptr \in Nat /\ r.size \in Nat /\ g.size \in Nat
    BY DEF Inv, Rest, RegionsOK
  <2>5. /\ r.ptr <= heap.chunks[h].ptr
        /\ heap.chunks[h].ptr + heap.chunks[h].size <= r.ptr + r.size
    BY <2>2 DEF Inside, End
  <2>6. g.ptr <= client[c].ptr /\ client[c].ptr + client[c].bytes <= g.ptr + g.size
    BY <2>1, <2>3, <2>4, <2>5
  <2> QED  BY <2>6
<1> QED  BY <1>3, <1>4 DEF MemoryIsExclusive

\* The parts of HeapConsistent that are about the chunks, their bins and the limit.
LEMMA StructureFacts ==
  Inv => ChunksTile /\ Coalesced /\ BinsExact /\ TightFit /\ GrantedWithinLimit
<1> SUFFICES ASSUME Inv PROVE ChunksTile /\ Coalesced /\ BinsExact /\ TightFit /\ GrantedWithinLimit
  OBVIOUS
<1>1. PICK L : Sound(heap, L, regions, {}) /\ Lent(heap, L, client)
  BY DEF Inv, Held
<1>2. Live = L
  BY <1>1, LiveChunks
<1>3. ChunksTile
  <2>1. \A r \in regions : \E h \in Live : heap.chunks[h].ptr = r.ptr /\ heap.chunks[h].prev = kInvalid
    BY <1>1, <1>2 DEF Sound, Placed
  <2>2. ASSUME NEW h \in L
        PROVE  /\ heap.chunks[h].size > 0 /\ heap.handles[heap.chunks[h].ptr] = h
               /\ IF heap.chunks[h].next = kInvalid
                    THEN \E r \in regions : EndOf(h) = r.ptr + r.size
                    ELSE /\ heap.chunks[h].next \in L
                         /\ heap.chunks[heap.chunks[h].next].ptr = EndOf(h)
                         /\ heap.chunks[heap.chunks[h].next].prev = h
    <3>1. heap.handles[heap.chunks[h].ptr] = h
      BY <1>1 DEF Sound, Named
    <3>2. heap.chunks[h].next = kInvalid => \E r \in regions : EndOf(h) = r.ptr + r.size
      BY <1>1 DEF Sound, Placed, End, EndOf
    <3>3. /\ heap.chunks[h].size > 0
          /\ heap.chunks[h].next # kInvalid =>
               /\ heap.chunks[h].next \in L
               /\ heap.chunks[heap.chunks[h].next].ptr = EndOf(h)
               /\ heap.chunks[heap.chunks[h].next].prev = h
      BY <1>1 DEF Sound, Linked, End, EndOf
    <3> QED  BY <3>1, <3>2, <3>3
  <2> QED  BY <1>2, <2>1, <2>2 DEF ChunksTile
<1>4. Coalesced
  <2>1. ASSUME NEW h \in L, IsFree(heap, h), IsFree(heap, heap.chunks[h].next)
        PROVE  FALSE
    <3>1. ~heap.chunks[h].used /\ heap.chunks[h].next # kInvalid /\ ~heap.chunks[heap.chunks[h].next].used
      BY <2>1 DEF IsFree
    <3> QED  BY <1>1, <3>1 DEF Sound, Joined
  <2> QED  BY <1>2, <2>1 DEF Coalesced
<1>5. BinsExact
  <2>1. ASSUME NEW h \in L
        PROVE  heap.chunks[h].bin
                 = IF IsFree(heap, h) THEN BinNumForSize(heap.chunks[h].size) ELSE NoBin
    <3>1. h # kInvalid
      BY <1>1, NotInvalid
    <3>2. heap.chunks[h].bin
            = IF heap.chunks[h].used THEN NoBin ELSE BinNumForSize(heap.chunks[h].size)
      BY <1>1 DEF Sound, Binned
    <3> QED  BY <3>1, <3>2 DEF IsFree
  <2>2. \A b \in DOMAIN heap.bins : heap.bins[b] = {h \in L : heap.chunks[h].bin = b}
    BY <1>1 DEF Sound, Binned, Typed
  <2> QED  BY <1>2, <2>1, <2>2 DEF BinsExact
<1>6. TightFit
  <2>1. ASSUME NEW c \in Holders
        PROVE  /\ client[c].bytes <= heap.chunks[heap.handles[client[c].ptr]].size
               /\ heap.chunks[heap.handles[client[c].ptr]].size < 2 * RoundedBytes(client[c].bytes)
    <3>1. PICK h \in L : /\ heap.chunks[h].ptr = client[c].ptr
                         /\ client[c].bytes <= heap.chunks[h].size
                         /\ heap.chunks[h].size < 2 * RoundedBytes(client[c].bytes)
      BY <1>1 DEF Lent, Holders
    <3>2. heap.handles[client[c].ptr] = h
      BY <1>1, <3>1 DEF Sound, Named
    <3> QED  BY <3>1, <3>2
  <2> QED  BY <2>1 DEF TightFit
<1>7. GrantedWithinLimit
  BY DEF Inv, Rest, LimitOK, GrantedWithinLimit
<1> QED  BY <1>3, <1>4, <1>5, <1>6, <1>7

\* A client holds memory after a step that it did not hold before it: it was handed out,
\* and from the regions as they were only FindChunkPtr does that.
LEMMA NewHolder ==
  ASSUME Inv, [Next]_vars, NEW c \in Clients, client[c].pc # "holds", client'[c].pc = "holds",
         regions' = regions
  PROVE  FindChunkPtr(c)
<1>0. client \in [Clients -> [pc : Calls \cup {"idle", "holds", "notify"},
                              bytes : RequestSizes \cup {0}, ptr : Nat,
                              deadline : {"unset", "ahead", "passed"}]]
  BY DEF Inv, Rest, ClientsOK
<1>1. ASSUME NEW d \in Clients, NEW alloc, NEW bytes, NEW next, NEW backpedal,
             Extended(d, alloc, bytes, next, backpedal)
      PROVE  FALSE
  <2>1. [ptr |-> NextAddress, size |-> bytes] \in regions
    BY <1>1 DEF Extended
  <2>2. PICK r \in regions : r.ptr = NextAddress
    BY <2>1
  <2>3. PICK g \in granted : g.ptr = r.ptr /\ r.size <= g.size
    BY DEF Inv, Rest, RegionsOK
  <2>4. r.size \in Nat \ {0} /\ g.size \in Nat /\ g.ptr \in Nat
    BY DEF Inv, Rest, RegionsOK
  <2>5. NextAddress \in Nat /\ g.ptr + g.size <= NextAddress
    BY AddressFacts DEF Inv, Rest
  <2> QED  BY <2>2, <2>3, <2>4, <2>5
<1>2. ASSUME NEW d \in Clients, Refused(d)
      PROVE  FALSE
  BY <1>0, <1>2 DEF Refused, IdleClient
<1>3. ASSUME NEW d \in Clients, AllocateRaw(d) \/ DeallocateRaw(d) \/ DeadlinePasses(d)
      PROVE  FALSE
  <2>1. CASE AllocateRaw(d)
    <3>1. PICK bytes : client' = [client EXCEPT ![d] =
            [IdleClient EXCEPT !.pc = IF d \in NoRetry THEN "once" ELSE "fast", !.bytes = bytes]]
      BY <2>1 DEF AllocateRaw
    <3> QED  BY <1>0, <3>1 DEF IdleClient
  <2>2. CASE DeallocateRaw(d)
    BY <1>0, <2>2 DEF DeallocateRaw, IdleClient
  <2>3. CASE DeadlinePasses(d)
    <3>1. PICK pc : /\ pc = IF client[d].pc = "waiting" THEN "retry" ELSE client[d].pc
                    /\ client' = [client EXCEPT ![d].deadline = "passed", ![d].pc = pc]
      BY <1>0, <2>3 DEF DeadlinePasses
    <3> QED  BY <1>0, <3>1
  <2> QED  BY <1>3, <2>1, <2>2, <2>3
<1>4. ASSUME NEW d \in Clients, Work(d)
      PROVE  FindChunkPtr(c)
  <2>1. CASE FindChunkPtr(d)
    <3>1. c = d
      BY <1>0, <2>1 DEF FindChunkPtr, HandOut
    <3> QED  BY <2>1, <3>1
  <2>2. CASE ExtendTooLarge(d) \/ ExtendRefused(d) \/ BackpedalEnds(d)
    BY <1>2, <2>2 DEF ExtendTooLarge, ExtendRefused, BackpedalEnds
  <2>3. CASE Extend(d) \/ BackpedalGranted(d)
    BY <1>1, <2>3 DEF Extend, BackpedalGranted
  <2>4. CASE StartBackpedal(d) \/ BackpedalRefused(d)
    BY <2>4 DEF StartBackpedal, BackpedalRefused
  <2>5. CASE WaitForMemory(d) \/ LastTry(d)
    BY <1>0, <2>5 DEF WaitForMemory, LastTry
  <2>6. CASE NotifyDealloc(d)
    BY <1>0, <2>6 DEF NotifyDealloc, IdleClient
  <2> QED  BY <1>4, <2>1, <2>2, <2>3, <2>4, <2>5, <2>6 DEF Work
<1>5. CASE OthersRelease
  BY <1>5 DEF OthersRelease
<1>6. CASE UNCHANGED vars
  BY <1>6 DEF vars
<1> QED  BY <1>3, <1>4, <1>5, <1>6 DEF Next

\* The chunk that a client is handed from the regions there are is the best fit.
LEMMA BestFitStep ==
  ASSUME Inv, [Next]_vars, NEW c \in Clients, c \notin Holders, c \in Holders', regions' = regions
  PROVE  heap.chunks[heap.handles[client'[c].ptr]].size
           = Min(FreeSizes(RoundedBytes(client[c].bytes)))
<1>1. client[c].pc # "holds" /\ client'[c].pc = "holds"
  BY DEF Holders
<1>2. FindChunkPtr(c)
  BY <1>1, NewHolder
<1>3. PICK L : Sound(heap, L, regions, {})
  BY DEF Inv
<1>4. PICK rounded \in Nat : rounded = RoundedBytes(client[c].bytes)
  BY <1>2, RoundedPositive, SizesAssumption DEF FindChunkPtr, Trying, Inv, Rest, ClientsOK, Calls
<1>5. PICK h : h = Found(heap, rounded)
  OBVIOUS
<1>6. FittingBins(heap, rounded) # {}
  BY <1>2, <1>4 DEF FindChunkPtr
<1>7. /\ h \in L /\ ~heap.chunks[h].used /\ rounded <= heap.chunks[h].size
      /\ \A g \in L : ~heap.chunks[g].used /\ rounded <= heap.chunks[g].size =>
           heap.chunks[h].size <= heap.chunks[g].size
  BY <1>3, <1>5, <1>6, FoundFacts
<1>8. heap.handles[client'[c].ptr] = h
  <2>1. client'[c].ptr = heap.chunks[h].ptr
    BY <1>2, <1>4, <1>5 DEF FindChunkPtr, HandOut, Inv, Rest, ClientsOK
  <2> QED  BY <1>3, <1>7, <2>1 DEF Sound, Named
<1>9. PICK S : S = FreeSizes(rounded)
  OBVIOUS
<1>10. \A g \in L : heap.chunks[g].size \in Nat /\ g # kInvalid
  BY <1>3, CellFacts DEF Cell
<1>11. S \subseteq Nat /\ heap.chunks[h].size \in S /\ \A s \in S : heap.chunks[h].size <= s
  <2>1. Live = L
    BY <1>3, LiveChunks
  <2>2. S = {heap.chunks[g].size : g \in {i \in L : IsFree(heap, i) /\ heap.chunks[i].size >= rounded}}
    BY <1>9, <2>1 DEF FreeSizes
  <2>3. \A g \in L : IsFree(heap, g) <=> ~heap.chunks[g].used
    BY <1>10 DEF IsFree
  <2> QED  BY <1>7, <1>10, <2>2, <2>3
<1>12. Min(S) \in S /\ \A s \in S : Min(S) <= s
  BY <1>11, MinFacts
<1>13. Min(S) = heap.chunks[h].size
  <2>1. PICK m \in Nat, n \in Nat : m = Min(S) /\ n = heap.chunks[h].size /\ m <= n /\ n <= m
    BY <1>11, <1>12
  <2> QED  BY <2>1
<1> QED  BY <1>4, <1>8, <1>9, <1>13


-----------------------------------------------------------------------------
(* What the recursive definitions of the properties compute                *)

\* The handles along the list of unused handles.
Along(ch, f, len, G) ==
  G = [i \in 0..len |-> IF i = 0 THEN f ELSE IF G[i - 1] = kInvalid THEN kInvalid ELSE ch[G[i - 1]].next]

\* There is one function that goes along the list.
LEMMA AlongOnce ==
  ASSUME NEW ch, NEW f, NEW len \in Nat, NEW F, NEW G, Along(ch, f, len, F), Along(ch, f, len, G)
  PROVE  F = G
<1> DEFINE N == {i \in Nat : i \in 0..len => F[i] = G[i]}
<1>1. 0 \in N
  BY DEF Along
<1>2. ASSUME NEW n \in N
      PROVE  n + 1 \in N
  <2> SUFFICES ASSUME n + 1 \in 0..len  PROVE F[n + 1] = G[n + 1]
    OBVIOUS
  <2>1. n \in 0..len /\ F[n] = G[n] /\ (n + 1) - 1 = n /\ n + 1 # 0
    OBVIOUS
  <2>2. F[n + 1] = IF F[n] = kInvalid THEN kInvalid ELSE ch[F[n]].next
    BY <2>1 DEF Along
  <2>3. G[n + 1] = IF G[n] = kInvalid THEN kInvalid ELSE ch[G[n]].next
    BY <2>1 DEF Along
  <2> QED  BY <2>1, <2>2, <2>3
<1>3. N \subseteq Nat
  OBVIOUS
<1>4. \A n \in Nat : n \in N
  <2> HIDE DEF N
  <2> QED  BY <1>1, <1>2, <1>3, SetInduction
<1>5. \A i \in 0..len : F[i] = G[i]
  BY <1>4
<1>6. F = [i \in 0..len |-> F[i]] /\ G = [i \in 0..len |-> G[i]]
  BY DEF Along
<1> QED  BY <1>5, <1>6

\* Along the list the stack of unused handles is met from its top.
LEMMA AlongStack ==
  ASSUME NEW ch, NEW f, NEW L, NEW n, NEW q, Stacked(ch, f, L, n, q), NEW len \in Nat
  PROVE  Along(ch, f, len, [i \in 0..len |-> IF i < n THEN q[n - i] ELSE kInvalid])
<1> DEFINE F == [i \in 0..len |-> IF i < n THEN q[n - i] ELSE kInvalid]
<1>1. n \in Nat /\ f = IF n = 0 THEN kInvalid ELSE q[n]
  BY DEF Stacked
<1>2. ASSUME NEW i \in 0..len
      PROVE  F[i] = IF i = 0 THEN f ELSE IF F[i - 1] = kInvalid THEN kInvalid ELSE ch[F[i - 1]].next
  <2>1. CASE i = 0
    <3>1. n - 0 = n /\ (0 < n <=> n # 0)
      BY <1>1
    <3> QED  BY <1>1, <2>1, <3>1
  <2>2. CASE i # 0 /\ i - 1 < n
    <3>1. PICK j \in 1..n : j = n - (i - 1)
      BY <1>1, <2>2
    <3>2. i - 1 \in 0..len /\ F[i - 1] = q[j]
      BY <2>2, <3>1
    <3>3. q[j] # kInvalid /\ ch[q[j]].next = IF j = 1 THEN kInvalid ELSE q[j - 1]
      BY DEF Stacked, Unused, kInvalid
    <3>4. (j = 1 <=> ~(i < n)) /\ j - 1 = n - i
      BY <1>1, <2>2, <3>1
    <3> QED  BY <2>2, <3>2, <3>3, <3>4
  <2>3. CASE i # 0 /\ ~(i - 1 < n)
    <3>1. i - 1 \in 0..len /\ F[i - 1] = kInvalid /\ ~(i < n)
      BY <1>1, <2>3
    <3> QED  BY <2>3, <3>1
  <2> QED  BY <2>1, <2>2, <2>3
<1>3. F = [i \in 0..len |-> IF i = 0 THEN f ELSE IF F[i - 1] = kInvalid THEN kInvalid ELSE ch[F[i - 1]].next]
  BY <1>2
<1> QED  BY <1>3 DEF Along

\* The list that starts at free_chunks_list_ has every handle that is not in use.
LEMMA FreeListFacts ==
  ASSUME NEW L, Sound(heap, L, regions, {})
  PROVE  FreeList = Handles \ L
<1>1. PICK ch, f : ch = heap.chunks /\ f = heap.free
  OBVIOUS
<1>2. PICK len \in Nat : len = Len(ch)
  BY <1>1 DEF Sound, Typed
<1>3. PICK n, q : Stacked(ch, f, L, n, q)
  BY <1>1 DEF Sound, Chained
<1>4. PICK F : F = [i \in 0..len |-> IF i < n THEN q[n - i] ELSE kInvalid]
  OBVIOUS
<1>5. \A G : Along(ch, f, len, G) <=> G = F
  <2>1. Along(ch, f, len, F)
    BY <1>3, <1>4, AlongStack
  <2> QED  BY <2>1, AlongOnce
<1>6. FreeList = {F[i] : i \in 0..len} \ {kInvalid}
  <2>1. \A G : (G = [i \in 0..Len(heap.chunks) |->
                      IF i = 0 THEN heap.free
                      ELSE IF G[i - 1] = kInvalid THEN kInvalid ELSE heap.chunks[G[i - 1]].next])
               <=> G = F
    BY <1>1, <1>2, <1>5 DEF Along
  <2> DEFINE at == CHOOSE G : G = [i \in 0..Len(heap.chunks) |->
                      IF i = 0 THEN heap.free
                      ELSE IF G[i - 1] = kInvalid THEN kInvalid ELSE heap.chunks[G[i - 1]].next]
  <2>2. at = F
    BY ONLY <2>1
  <2>3. FreeList = {at[i] : i \in 0..Len(heap.chunks)} \ {kInvalid}
    BY ONLY Zenon DEF FreeList
  <2> QED  BY <1>1, <1>2, <2>2, <2>3
<1>7. n \in Nat /\ n <= len
  <2>1. q \in Injection(1..n, 1..len) /\ n \in Nat
    BY <1>2, <1>3 DEF Stacked, Unused, Injection, IsInjective
  <2>2. IsFiniteSet(1..len) /\ Cardinality(1..len) = len /\ Cardinality(1..n) = n
    BY <2>1, FS_Interval
  <2>3. Cardinality(1..n) <= Cardinality(1..len)
    BY <2>1, <2>2, FS_Injection
  <2> QED  BY <2>1, <2>2, <2>3
<1>8. ASSUME NEW g \in Unused(ch, L)
      PROVE  g \in {F[i] : i \in 0..len} \ {kInvalid}
  <2>1. PICK j \in 1..n : q[j] = g
    BY <1>3 DEF Stacked
  <2>2. PICK i \in 0..len : i = n - j
    BY <1>7, <2>1
  <2>3. i < n /\ n - i = j
    BY <1>7, <2>2
  <2>4. F[i] = g
    BY <1>4, <2>1, <2>2, <2>3
  <2>5. g # kInvalid
    BY DEF Unused, kInvalid
  <2> QED  BY <2>4, <2>5
<1>9. ASSUME NEW i \in 0..len, F[i] # kInvalid
      PROVE  F[i] \in Unused(ch, L)
  <2>1. i < n /\ F[i] = q[n - i]
    BY <1>4, <1>9
  <2>2. n - i \in 1..n
    BY <1>7, <2>1
  <2> QED  BY <1>3, <2>1, <2>2 DEF Stacked
<1>10. Unused(ch, L) = Handles \ L
  BY <1>1 DEF Unused, Handles
<1>11. {F[i] : i \in 0..len} \ {kInvalid} = Unused(ch, L)
  BY <1>8, <1>9
<1> QED  BY <1>6, <1>10, <1>11


\* A chunk in use is linked to chunks in use, an unused one is in the list.
LEMMA ChunkTypes ==
  ASSUME NEW L, Sound(heap, L, regions, {}), NEW h \in Handles
  PROVE  heap.chunks[h] \in ChunkType
<1>1. heap.chunks[h] \in Cell
  BY DEF Handles, Sound, Typed
<1>2. L \subseteq Handles
  BY DEF Handles, Sound, Typed
<1>3. CASE h \in L
  <2>1. heap.chunks[h].next \in L \cup {kInvalid} /\ heap.chunks[h].prev \in L \cup {kInvalid}
    BY <1>3 DEF Sound, Linked
  <2> QED  BY <1>1, <1>2, <2>1 DEF Cell, ChunkType
<1>4. CASE h \notin L
  <2>1. PICK ch, f : ch = heap.chunks /\ f = heap.free
    OBVIOUS
  <2>2. Chained(ch, f, L) /\ h \in Unused(ch, L)
    BY <1>4, <2>1 DEF Sound, Unused, Handles
  <2>3. PICK n, q : Stacked(ch, f, L, n, q)
    BY <2>2 DEF Chained
  <2>4. PICK i \in 1..n : q[i] = h
    BY <2>2, <2>3 DEF Stacked
  <2>5. ch[h].next = IF i = 1 THEN kInvalid ELSE q[i - 1]
    BY <2>3, <2>4 DEF Stacked
  <2>6. n \in Nat /\ (i # 1 => i - 1 \in 1..n)
    BY <2>3 DEF Stacked
  <2>7. ch[h].next \in Unused(ch, L) \cup {kInvalid}
    BY <2>3, <2>5, <2>6 DEF Stacked
  <2>8. ch[h].prev = kInvalid
    BY <2>2 DEF Chained
  <2>9. Unused(ch, L) \subseteq Handles
    BY <2>1 DEF Unused, Handles
  <2> QED  BY <1>1, <2>1, <2>7, <2>8, <2>9 DEF Cell, ChunkType
<1> QED  BY <1>3, <1>4

\* The type invariant.
LEMMA TypeFacts == Inv => TypeOK
<1> SUFFICES ASSUME Inv PROVE TypeOK
  OBVIOUS
<1>1. PICK L : Sound(heap, L, regions, {}) /\ Counted(heap, L, inUse)
  BY DEF Inv, Held
<1>2. Live = L /\ L \subseteq Handles
  BY <1>1, LiveChunks DEF Sound, Typed, Handles
<1>3. \A h \in Handles : heap.chunks[h] \in ChunkType
  BY <1>1, ChunkTypes
<1>4. heap.free \in Handles \cup {kInvalid}
  BY <1>1 DEF Sound, Typed, Handles, kInvalid
<1>5. heap.bins \in [0..(NumBins - 1) -> SUBSET Handles]
  BY <1>1, <1>2 DEF Sound, Typed, Binned
<1>6. inUse \in Nat
  <2>1. PICK w, U : w = heap.chunks /\ U = UsedIn(heap, L)
    OBVIOUS
  <2>2. IsFiniteSet(U) /\ \A h \in U : w[h].size \in Nat
    BY <1>1, <2>1, UsedFacts
  <2>3. Sum(w, U) \in Nat
    BY <2>2, SumFacts
  <2> QED  BY <1>1, <2>1, <2>3 DEF Counted
<1>7. /\ \A r \in regions \cup granted : r.ptr \in Nat /\ r.size \in Nat
      /\ \A r \in regions : r.size % MinAllocationSize = 0
      /\ device \in DeviceMemory
  BY DEF Inv, Rest, RegionsOK, Multiples
<1>8. region \in [next : Nat, total : Nat, backpedal : BOOLEAN]
  BY DEF Inv, Rest, LimitOK
<1>9. client \in [Clients -> [pc : {"idle", "fast", "once", "retry", "failed", "waiting",
                                    "final", "holds", "notify"},
                              bytes : RequestSizes \cup {0}, ptr : Nat,
                              deadline : {"unset", "ahead", "passed"}]]
  <2>1. Calls \cup {"idle", "holds", "notify"}
          = {"idle", "fast", "once", "retry", "failed", "waiting", "final", "holds", "notify"}
    BY DEF Calls
  <2> QED  BY <2>1 DEF Inv, Rest, ClientsOK
<1>10. extend = NoExtend \/ extend.by \in Clients
  BY DEF Inv, Rest, ExtendOK
<1> QED  BY <1>2, <1>3, <1>4, <1>5, <1>6, <1>7, <1>8, <1>9, <1>10 DEF TypeOK

\* The statistics are exact, and the used chunks are those of the clients.
LEMMA BytesFacts == Inv => BytesInUseExact
<1> SUFFICES ASSUME Inv PROVE BytesInUseExact
  OBVIOUS
<1>1. PICK L : /\ Sound(heap, L, regions, {})
               /\ Lent(heap, L, client) /\ Counted(heap, L, inUse)
  BY DEF Inv, Held
<1>2. Live = L
  BY <1>1, LiveChunks
<1>3. inUse = UsedBytes
  BY <1>1, <1>2 DEF Counted, UsedBytes, Sum, UsedIn
<1>4. \A h \in L : heap.handles[heap.chunks[h].ptr] = h
  BY <1>1 DEF Sound, Named
<1>5. ASSUME NEW c \in Holders
      PROVE  heap.handles[client[c].ptr] \in {h \in L : heap.chunks[h].used}
  BY <1>1, <1>4 DEF Holders, Lent
<1>6. ASSUME NEW h \in L, heap.chunks[h].used
      PROVE  \E c \in Holders : heap.handles[client[c].ptr] = h
  BY <1>1, <1>4, <1>6 DEF Holders, Lent
<1>7. {heap.handles[client[c].ptr] : c \in Holders} = {h \in L : heap.chunks[h].used}
  BY <1>5, <1>6
<1> QED  BY <1>2, <1>3, <1>7 DEF BytesInUseExact

\* The invariant has all of HeapConsistent.
LEMMA Consistent == Inv => HeapConsistent
<1> SUFFICES ASSUME Inv PROVE HeapConsistent
  OBVIOUS
<1>1. HandlesAccounted
  <2>1. PICK L : Sound(heap, L, regions, {})
    BY DEF Inv
  <2> QED  BY <2>1, LiveChunks, FreeListFacts DEF HandlesAccounted
<1> QED  BY <1>1, TypeFacts, StructureFacts, BytesFacts DEF HeapConsistent

-----------------------------------------------------------------------------
(* The theorems                                                            *)

\* No two clients ever have memory in common, and what a client has lies in memory that
\* the sub-allocator granted, whatever the interleaving of AllocateRaw, DeallocateRaw and
\* the rounds of Extend.
THEOREM MemoryStaysExclusive == Spec => []MemoryIsExclusive
<1>1. Inv => MemoryIsExclusive
  BY Exclusive
<1> QED  BY <1>1, InvAlways, PTL

\* After any sequence of splits and merges the heap is consistent: the chunks of a region
\* lie behind each other and fill it, no two free ones are neighbours, each free one is in
\* the bin of its size, every handle is in use or in free_chunks_list_, bytes_in_use are
\* those of the chunks the clients hold, what is handed out is less than twice what is
\* needed, and the regions stay within memory_limit_.
THEOREM HeapStaysConsistent == Spec => []HeapConsistent
<1> QED  BY Consistent, InvAlways, PTL

\* FindChunkPtr, which stops at the first chunk that fits of the first bin that has one,
\* takes the smallest free chunk of the whole heap that is large enough.
THEOREM SearchFindsBestFit == Spec => BestFit
<1> DEFINE A == \A c \in Clients :
                  (c \notin Holders /\ c \in Holders' /\ regions' = regions) =>
                     heap.chunks[heap.handles[client'[c].ptr]].size
                       = Min(FreeSizes(RoundedBytes(client[c].bytes)))
<1>1. Inv /\ [Next]_vars => [A]_vars
  BY BestFitStep
<1> HIDE DEF A
<1>2. Spec => [][A]_vars
  BY <1>1, InvAlways, PTL DEF Spec
<1> QED  BY <1>2 DEF A, BestFit
=============================================================================
