---------------------------- MODULE BFCAllocator ----------------------------
(***************************************************************************)
(* The best-fit-with-coalescing allocator of device memory and the retry   *)
(* wrapper around it.  The heap is the chunk table with its doubly linked  *)
(* lists, the bins of free chunks, the table from addresses to chunks and  *)
(* the list of unused chunk handles; clients allocate and free it          *)
(* concurrently, and memory comes in regions from a sub-allocator that may *)
(* refuse them.                                                            *)
(*                                                                         *)
(* What is done under lock_ is one step, but for the loop of Extend that   *)
(* asks the sub-allocator for less and less: it has a step per round.      *)
(***************************************************************************)
EXTENDS Integers, Sequences, FiniteSets, FiniteSetsExt

CONSTANTS
  Clients,            \* threads, each holds at most one allocation
  NoRetry,            \* those that allocate with no_retry_on_failure
  RequestSizes,       \* the num_bytes they ask for
  MemoryLimit,        \* memory_limit_, total_memory of the constructor
  FirstAllocation,    \* the smallest initial allocation with allow_growth (1 MiB)
  DeviceMemory,       \* how much the device may have for this process
  MinAllocationSize,  \* kMinAllocationSize
  NumBins             \* kNumBins

ASSUME SizesAssumption ==
  /\ RequestSizes \subseteq Nat \ {0} /\ FirstAllocation \in Nat \ {0}
  /\ MemoryLimit \in Nat \ {0} /\ DeviceMemory \subseteq Nat /\ DeviceMemory # {}
ASSUME ClientsAssumption == NoRetry \subseteq Clients /\ "none" \notin Clients
ASSUME BinsAssumption == MinAllocationSize \in Nat \ {0} /\ NumBins \in Nat \ {0}

VARIABLES
  heap,       \* chunks_, free_chunks_list_, bins and the handles of the regions
  regions,    \* region_manager_: the regions as the allocator records them
  region,     \* sizes of regions: [next, total, backpedal], see Init
  inUse,      \* stats_.bytes_in_use
  client,     \* client[c]: where c is and the memory it holds
  extend,     \* the Extend that is trying smaller regions, or NoExtend
  device,     \* memory the device has for this process
  granted     \* history: the regions as the sub-allocator gave them

vars == <<heap, regions, region, inUse, client, extend, device, granted>>

kInvalid == 0       \* kInvalidChunkHandle; handles are numbered from 1
NoBin    == -1      \* kInvalidBinNum
NoExtend == [by |-> "none"]

\* Faulty: sizes are rounded down.
RoundedDown(bytes) == MinAllocationSize * (bytes \div MinAllocationSize)

RoundedBytes(bytes) ==
  MinAllocationSize * ((bytes + MinAllocationSize - 1) \div MinAllocationSize)

\* Log2FloorNonZero of the size in units, at most the last bin.
BinNumForSize(bytes) ==
  LET units == Max({bytes \div MinAllocationSize, 1})
  IN  Max({b \in 0..(NumBins - 1) : 2^b <= units})

IdleClient == [pc |-> "idle", bytes |-> 0, ptr |-> 0, deadline |-> "unset"]

Init ==
  /\ heap = [chunks |-> << >>, free |-> kInvalid,
             bins |-> [b \in 0..(NumBins - 1) |-> {}], handles |-> << >>]
  /\ regions = {}
  /\ \E bytes \in {Min({MemoryLimit, FirstAllocation}), MemoryLimit} :  \* allow_growth or not
       region = [next |-> RoundedBytes(bytes), total |-> 0, backpedal |-> FALSE]
  /\ inUse = 0
  /\ client = [c \in Clients |-> IdleClient]
  /\ extend = NoExtend
  /\ device \in DeviceMemory
  /\ granted = {}

-----------------------------------------------------------------------------
(* The heap.  The operators take a heap and return the heap they leave.    *)

Chunk(ptr, size, prev, next) ==
  [ptr |-> ptr, size |-> size, used |-> FALSE, prev |-> prev, next |-> next, bin |-> NoBin]

\* The handle that AllocateChunk returns: the head of the free list, or a new one.
NewHandle(hp) == IF hp.free # kInvalid THEN hp.free ELSE Len(hp.chunks) + 1

\* AllocateChunk, and the new chunk is c.
AllocateChunk(hp, c) ==
  IF hp.free # kInvalid
    THEN [hp EXCEPT !.free = hp.chunks[hp.free].next, !.chunks[hp.free] = c]
    ELSE [hp EXCEPT !.chunks = Append(@, c)]

SetHandle(hp, ptr, h) ==
  [hp EXCEPT !.handles = [p \in DOMAIN hp.handles \cup {ptr} |->
                            IF p = ptr THEN h ELSE hp.handles[p]]]

Erase(hp, ptr) ==
  [hp EXCEPT !.handles = [p \in DOMAIN hp.handles \ {ptr} |-> hp.handles[p]]]

\* DeallocateChunk links the handle into the free list by its next; the rest of
\* the chunk is not read before it is set again.
DeleteChunk(hp, h) ==
  LET erased == Erase(hp, hp.chunks[h].ptr)
  IN  [erased EXCEPT !.chunks[h] = Chunk(0, 0, kInvalid, hp.free), !.free = h]

InsertFreeChunkIntoBin(hp, h) ==
  LET b == BinNumForSize(hp.chunks[h].size)
  IN  [hp EXCEPT !.chunks[h].bin = b, !.bins[b] = @ \cup {h}]

\* Also RemoveFreeChunkIterFromBin.
RemoveFreeChunkFromBin(hp, h) ==
  [hp EXCEPT !.bins[hp.chunks[h].bin] = @ \ {h}, !.chunks[h].bin = NoBin]

SetPrev(hp, h, prev) ==
  IF h = kInvalid THEN hp ELSE [hp EXCEPT !.chunks[h].prev = prev]

\* The chunk keeps its first bytes, the rest becomes a free chunk behind it.
SplitChunk(hp, h, bytes) ==
  LET c == hp.chunks[h]
      new == NewHandle(hp)
      added == AllocateChunk(hp, Chunk(c.ptr + bytes, c.size - bytes, h, c.next))
      cut == [added EXCEPT !.chunks[h].size = bytes, !.chunks[h].next = new]
      linked == SetPrev(SetHandle(cut, c.ptr + bytes, new), c.next, new)
  IN  InsertFreeChunkIntoBin(linked, new)

\* The chunk h2, which follows h1, becomes part of h1.
Merge(hp, h1, h2) ==
  LET c2 == hp.chunks[h2]
      joined == [hp EXCEPT !.chunks[h1].next = c2.next, !.chunks[h1].size = @ + c2.size]
  IN  DeleteChunk(SetPrev(joined, c2.next, h1), h2)

IsFree(hp, h) == h # kInvalid /\ ~hp.chunks[h].used

\* Faulty: the chunk in front is not taken out of its bin before it grows.
FreeAndCoalesceInBin(hp, h) ==
  LET freed == [hp EXCEPT !.chunks[h].used = FALSE]
      next == freed.chunks[h].next
      one == IF IsFree(freed, next)
               THEN Merge(RemoveFreeChunkFromBin(freed, next), h, next) ELSE freed
      prev == one.chunks[h].prev
  IN  IF IsFree(one, prev)
        THEN InsertFreeChunkIntoBin(Merge(one, prev, h), prev)
        ELSE InsertFreeChunkIntoBin(one, h)

\* The chunk is free; it is joined with the next and the previous one if they are.
FreeAndMaybeCoalesce(hp, h) ==
  LET freed == [hp EXCEPT !.chunks[h].used = FALSE]
      next == freed.chunks[h].next
      one == IF IsFree(freed, next)
               THEN Merge(RemoveFreeChunkFromBin(freed, next), h, next) ELSE freed
      prev == one.chunks[h].prev
  IN  IF IsFree(one, prev)
        THEN InsertFreeChunkIntoBin(Merge(RemoveFreeChunkFromBin(one, prev), prev, h), prev)
        ELSE InsertFreeChunkIntoBin(one, h)

-----------------------------------------------------------------------------
(* FindChunkPtr                                                            *)

FitsIn(hp, b, rounded) == {h \in hp.bins[b] : hp.chunks[h].size >= rounded}

\* The bins from the one of the size upwards that have a chunk that fits.
FittingBins(hp, rounded) ==
  {b \in BinNumForSize(rounded)..(NumBins - 1) : FitsIn(hp, b, rounded) # {}}

\* ChunkComparator: by size, then by address.
Before(hp, g, h) ==
  \/ hp.chunks[g].size < hp.chunks[h].size
  \/ hp.chunks[g].size = hp.chunks[h].size /\ hp.chunks[g].ptr <= hp.chunks[h].ptr

\* Faulty: the search starts with the largest bin.
FoundLast(hp, rounded) ==
  LET fits == FitsIn(hp, Max(FittingBins(hp, rounded)), rounded)
  IN  CHOOSE h \in fits : \A g \in fits : Before(hp, h, g)

\* The first chunk that fits of the first bin that has one.
Found(hp, rounded) ==
  LET fits == FitsIn(hp, Min(FittingBins(hp, rounded)), rounded)
  IN  CHOOSE h \in fits : \A g \in fits : Before(hp, h, g)

SplitIfLarge(hp, h, rounded) ==
  IF hp.chunks[h].size >= 2 * rounded THEN SplitChunk(hp, h, rounded) ELSE hp

\* The heap in which the chunk that was found is handed out.
Taken(hp, h, bytes) ==
  LET removed == RemoveFreeChunkFromBin(hp, h)
      split == SplitIfLarge(removed, h, RoundedBytes(bytes))
  IN  [split EXCEPT !.chunks[h].used = TRUE]

\* FindChunkPtr on the heap hp succeeds and returns the chunk to client c.
HandOut(c, hp) ==
  LET bytes == client[c].bytes
      h == Found(hp, RoundedBytes(bytes))
  IN  /\ heap' = Taken(hp, h, bytes)
      /\ inUse' = inUse + heap'.chunks[h].size
      /\ client' = [client EXCEPT ![c].pc = "holds", ![c].ptr = hp.chunks[h].ptr,
                                  ![c].deadline = "unset"]

-----------------------------------------------------------------------------
(* AllocateRaw: a first try, then the retry helper tries, waits for memory *)
(* that is returned until a deadline, and tries for the last time.         *)

LockFree == extend = NoExtend

Trying(c) == client[c].pc \in {"fast", "once", "retry", "final"} /\ LockFree

\* AllocateRaw, "once" if the caller asked for no retry.
AllocateRaw(c) ==
  /\ client[c].pc = "idle"
  /\ \E bytes \in RequestSizes :
       client' = [client EXCEPT ![c] =
         [IdleClient EXCEPT !.pc = IF c \in NoRetry THEN "once" ELSE "fast", !.bytes = bytes]]
  /\ UNCHANGED <<heap, regions, region, inUse, extend, device, granted>>

\* AllocateRawInternal returned nullptr.
Refused(c) ==
  client' = [client EXCEPT ![c] =
    IF client[c].pc \in {"once", "final"} THEN IdleClient
    ELSE [client[c] EXCEPT !.pc = IF client[c].pc = "fast" THEN "retry" ELSE "failed"]]

\* AllocateRawInternal finds a free chunk.
FindChunkPtr(c) ==
  /\ Trying(c)
  /\ FittingBins(heap, RoundedBytes(client[c].bytes)) # {}
  /\ HandOut(c, heap)
  /\ UNCHANGED <<regions, region, extend, device, granted>>

Wanted(c) == RoundedBytes(client[c].bytes)

Available == ((MemoryLimit - region.total) \div MinAllocationSize) * MinAllocationSize

\* The region size is doubled until the request fits.
Grown(size, wanted) ==
  Min({s \in {size * 2^k : k \in 0..(wanted \div size)} : s >= wanted})

MustExtend(c) ==
  Trying(c) /\ FittingBins(heap, Wanted(c)) = {}

\* Extend: the limit does not allow a region of that size.
ExtendTooLarge(c) ==
  /\ MustExtend(c) /\ Wanted(c) > Available
  /\ Refused(c)
  /\ UNCHANGED <<heap, regions, region, inUse, extend, device, granted>>

\* Where the sub-allocator puts the next region: behind the last one.
NextAddress == Max({r.ptr + r.size : r \in granted} \cup {0})

\* The sub-allocator has a region of that size.
HasMemory(bytes) == NextAddress + bytes <= device

\* The heap with a new region of bytes at mem_addr as one free chunk.
AddRegion(hp, mem_addr, bytes) ==
  LET h == NewHandle(hp)
      added == AllocateChunk(hp, Chunk(mem_addr, bytes, kInvalid, kInvalid))
  IN  InsertFreeChunkIntoBin(SetHandle(added, mem_addr, h), h)

\* Extend succeeds: alloc bytes were granted, bytes are recorded; the second
\* FindChunkPtr may still find nothing.
Extended(c, alloc, bytes, next, backpedal) ==
  LET added == AddRegion(heap, NextAddress, bytes)
  IN  /\ granted' = granted \cup {[ptr |-> NextAddress, size |-> alloc]}
      /\ regions' = regions \cup {[ptr |-> NextAddress, size |-> bytes]}
      /\ region' = [next |-> next, total |-> region.total + bytes,
                    backpedal |-> backpedal]
      /\ IF FittingBins(added, Wanted(c)) # {}
           THEN HandOut(c, added)
           ELSE heap' = added /\ Refused(c) /\ UNCHANGED inUse

\* The region size for the next Extend: grown for this one, or doubled after it.
NextRegion(grown) == IF grown > region.next THEN grown ELSE 2 * region.next

\* Extend, the sub-allocator grants the region at once.
Extend(c) ==
  /\ MustExtend(c) /\ Wanted(c) <= Available
  /\ LET grown == Grown(region.next, Wanted(c))
         bytes == Min({grown, Available})
     IN  /\ HasMemory(bytes)
         /\ Extended(c, bytes, bytes, NextRegion(grown), region.backpedal)
  /\ UNCHANGED <<extend, device>>

\* Extend, the sub-allocator refuses and smaller regions were tried before.
ExtendRefused(c) ==
  /\ MustExtend(c) /\ Wanted(c) <= Available /\ region.backpedal
  /\ LET grown == Grown(region.next, Wanted(c))
     IN  /\ ~HasMemory(Min({grown, Available}))
         /\ region' = [region EXCEPT !.next = grown]
  /\ Refused(c)
  /\ UNCHANGED <<heap, regions, inUse, extend, device, granted>>

\* RoundedBytes(bytes * kBackpedalFactor), the factor is 0.9.
Backpedal(bytes) == RoundedBytes((9 * bytes) \div 10)

\* Extend, the sub-allocator refuses for the first time: the loop begins.
StartBackpedal(c) ==
  /\ MustExtend(c) /\ Wanted(c) <= Available /\ ~region.backpedal
  /\ LET grown == Grown(region.next, Wanted(c))
         bytes == Min({grown, Available})
     IN  /\ ~HasMemory(bytes)
         /\ region' = [region EXCEPT !.next = grown, !.backpedal = TRUE]
         /\ extend' = [by |-> c, bytes |-> Backpedal(bytes), grew |-> grown > region.next]
  /\ UNCHANGED <<heap, regions, inUse, client, device, granted>>

\* A round of the loop: bytes is reduced after the call that grants the region too.
BackpedalGranted(c) ==
  /\ extend.by = c /\ extend.bytes > Wanted(c) /\ HasMemory(extend.bytes)
  /\ Extended(c, extend.bytes, Backpedal(extend.bytes),
              IF extend.grew THEN region.next ELSE 2 * region.next, TRUE)
  /\ extend' = NoExtend
  /\ UNCHANGED device

BackpedalRefused(c) ==
  /\ extend.by = c /\ extend.bytes > Wanted(c) /\ ~HasMemory(extend.bytes)
  /\ extend' = [extend EXCEPT !.bytes = Backpedal(@)]
  /\ UNCHANGED <<heap, regions, region, inUse, client, device, granted>>

BackpedalEnds(c) ==
  /\ extend.by = c /\ extend.bytes <= Wanted(c)
  /\ extend' = NoExtend
  /\ Refused(c)
  /\ UNCHANGED <<heap, regions, region, inUse, device, granted>>

\* Faulty: every wait has a deadline of its own.
WaitForMemoryAgain(c) ==
  /\ client[c].pc = "failed"
  /\ client' = [client EXCEPT ![c].pc = "waiting", ![c].deadline = "ahead"]
  /\ UNCHANGED <<heap, regions, region, inUse, extend, device, granted>>

\* AllocatorRetry::AllocateRaw after a failed try: before the deadline, which the
\* first failure sets, it waits; later it tries for the last time.
WaitForMemory(c) ==
  /\ client[c].pc = "failed" /\ client[c].deadline # "passed"
  /\ client' = [client EXCEPT ![c].pc = "waiting", ![c].deadline = "ahead"]
  /\ UNCHANGED <<heap, regions, region, inUse, extend, device, granted>>

LastTry(c) ==
  /\ client[c].pc = "failed" /\ client[c].deadline = "passed"
  /\ client' = [client EXCEPT ![c].pc = "final"]
  /\ UNCHANGED <<heap, regions, region, inUse, extend, device, granted>>

\* The clock reaches the deadline, which ends a wait.
DeadlinePasses(c) ==
  /\ client[c].deadline = "ahead"
  /\ client' = [client EXCEPT ![c].deadline = "passed",
                  ![c].pc = IF @ = "waiting" THEN "retry" ELSE @]
  /\ UNCHANGED <<heap, regions, region, inUse, extend, device, granted>>

-----------------------------------------------------------------------------
(* DeallocateRaw: the chunk is freed under lock_, then the waiters are     *)
(* notified.                                                               *)

DeallocateRaw(c) ==
  /\ client[c].pc = "holds" /\ LockFree
  /\ LET h == heap.handles[client[c].ptr]
     IN  /\ inUse' = inUse - heap.chunks[h].size
         /\ heap' = FreeAndMaybeCoalesce(heap, h)
  /\ client' = [client EXCEPT ![c] = [IdleClient EXCEPT !.pc = "notify"]]
  /\ UNCHANGED <<regions, region, extend, device, granted>>

\* memory_returned_.notify_all()
NotifyDealloc(c) ==
  /\ client[c].pc = "notify"
  /\ client' = [d \in Clients |->
       IF d = c THEN IdleClient
       ELSE IF client[d].pc = "waiting" THEN [client[d] EXCEPT !.pc = "retry"]
       ELSE client[d]]
  /\ UNCHANGED <<heap, regions, region, inUse, extend, device, granted>>

\* Other processes give memory of the device back.
OthersRelease ==
  /\ device' \in {d \in DeviceMemory : d > device}
  /\ UNCHANGED <<heap, regions, region, inUse, client, extend, granted>>

Work(c) ==
  \/ FindChunkPtr(c) \/ ExtendTooLarge(c) \/ Extend(c) \/ ExtendRefused(c)
  \/ StartBackpedal(c) \/ BackpedalGranted(c) \/ BackpedalRefused(c) \/ BackpedalEnds(c)
  \/ WaitForMemory(c) \/ LastTry(c) \/ NotifyDealloc(c)

Next ==
  \/ \E c \in Clients : AllocateRaw(c) \/ DeallocateRaw(c) \/ Work(c) \/ DeadlinePasses(c)
  \/ OthersRelease

\* When Work(c) can change something: the loop of Extend cannot at a size that the
\* device does not have and that the loop does not reduce.
CanWork(c) ==
  \/ Trying(c) \/ client[c].pc \in {"failed", "notify"}
  \/ /\ extend.by = c
     /\ \/ HasMemory(extend.bytes) \/ extend.bytes <= Wanted(c)
        \/ Backpedal(extend.bytes) # extend.bytes

\* A call that was made goes on (weak fairness of Work, its ENABLED spelled out) and
\* time passes; nobody has to call or to free.
Spec ==
  /\ Init /\ [][Next]_vars
  /\ \A c \in Clients : WF_vars(DeadlinePasses(c))
  /\ \A c \in Clients : []<>~CanWork(c) \/ []<><<Work(c)>>_vars

-----------------------------------------------------------------------------
(* Properties                                                              *)

Handles == 1..Len(heap.chunks)

\* The chunks that are part of a region.
Live == {heap.handles[p] : p \in DOMAIN heap.handles}

ChunkType ==
  [ptr : Nat, size : Nat, used : BOOLEAN,
   prev : Handles \cup {kInvalid}, next : Handles \cup {kInvalid},
   bin : 0..(NumBins - 1) \cup {NoBin}]

TypeOK ==
  /\ \A h \in Handles : heap.chunks[h] \in ChunkType
  /\ heap.free \in Handles \cup {kInvalid}
  /\ heap.bins \in [0..(NumBins - 1) -> SUBSET Handles]
  /\ Live \subseteq Handles
  /\ \A r \in regions \cup granted : r.ptr \in Nat /\ r.size \in Nat
  /\ \A r \in regions : r.size % MinAllocationSize = 0
  /\ region \in [next : Nat, total : Nat, backpedal : BOOLEAN]
  /\ inUse \in Nat /\ device \in DeviceMemory
  /\ client \in [Clients -> [pc : {"idle", "fast", "once", "retry", "failed", "waiting",
                                   "final", "holds", "notify"},
                             bytes : RequestSizes \cup {0}, ptr : Nat,
                             deadline : {"unset", "ahead", "passed"}]]
  /\ extend = NoExtend \/ extend.by \in Clients

Holders == {c \in Clients : client[c].pc = "holds"}

\* The bytes of a client end before those of another begin.
InFrontOf(c, d) == client[c].ptr + client[c].bytes <= client[d].ptr

\* The memory handed to a client belongs to no other client, and it lies in a
\* region that the sub-allocator granted.
MemoryIsExclusive ==
  /\ \A c, d \in Holders : c # d => InFrontOf(c, d) \/ InFrontOf(d, c)
  /\ \A c \in Holders : \E r \in granted :
       r.ptr <= client[c].ptr /\ client[c].ptr + client[c].bytes <= r.ptr + r.size

EndOf(h) == heap.chunks[h].ptr + heap.chunks[h].size

\* After any splits and merges the chunks of a region lie behind each other without
\* gap or overlap, doubly linked, and each is found by its address.
ChunksTile ==
  /\ \A r \in regions :
       \E h \in Live : heap.chunks[h].ptr = r.ptr /\ heap.chunks[h].prev = kInvalid
  /\ \A h \in Live :
       LET c == heap.chunks[h]
       IN  /\ c.size > 0 /\ heap.handles[c.ptr] = h
           /\ IF c.next = kInvalid
                THEN \E r \in regions : EndOf(h) = r.ptr + r.size
                ELSE /\ c.next \in Live /\ heap.chunks[c.next].ptr = EndOf(h)
                     /\ heap.chunks[c.next].prev = h

\* Freeing joins a chunk with its free neighbours: two free chunks of a region are
\* never next to each other.
Coalesced ==
  \A h \in Live : IsFree(heap, h) => ~IsFree(heap, heap.chunks[h].next)

\* The free chunks, and only they, are in a bin, in the one of their size, although
\* chunks grow and shrink: the search relies on it, and so do the CHECKs on bin_num.
BinsExact ==
  /\ \A h \in Live :
       heap.chunks[h].bin = IF IsFree(heap, h) THEN BinNumForSize(heap.chunks[h].size) ELSE NoBin
  /\ \A b \in DOMAIN heap.bins :
       heap.bins[b] = {h \in Live : heap.chunks[h].bin = b}

\* The handles in the list that starts at free_chunks_list_.
FreeList ==
  LET at[i \in 0..Len(heap.chunks)] ==
        IF i = 0 THEN heap.free
        ELSE IF at[i - 1] = kInvalid THEN kInvalid ELSE heap.chunks[at[i - 1]].next
  IN  {at[i] : i \in 0..Len(heap.chunks)} \ {kInvalid}

\* A chunk handle is in use for a part of a region or in the list of free handles:
\* none is lost, none is used twice.
HandlesAccounted == FreeList = Handles \ Live

UsedBytes ==
  MapThenSumSet(LAMBDA h : heap.chunks[h].size, {h \in Live : heap.chunks[h].used})

\* The statistics agree with the heap: bytes in use are those of the chunks that
\* are marked as used, which are the chunks the clients hold.
BytesInUseExact ==
  /\ inUse = UsedBytes
  /\ {heap.handles[client[c].ptr] : c \in Holders} = {h \in Live : heap.chunks[h].used}

\* A client gets what it asked for and less than twice the rounded size.
TightFit ==
  \A c \in Holders :
    LET size == heap.chunks[heap.handles[client[c].ptr]].size
    IN  client[c].bytes <= size /\ size < 2 * RoundedBytes(client[c].bytes)

FreeSizes(rounded) ==
  {heap.chunks[h].size : h \in {g \in Live : IsFree(heap, g) /\ heap.chunks[g].size >= rounded}}

\* The search over the bins finds the best fit: no free chunk of the whole heap that
\* is large enough is smaller than the one that is taken.
BestFit ==
  [][\A c \in Clients :
       (c \notin Holders /\ c \in Holders' /\ regions' = regions) =>
          heap.chunks[heap.handles[client'[c].ptr]].size
            = Min(FreeSizes(RoundedBytes(client[c].bytes)))]_vars

\* The regions stay within memory_limit_ however often the size is doubled; what the
\* sub-allocator granted does too, as long as the loop of Extend was not entered:
\* it records less than it was granted.
GrantedWithinLimit ==
  /\ region.total <= MemoryLimit
  /\ region.backpedal \/ NextAddress <= MemoryLimit

\* The heap is consistent whenever lock_ is free, after any sequence of allocations,
\* frees and extensions: chunks, neighbours, bins, handles, statistics and limits agree.
HeapConsistent ==
  /\ TypeOK
  /\ ChunksTile /\ Coalesced
  /\ BinsExact /\ HandlesAccounted
  /\ BytesInUseExact /\ TightFit
  /\ GrantedWithinLimit

Calling(c) == client[c].pc \in {"fast", "once", "retry", "failed", "waiting", "final"}

\* The loop of Extend asks for the same size again and again.
Spinning == extend # NoExtend /\ Backpedal(extend.bytes) = extend.bytes

\* Every allocation ends, with memory or without, within its deadline, unless the
\* loop of Extend stays for good at a size that it does not reduce any more.
CallsReturnUnlessSpinning ==
  \A c \in Clients : (Calling(c) ~> ~Calling(c)) \/ <>[]Spinning
=============================================================================
