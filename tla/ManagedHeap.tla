---------------------------- MODULE ManagedHeap ----------------------------
(***************************************************************************)
(* The heap half of the ProtoGC facade (src/src/ProtoGC.h): tasks that     *)
(* call heapAlloc, heapFree, heapRealloc and mallocTrim on the two managed *)
(* heaps and the list of fallback blocks.                                  *)
(*                                                                         *)
(* ProtoGC never calls pgc_malloc or pgc_free inside its critical section, *)
(* so every operation is cut where the section is left: a segment is       *)
(* created unlocked and linked locked, a trim detaches segments locked and *)
(* releases them unlocked.  Each critical section is one step, except that *)
(* of mallocTrim, whose loop over the segments is unfolded: the trimming   *)
(* task holds `lock` from TrimLock to TrimUnlock and the critical sections *)
(* of the other tasks wait, while their unlocked steps go on.              *)
(*                                                                         *)
(* The system heap is external: a set of cells, of which pgc_malloc hands  *)
(* out any one or fails.                                                   *)
(***************************************************************************)
EXTENDS HeapAllocator

CONSTANTS
    Tasks,            \* callers outside interrupt context
    NoTask,           \* nobody holds the critical section
    NoHeap,           \* a null HeapAllocator*
    ForeignCell,      \* memory that came from pgc_malloc, not from ProtoGC
    Sizes,            \* requested sizes
    RequestCaps,      \* requested capability sets
    Pads,             \* padBytes arguments of mallocTrim
    HeaderBytes,      \* sizeof(AllocationHeader)
    TrimBatch         \* kTrimBatch

ASSUME NoTaskAssumption == NoTask \notin Tasks
ASSUME ForeignAssumption == ForeignCell \notin Cells /\ ForeignCell # NoCell
ASSUME ArgumentAssumption ==
    /\ Sizes \subseteq Nat
    /\ RequestCaps \subseteq SUBSET Flags
    /\ Pads \subseteq Nat
    /\ HeaderBytes \in Nat
    /\ TrimBatch \in Nat \ {0}

Heaps == {"psram", "internal"}
ASSUME NoHeapAssumption == NoHeap \notin Heaps

VARIABLES
    heap,      \* sPsramHeap and sInternalHeap
    seg,       \* the memory of the segments
    fallback,  \* the list at sFallbackHead: cell |-> [size, caps]
    fallbackBlocks, fallbackBytes,   \* sFallbackBlocks, sFallbackBytes
    sys,       \* cells the system heap has not handed out
    held,      \* cells each task holds and no list does
    lock,      \* the task inside mallocTrim's critical section
    scan,      \* that task's position in trimUnlink
    pc, req,   \* each task's place in its call, and the call's arguments
    live       \* what the callers own: pointer |-> requested size

vars == <<heap, seg, fallback, fallbackBlocks, fallbackBytes,
          sys, held, lock, scan, pc, req, live>>

NoReq == [size |-> 0, caps |-> {}, ptr |-> NoPtr, to |-> NoPtr, heap |-> NoHeap]
NoScan == [heap |-> "psram", at |-> 1, releasable |-> 0, count |-> 0]
ForeignPtr == <<ForeignCell, 0>>

\* The capabilities begin gives the heaps, and those their requests may not name.
requiredCaps(hp) == {"8BIT", IF hp = "psram" THEN "SPIRAM" ELSE "INTERNAL"}
forbiddenCaps(hp) == {"DMA", "EXEC", IF hp = "psram" THEN "INTERNAL" ELSE "SPIRAM"}

Init ==
    /\ heap = [hp \in Heaps |-> NewAllocator(requiredCaps(hp), forbiddenCaps(hp))]
    /\ seg = [c \in Cells |-> NoSegment]
    /\ fallback = << >> /\ fallbackBlocks = 0 /\ fallbackBytes = 0
    /\ sys = Cells
    /\ held = [t \in Tasks |-> {}]
    /\ lock = NoTask /\ scan = NoScan
    /\ pc = [t \in Tasks |-> "idle"]
    /\ req = [t \in Tasks |-> NoReq]
    /\ live = << >>

-----------------------------------------------------------------------------
(* Helpers.                                                                *)

managedHeapForCaps(caps) ==
    IF {"DMA", "EXEC"} \cap caps # {} \/ ("SPIRAM" \in caps) = ("INTERNAL" \in caps)
    THEN NoHeap
    ELSE IF "SPIRAM" \in caps THEN "psram" ELSE "internal"

owningManagedHeap(p) ==
    IF owns(heap["psram"], seg, p) THEN "psram"
    ELSE IF owns(heap["internal"], seg, p) THEN "internal" ELSE NoHeap

FallbackPtr(c) == <<c, HeaderBytes>>
findFallbackHeader(p) == {c \in DOMAIN fallback : p = FallbackPtr(c)}

\* live without the pointer p; live with p for n bytes.
Without(p) == [q \in DOMAIN live \ {p} |-> live[q]]
With(owned, p, n) == [q \in DOMAIN owned \cup {p} |-> IF q = p THEN n ELSE owned[q]]

\* What a caller may pass: a pointer it owns and nobody else is operating on.
Usable == {p \in DOMAIN live : \A t \in Tasks : p # req[t].ptr /\ p # req[t].to}

Goto(t, l) == pc' = [pc EXCEPT ![t] = l]
Return(t) == Goto(t, "idle") /\ req' = [req EXCEPT ![t] = NoReq]
Unlocked == lock = NoTask
SetHeap(hp, r) == heap' = [heap EXCEPT ![hp] = r.h] /\ seg' = r.seg

\* heapAlloc returns p: to the caller, or to the heapRealloc that moves req.ptr.
Deliver(t, p) ==
    /\ live' = With(live, p, req[t].size)
    /\ IF req[t].ptr = NoPtr
       THEN Return(t)
       ELSE Goto(t, "free") /\ req' = [req EXCEPT ![t].to = p]

fallbackVars == <<fallback, fallbackBlocks, fallbackBytes>>
trimVars == <<lock, scan>>

-----------------------------------------------------------------------------
(* heapAlloc.                                                              *)

HeapAlloc(t, n, caps) ==
    /\ pc[t] = "idle"
    /\ Goto(t, "alloc")
    /\ req' = [req EXCEPT ![t] = [NoReq EXCEPT !.size = IF n = 0 THEN 1 ELSE n,
                                               !.caps = caps]]
    /\ UNCHANGED <<heap, seg, fallbackVars, sys, held, trimVars, live>>

\* The fast path, from the segments already linked.
AllocFast(t) ==
    /\ pc[t] = "alloc" /\ Unlocked
    /\ LET hp == managedHeapForCaps(req[t].caps)
           r == allocate(heap[hp], seg, req[t].size, req[t].caps)
       IN  IF hp = NoHeap
           THEN Goto(t, "raw") /\ UNCHANGED <<heap, seg, req, live>>
           ELSE IF r.ptr # NoPtr
           THEN SetHeap(hp, r) /\ Deliver(t, r.ptr)
           ELSE /\ Goto(t, "create")
                /\ req' = [req EXCEPT ![t].heap = hp]
                /\ UNCHANGED <<heap, seg, live>>
    /\ UNCHANGED <<fallbackVars, sys, held, trimVars>>

growthCaps(t) == IF pc[t] = "create" THEN req[t].caps
                                     ELSE heap[req[t].heap].requiredCaps

\* createSegment, unlocked: both of its attempts in one step.
CreateSegment(t) ==
    /\ pc[t] \in {"create", "growCreate"}
    /\ growthWithinCap(heap[req[t].heap], totalBytes(defaultPayload(req[t].size)))
    /\ \E c \in sys, payload \in segmentPayloads(req[t].size) :
         /\ seg' = [seg EXCEPT ![c] = newSegment(payload, growthCaps(t))]
         /\ sys' = sys \ {c}
         /\ held' = [held EXCEPT ![t] = {c}]
    /\ Goto(t, IF pc[t] = "create" THEN "link" ELSE "growLink")
    /\ UNCHANGED <<heap, fallbackVars, trimVars, req, live>>

\* createSegment returns nullptr: the cap, or both pgc_malloc calls fail.
\* heapAlloc goes on to the fallback, heapRealloc gives up.
CreateFails(t) ==
    /\ \/ pc[t] = "create" /\ Goto(t, "raw") /\ UNCHANGED req
       \/ pc[t] = "growCreate" /\ Return(t)
    /\ UNCHANGED <<heap, seg, fallbackVars, sys, held, trimVars, live>>

LinkSegment(t) ==
    /\ pc[t] = "link" /\ Unlocked
    /\ LET hp == req[t].heap
           c == CHOOSE c \in held[t] : TRUE
           r == allocate(linkSegment(heap[hp], seg, c), seg, req[t].size, req[t].caps)
       IN  /\ SetHeap(hp, r)
           /\ IF r.ptr # NoPtr THEN Deliver(t, r.ptr)
                               ELSE Goto(t, "raw") /\ UNCHANGED <<req, live>>
    /\ held' = [held EXCEPT ![t] = {}]
    /\ UNCHANGED <<fallbackVars, sys, trimVars>>

\* The fallback: a block of its own from pgc_malloc, unlocked...
RawAlloc(t) ==
    /\ pc[t] = "raw"
    /\ \/ \E c \in sys : /\ sys' = sys \ {c}
                         /\ held' = [held EXCEPT ![t] = {c}]
                         /\ Goto(t, "rawLink")
                         /\ UNCHANGED req
       \/ Return(t) /\ UNCHANGED <<sys, held>>
    /\ UNCHANGED <<heap, seg, fallbackVars, trimVars, live>>

\* ... then pushed on the list, locked.
RawLink(t) ==
    /\ pc[t] = "rawLink" /\ Unlocked
    /\ LET c == CHOOSE c \in held[t] : TRUE
       IN  /\ fallback' = With(fallback, c, [size |-> req[t].size, caps |-> req[t].caps])
           /\ Deliver(t, FallbackPtr(c))
    /\ fallbackBlocks' = fallbackBlocks + 1
    /\ fallbackBytes' = fallbackBytes + req[t].size
    /\ held' = [held EXCEPT ![t] = {}]
    /\ UNCHANGED <<heap, seg, sys, trimVars>>

-----------------------------------------------------------------------------
(* heapFree, called from a task (interrupt context defers it).             *)

HeapFree(t, p) ==
    /\ pc[t] = "idle"
    /\ Goto(t, "free")
    /\ req' = [req EXCEPT ![t] = [NoReq EXCEPT !.ptr = p]]
    /\ UNCHANGED <<heap, seg, fallbackVars, sys, held, trimVars, live>>

\* heapFreeBytes, first critical section: the managed heaps.
FreeManaged(t) ==
    /\ pc[t] = "free" /\ Unlocked
    /\ LET p == req[t].ptr
           hp == owningManagedHeap(p)
           r == deallocate(heap[hp], seg, p)
       IN  IF hp # NoHeap /\ r.ok
           THEN SetHeap(hp, r) /\ live' = Without(p) /\ Return(t)
           ELSE Goto(t, "freeFallback") /\ UNCHANGED <<heap, seg, req, live>>
    /\ UNCHANGED <<fallbackVars, sys, held, trimVars>>

\* FAULT: unlinks the header and returns without releasing it.
FreeFallbackLeaking(t) ==
    /\ pc[t] = "freeFallback" /\ Unlocked
    /\ LET found == findFallbackHeader(req[t].ptr)
       IN  /\ fallback' = [d \in DOMAIN fallback \ found |-> fallback[d]]
           /\ fallbackBlocks' = saturating(fallbackBlocks, Cardinality(found))
           /\ fallbackBytes' = saturating(fallbackBytes,
                                  MapThenSumSet(LAMBDA c : fallback[c].size, found))
           /\ live' = IF found = {} THEN live ELSE Without(req[t].ptr)
    /\ Return(t)
    /\ UNCHANGED <<heap, seg, sys, held, trimVars>>

\* Second critical section: unlink the fallback header, or not ours.
FreeFallback(t) ==
    /\ pc[t] = "freeFallback" /\ Unlocked
    /\ LET p == req[t].ptr
           found == findFallbackHeader(p)
           c == CHOOSE c \in found : TRUE
       IN  IF found = {}
           THEN Return(t) /\ UNCHANGED <<fallbackVars, held, live>>
           ELSE /\ fallback' = [d \in DOMAIN fallback \ {c} |-> fallback[d]]
                /\ fallbackBlocks' = saturating(fallbackBlocks, 1)
                /\ fallbackBytes' = saturating(fallbackBytes, fallback[c].size)
                /\ held' = [held EXCEPT ![t] = {c}]
                /\ live' = Without(p)
                /\ Goto(t, "release") /\ UNCHANGED req
    /\ UNCHANGED <<heap, seg, sys, trimVars>>

-----------------------------------------------------------------------------
(* heapRealloc of a pointer; with size 0 it is heapFree.                   *)

HeapRealloc(t, p, n) ==
    /\ pc[t] = "idle" /\ n > 0
    /\ Goto(t, "realloc")
    /\ req' = [req EXCEPT ![t] = [NoReq EXCEPT !.size = n, !.ptr = p]]
    /\ UNCHANGED <<heap, seg, fallbackVars, sys, held, trimVars, live>>

\* reallocate moved or resized the block: p is gone and q is the caller's.
Reallocated(t, q) == live' = With(Without(req[t].ptr), q, req[t].size) /\ Return(t)

ReallocFast(t) ==
    /\ pc[t] = "realloc" /\ Unlocked
    /\ LET p == req[t].ptr
           hp == owningManagedHeap(p)
           r == IF hp = NoHeap THEN [status |-> "NotOwned"]
                ELSE reallocate(heap[hp], seg, p, req[t].size, heap[hp].requiredCaps)
       IN  IF r.status = "Done"
           THEN SetHeap(hp, r) /\ Reallocated(t, r.ptr)
           ELSE /\ Goto(t, IF r.status = "NeedsGrowth" THEN "growCreate" ELSE "find")
                /\ req' = [req EXCEPT ![t].heap = hp]
                /\ UNCHANGED <<heap, seg, live>>
    /\ UNCHANGED <<fallbackVars, sys, held, trimVars>>

\* The retry on a fresh segment; if it is not Done, heapRealloc returns nullptr.
GrowLink(t) ==
    /\ pc[t] = "growLink" /\ Unlocked
    /\ LET hp == req[t].heap
           c == CHOOSE c \in held[t] : TRUE
           r == reallocate(linkSegment(heap[hp], seg, c), seg,
                           req[t].ptr, req[t].size, heap[hp].requiredCaps)
       IN  /\ SetHeap(hp, r)
           /\ IF r.status = "Done" THEN Reallocated(t, r.ptr)
                                   ELSE Return(t) /\ UNCHANGED live
    /\ held' = [held EXCEPT ![t] = {}]
    /\ UNCHANGED <<fallbackVars, sys, trimVars>>

\* A fallback block moves by heapAlloc with its own caps, then heapFree.
FindFallback(t) ==
    /\ pc[t] = "find" /\ Unlocked
    /\ LET found == findFallbackHeader(req[t].ptr)
       IN  IF found = {}
           THEN Return(t)
           ELSE /\ Goto(t, "alloc")
                /\ req' = [req EXCEPT ![t].caps = fallback[CHOOSE c \in found : TRUE].caps]
    /\ UNCHANGED <<heap, seg, fallbackVars, sys, held, trimVars, live>>

-----------------------------------------------------------------------------
(* mallocTrim, after its drain of the deferred frees.  req.size is padBytes. *)

MallocTrim(t, pad) ==
    /\ pc[t] = "idle"
    /\ Goto(t, "trim")
    /\ req' = [req EXCEPT ![t] = [NoReq EXCEPT !.size = pad]]
    /\ UNCHANGED <<heap, seg, fallbackVars, sys, held, trimVars, live>>

ScanOf(hp, count) ==
    [heap |-> hp, at |-> 1, releasable |-> heap[hp].freeBytes, count |-> count]

TrimLock(t) ==
    /\ pc[t] = "trim" /\ Unlocked
    /\ lock' = t
    /\ scan' = ScanOf("psram", 0)
    /\ Goto(t, "scan")
    /\ UNCHANGED <<heap, seg, fallbackVars, sys, held, req, live>>

\* FAULT: detaches past the end of the batch.
ScanningPastBatch == scan.at <= Len(heap[scan.heap].segments)
\* FAULT: stops before the last segment.
ScanningToLast == scan.at < Len(heap[scan.heap].segments) /\ scan.count < TrimBatch

Scanning == /\ scan.at <= Len(heap[scan.heap].segments)
            /\ scan.count < TrimBatch

\* One turn of trimUnlink's loop: detach the segment or step over it.
TrimVisit(t) ==
    /\ pc[t] = "scan" /\ Scanning
    /\ LET h == heap[scan.heap]
           c == h.segments[scan.at]
       IN  IF isTrimmable(seg, c, scan.releasable, req[t].size)
           THEN /\ heap' = [heap EXCEPT ![scan.heap] = unlinkSegment(h, seg, scan.at)]
                /\ held' = [held EXCEPT ![t] = @ \cup {c}]
                /\ scan' = [scan EXCEPT !.count = @ + 1,
                                        !.releasable = @ - seg[c].blk[FirstBlock].size]
           ELSE /\ scan' = [scan EXCEPT !.at = @ + 1]
                /\ UNCHANGED <<heap, held>>
    /\ UNCHANGED <<seg, fallbackVars, sys, lock, pc, req, live>>

TrimNextHeap(t) ==
    /\ pc[t] = "scan" /\ ~Scanning /\ scan.heap = "psram"
    /\ scan' = ScanOf("internal", scan.count)
    /\ UNCHANGED <<heap, seg, fallbackVars, sys, held, lock, pc, req, live>>

\* FAULT: takes a batch of one for an empty one.
TrimUnlockEarly(t) ==
    /\ pc[t] = "scan" /\ ~Scanning /\ scan.heap = "internal"
    /\ lock' = NoTask /\ scan' = NoScan
    /\ IF scan.count <= 1 THEN Return(t) ELSE Goto(t, "trimRelease") /\ UNCHANGED req
    /\ UNCHANGED <<heap, seg, fallbackVars, sys, held, live>>
\* FAULT: returns from inside the critical section when nothing was detached.
TrimUnlockNever(t) ==
    /\ pc[t] = "scan" /\ ~Scanning /\ scan.heap = "internal"
    /\ IF scan.count = 0
       THEN Return(t) /\ UNCHANGED trimVars
       ELSE Goto(t, "trimRelease") /\ lock' = NoTask /\ scan' = NoScan /\ UNCHANGED req
    /\ UNCHANGED <<heap, seg, fallbackVars, sys, held, live>>

\* Leave the critical section; with nothing detached the trim is over.
TrimUnlock(t) ==
    /\ pc[t] = "scan" /\ ~Scanning /\ scan.heap = "internal"
    /\ lock' = NoTask /\ scan' = NoScan
    /\ IF scan.count = 0 THEN Return(t) ELSE Goto(t, "trimRelease") /\ UNCHANGED req
    /\ UNCHANGED <<heap, seg, fallbackVars, sys, held, live>>

\* pgc_free of one cell, unlocked.  After the batch the trim tries again.
Release(t) ==
    /\ pc[t] \in {"release", "trimRelease"}
    /\ \E c \in held[t] :
         /\ held' = [held EXCEPT ![t] = @ \ {c}]
         /\ sys' = sys \cup {c}
         /\ seg' = [seg EXCEPT ![c] = NoSegment]
         /\ IF held[t] # {c} THEN UNCHANGED <<pc, req>>
            ELSE IF pc[t] = "trimRelease" THEN Goto(t, "trim") /\ UNCHANGED req
            ELSE Return(t)
    /\ UNCHANGED <<heap, fallbackVars, trimVars, live>>

-----------------------------------------------------------------------------
\* The calls a task may make...
Call(t) ==
    \/ \E n \in Sizes, caps \in RequestCaps : HeapAlloc(t, n, caps)
    \/ \E p \in Usable \cup {ForeignPtr} :
         \/ HeapFree(t, p)
         \/ \E n \in Sizes : HeapRealloc(t, p, n)
    \/ \E pad \in Pads : MallocTrim(t, pad)

\* ... and the steps it then takes.
Step(t) ==
    \/ AllocFast(t) \/ CreateSegment(t) \/ CreateFails(t) \/ LinkSegment(t)
    \/ RawAlloc(t) \/ RawLink(t)
    \/ FreeManaged(t) \/ FreeFallback(t)
    \/ ReallocFast(t) \/ GrowLink(t) \/ FindFallback(t)
    \/ TrimLock(t) \/ TrimVisit(t) \/ TrimNextHeap(t) \/ TrimUnlock(t)
    \/ Release(t)

Next == \E t \in Tasks : Call(t) \/ Step(t)

Spec == Init /\ [][Next]_vars
-----------------------------------------------------------------------------
(* Properties.                                                             *)

Linked(hp) == {heap[hp].segments[i] : i \in DOMAIN heap[hp].segments}
Blocks(c) == DOMAIN seg[c].blk
PtrType == (Cells \cup {NoCell, ForeignCell}) \X Nat
PcLabels == {"idle", "alloc", "create", "link", "raw", "rawLink", "free",
             "freeFallback", "release", "realloc", "growCreate", "growLink",
             "find", "trim", "scan", "trimRelease"}

ReqType == [size : Nat, caps : SUBSET Flags, ptr : PtrType, to : PtrType,
            heap : Heaps \cup {NoHeap}]
ScanType == [heap : Heaps, at : Nat \ {0}, releasable : Int, count : 0..TrimBatch]

MemoryType ==
    /\ heap \in [Heaps -> AllocatorType]
    /\ DOMAIN seg = Cells
    /\ \A c \in Cells : /\ DOMAIN seg[c] = {"total", "caps", "blk"}
                        /\ seg[c].total \in Nat /\ seg[c].caps \subseteq Flags
    /\ DOMAIN fallback \subseteq Cells
    /\ \A c \in DOMAIN fallback : fallback[c].size \in Nat /\ fallback[c].caps \subseteq Flags
    /\ fallbackBlocks \in Int /\ fallbackBytes \in Int
    /\ sys \subseteq Cells
    /\ held \in [Tasks -> SUBSET Cells]

CallType ==
    /\ lock \in Tasks \cup {NoTask}
    /\ scan \in ScanType
    /\ pc \in [Tasks -> PcLabels]
    /\ req \in [Tasks -> ReqType]
    /\ DOMAIN live \subseteq Cells \X Nat
    /\ \A p \in DOMAIN live : live[p] \in Nat

TypeOK == MemoryType /\ CallType

HandsMatch(t) ==
    /\ held[t] # {} => pc[t] \in {"link", "growLink", "rawLink", "release", "scan", "trimRelease"}
    /\ pc[t] \in {"link", "growLink", "rawLink", "release"} => \E c \in Cells : held[t] = {c}
    /\ pc[t] = "trimRelease" => held[t] # {}
    /\ pc[t] \in {"create", "link", "growCreate", "growLink"} => req[t].heap # NoHeap
    /\ pc[t] \in {"link", "growLink"} => \A c \in held[t] : seg[c] # NoSegment
    /\ pc[t] = "scan" <=> lock = t
    /\ lock = t => (scan.count = 0 <=> held[t] = {})

\* A task holds memory only while it is between the two critical sections of
\* one call, and never comes to a linking or releasing step empty-handed; the
\* memory it is about to link, like every linked cell, was formatted as a
\* segment; and the section belongs to the task that is scanning, if any does.
Coherent ==
    /\ \A t \in Tasks : HandsMatch(t)
    /\ \A hp \in Heaps : \A c \in Linked(hp) : seg[c] # NoSegment

\* Every cell of the system heap is in exactly one place: not handed out, a
\* segment of one of the heaps, a fallback block, or in the hands of one task
\* between two critical sections.  Nothing is leaked by the two-phase growth
\* and trim of ProtoGC.h:376-413 and 645-704, and nothing is released twice.
CellsPartitioned ==
    /\ \A c \in Cells :
         \/ c \in sys
         \/ c \in DOMAIN fallback
         \/ \E hp \in Heaps : c \in Linked(hp)
         \/ \E t \in Tasks : c \in held[t]
    /\ sys \cap DOMAIN fallback = {}
    /\ \A hp \in Heaps : Linked(hp) \cap (sys \cup DOMAIN fallback) = {}
    /\ Linked("psram") \cap Linked("internal") = {}
    /\ \A t \in Tasks :
         /\ held[t] \cap (sys \cup DOMAIN fallback) = {}
         /\ \A hp \in Heaps : held[t] \cap Linked(hp) = {}
         /\ \A u \in Tasks \ {t} : held[t] \cap held[u] = {}

\* The segment list holds no segment twice, and the roving search hint never
\* dangles: it is null or a segment still linked (HeapAllocator.h:397-400),
\* whatever trims ran since it was set.
HintLinked == \A hp \in Heaps : ListSound(heap[hp])

\* The blocks of a segment, linked or not, tile its payload exactly, their prev
\* and next links agree, and no two neighbours are both free (splitBlock,
\* shrinkBlock and coalesce, HeapAllocator.h:455-521).
BlocksTile ==
    \A c \in Cells : seg[c] # NoSegment =>
        Tiles(seg[c].blk, seg[c].total) /\ Coalesced(seg[c].blk)

\* Every block begins at a multiple of the alignment and is a multiple of it
\* long, through every split, merge, resize and growth: the pointers heapAlloc
\* returns suit any type, and no block has bytes that a request rounded up to
\* the alignment cannot use (HeapAllocator.h:82, 123, 199, 209, 349-354).
BlocksAligned ==
    \A c \in Cells : \A o \in Blocks(c) :
        alignUp(o) = o /\ alignUp(seg[c].blk[o].size) = seg[c].blk[o].size

\* The pointers the callers own are exactly the used blocks of the linked
\* segments and the fallback blocks: no call frees another's block, and no
\* block is lost when a call fails half way.
LiveExact ==
    DOMAIN live =
        (UNION {{<<c, o>> : o \in {o \in Blocks(c) : ~seg[c].blk[o].free}} :
                c \in Linked("psram") \cup Linked("internal")})
        \cup {FallbackPtr(c) : c \in DOMAIN fallback}

\* The bytes of the used or of the free blocks, of a segment and of a heap.
blockSizes(c) == [o \in Blocks(c) |-> seg[c].blk[o].size]
bytesOf(c, isFree) ==
    SumFunctionOnSet(blockSizes(c), {o \in Blocks(c) : seg[c].blk[o].free = isFree})
sizesOf(hp, isFree) ==
    SumFunctionOnSet([c \in Linked(hp) |-> bytesOf(c, isFree)], Linked(hp))
segmentTotals == [c \in Cells |-> seg[c].total]
fallbackSizes == [c \in DOMAIN fallback |-> fallback[c].size]

\* The counters behind stats(), which trimUnlink's pad test also relies on,
\* equal what a walk over the segments and the fallback list would compute
\* (HeapAllocator.h:89-92, 150-153, 238-240, 394-396, 472, 493-494, 512, 519).
CountersExact ==
    /\ \A hp \in Heaps :
         /\ heap[hp].segmentCount = Cardinality(Linked(hp))
         /\ heap[hp].segmentBytes = SumFunctionOnSet(segmentTotals, Linked(hp))
         /\ heap[hp].usedBytes = sizesOf(hp, FALSE)
         /\ heap[hp].freeBytes = sizesOf(hp, TRUE)
         /\ heap[hp].allocationCount = Cardinality({p \in DOMAIN live : p[1] \in Linked(hp)})
    /\ fallbackBlocks = Cardinality(DOMAIN fallback)
    /\ fallbackBytes = SumFunctionOnSet(fallbackSizes, DOMAIN fallback)

\* For capabilities the heap accepts, heapAlloc grows it only when no linked
\* segment of the requested kind has a free block that is large enough: the
\* roving search misses none (HeapAllocator.h:403-433), wherever the hint
\* stands, and rounding the size up loses none.
SearchComplete ==
    [][\A t \in Tasks :
         LET hp == managedHeapForCaps(req[t].caps)
         IN  pc[t] = "alloc" /\ pc'[t] = "create" /\ isEligibleCaps(heap[hp], req[t].caps) =>
               \A c \in Linked(hp) : \A o \in Blocks(c) :
                   seg[c].blk[o].free /\ req[t].caps \subseteq seg[c].caps
                      => seg[c].blk[o].size < req[t].size]_vars

\* "Growth paths then succeed" (HeapAllocator.h:102): the critical section
\* that links a fresh segment also serves the request it was created for, for
\* a caller of heapAlloc whose capabilities the heap accepts and for every
\* caller of heapRealloc.
GrowthServes ==
    [][\A t \in Tasks :
         /\ pc[t] = "growLink" /\ pc'[t] # pc[t] =>
              req[t].ptr \notin DOMAIN live' \/ live'[req[t].ptr] = req[t].size
         /\ pc[t] = "link" /\ isEligibleCaps(heap[req[t].heap], req[t].caps) => pc'[t] # "raw"]_vars

\* mallocTrim leaves padBytes free in every heap it takes segments from, and
\* never detaches a segment that holds a live pointer (ProtoGC.h:645-704).
TrimSafe ==
    [][\A hp \in Heaps, c \in Cells :
         c \in Linked(hp) /\ c \notin Linked(hp)' =>
             /\ heap'[hp].freeBytes >= req[lock].size
             /\ \A p \in DOMAIN live : p[1] # c]_vars

\* A trim that returns has left no segment it could have released: of each
\* heap, the ones entirely free are needed for the pad.
TrimThorough ==
    [][lock # NoTask /\ lock' = NoTask /\ pc'[lock] = "idle" =>
         \A hp \in Heaps : \A c \in Linked(hp) :
             ~isTrimmable(seg, c, heap[hp].freeBytes, req[lock].size)]_vars

\* The heap keeps the promise of HeapContract: a live pointer's range is that
\* of its used block, or of its fallback block; a pointer whose memory is gone
\* has none.
extentOf(p) ==
    LET size == IF p[1] \in DOMAIN fallback THEN fallback[p[1]].size
                ELSE IF p[2] \in Blocks(p[1]) THEN seg[p[1]].blk[p[2]].size ELSE 0
    IN  [cell |-> p[1], lo |-> p[2], hi |-> p[2] + size]

Contract == INSTANCE HeapContract
              WITH extent <- [p \in DOMAIN live |-> extentOf(p)]
KeepsContract == Contract!ContractSpec

\* "Leave it linked (it will serve future allocations)" (ProtoGC.h:388-390):
\* a segment that stays linked carries the capabilities every request must name
\* to be served by its heap.  A request for SPIRAM alone is sent to the PSRAM
\* heap but not accepted by it, and the segment it grew can serve nobody.
LinkedSegmentServes ==
    \A hp \in Heaps : \A c \in Linked(hp) : heap[hp].requiredCaps \subseteq seg[c].caps

\* "Any growth that would push mSegmentBytes past it fails cleanly"
\* (HeapAllocator.h:56-62); the first segment is always allowed.
CapKept ==
    \A hp \in Heaps :
        \/ MaxSegmentBytes = 0 \/ heap[hp].segmentCount <= 1
        \/ heap[hp].segmentBytes <= MaxSegmentBytes

-----------------------------------------------------------------------------
(* Fairness: a task inside a call keeps running, and the critical section  *)
(* (an interrupt mask or a spinlock) is granted to everyone who waits.     *)

Running(t) == CreateSegment(t) \/ CreateFails(t) \/ RawAlloc(t) \/ Release(t)
              \/ TrimVisit(t) \/ TrimNextHeap(t) \/ TrimUnlock(t)

\* Every step that enters the critical section leaves its label.  It is enabled
\* whenever the section is free, so the fairness is stated on pc alone.
Waiting == {"alloc", "link", "rawLink", "free", "freeFallback", "realloc",
            "growLink", "find", "trim"}
Granted(t) == /\ pc[t] \in Waiting /\ Unlocked
              /\ \E l \in PcLabels \ {pc[t]} : Goto(t, l)

FairSpec == Spec /\ \A t \in Tasks : WF_vars(Running(t)) /\ SF_pc(Granted(t))

\* Every call returns.  A trim repeats its passes while it finds segments, so
\* it may go on as long as other tasks keep growing the heaps.
CallsReturn ==
    \A t \in Tasks :
        \/ []<>(pc[t] = "idle")
        \/ []<>(pc[t] = "trim") /\ \E u \in Tasks \ {t} : []<>(pc[u] \in {"link", "growLink"})
=============================================================================
