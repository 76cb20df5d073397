--------------------------- MODULE HeapAllocator ---------------------------
(***************************************************************************)
(* The segmented coalescing heap of src/src/HeapAllocator.h, one operator  *)
(* per method, over two values the callers keep:                           *)
(*                                                                         *)
(*   h    an allocator object: its list of segments (mHead first), the     *)
(*        roving search hint, the counters behind stats() and the          *)
(*        capabilities it was begun with;                                  *)
(*   seg  the memory of the segments: seg[c] holds what createSegment      *)
(*        wrote into the system-heap block (the "cell") c.                 *)
(*                                                                         *)
(* A block is named by the offset of its payload in its cell, so a pointer *)
(* is <<cell, offset>> and the address arithmetic of payload() and of the  *)
(* splits stays visible.  The blocks of a segment keep the prev and next   *)
(* links of BlockHeader.  Magic numbers, the statistics nobody reads back  *)
(* (peaks, trimReleased) and the payload bytes are left out.  Sizes are    *)
(* assumed to be far from SIZE_MAX, so alignUp does not wrap.              *)
(*                                                                         *)
(* A definition marked FAULT is the one after it with a slip in it; no     *)
(* specification uses it.  README.md says which property notices it.       *)
(***************************************************************************)
EXTENDS Integers, Sequences, FiniteSets, SequencesExt

CONSTANTS
    Cells,                \* blocks the system heap (pgc_malloc) can hand out
    Alignment,            \* kAlignment
    SegmentHeaderBytes,   \* segmentHeaderBytes()
    BlockHeaderBytes,     \* blockHeaderBytes()
    MinSplitBytes,        \* PROTOGC_HEAP_MIN_SPLIT_BYTES
    DefaultSegmentBytes,  \* mDefaultSegmentBytes, as begin() leaves it
    MaxSegmentBytes,      \* mMaxSegmentBytes: 0 is unlimited
    NoCell                \* a null SegmentHeader*

ASSUME AlignmentAssumption == Alignment \in Nat \ {0}
ASSUME HeaderAssumption ==
    /\ SegmentHeaderBytes \in Nat \ {0}
    /\ BlockHeaderBytes \in Nat \ {0}
    /\ MinSplitBytes \in Nat
ASSUME SegmentAssumption ==
    /\ DefaultSegmentBytes \in Nat
    /\ MaxSegmentBytes \in Nat
ASSUME NoCellAssumption == NoCell \notin Cells

Flags == {"SPIRAM", "INTERNAL", "8BIT", "DMA", "EXEC"}

\* FAULT: rounds down.
alignDown(n) == (n \div Alignment) * Alignment

alignUp(n) == ((n + Alignment - 1) \div Alignment) * Alignment

\* Both header sizes are what alignUp makes of a sizeof.
ASSUME HeaderAlignment ==
    /\ alignUp(SegmentHeaderBytes) = SegmentHeaderBytes
    /\ alignUp(BlockHeaderBytes) = BlockHeaderBytes

FirstBlock == SegmentHeaderBytes + BlockHeaderBytes
NoBlock == 0                          \* a null BlockHeader*: below FirstBlock
NoPtr == <<NoCell, 0>>                \* nullptr

NewAllocator(requiredCaps, forbiddenCaps) ==
    [segments |-> << >>, hint |-> NoCell,
     segmentCount |-> 0, segmentBytes |-> 0,
     usedBytes |-> 0, freeBytes |-> 0, allocationCount |-> 0,
     requiredCaps |-> requiredCaps, forbiddenCaps |-> forbiddenCaps]

\* The content of a cell that holds no segment.
NoSegment == [total |-> 0, caps |-> {}, blk |-> << >>]

\* The saturating subtractions of the counters.
saturating(a, b) == IF a >= b THEN a - b ELSE 0

isEligibleCaps(h, caps) ==
    /\ h.requiredCaps \subseteq caps
    /\ h.forbiddenCaps \cap caps = {}

-----------------------------------------------------------------------------
(* The blocks of one segment: blk[o] is the header of the block at o.      *)

canSplit(size, wanted) == size >= wanted + BlockHeaderBytes + MinSplitBytes

\* Cut the block at o after its first `wanted` bytes; the rest becomes a free
\* block of its own, linked in behind it.
splitAt(blk, o, wanted) ==
    LET rest == o + wanted + BlockHeaderBytes
    IN  [p \in DOMAIN blk \cup {rest} |->
           CASE p = o -> [blk[o] EXCEPT !.size = wanted, !.next = rest]
             [] p = rest -> [size |-> blk[o].size - wanted - BlockHeaderBytes,
                             free |-> TRUE, prev |-> o, next |-> blk[o].next]
             [] p = blk[o].next -> [blk[p] EXCEPT !.prev = rest]
             [] OTHER -> blk[p]]

\* FAULT: the block after the absorbed one keeps its old prev.
absorbNextUnlinked(blk, o) ==
    LET n == blk[o].next
    IN  [p \in DOMAIN blk \ {n} |->
           IF p = o THEN [blk[o] EXCEPT !.size = @ + BlockHeaderBytes + blk[n].size,
                                        !.next = blk[n].next]
           ELSE blk[p]]

\* The block at o swallows its successor (unlinkNextBlock and the size sum).
absorbNext(blk, o) ==
    LET n == blk[o].next
    IN  [p \in DOMAIN blk \ {n} |->
           CASE p = o -> [blk[o] EXCEPT !.size = @ + BlockHeaderBytes + blk[n].size,
                                        !.next = blk[n].next]
             [] p = blk[n].next -> [blk[p] EXCEPT !.prev = o]
             [] OTHER -> blk[p]]

freeAt(blk, o) == o # NoBlock /\ blk[o].free

\* Merge a free block with its successor and then with its predecessor.
coalesce(blk, o) ==
    LET joined == IF freeAt(blk, blk[o].next) THEN absorbNext(blk, o) ELSE blk
    IN  IF freeAt(joined, joined[o].prev)
        THEN absorbNext(joined, joined[o].prev) ELSE joined

\* FAULT: forgets the header gained by the merge with the predecessor.
coalesceGainNext(blk, o) == IF freeAt(blk, blk[o].next) THEN BlockHeaderBytes ELSE 0

\* What coalesce adds to mFreeBytes: one header for each merge.
coalesceGain(blk, o) ==
    (IF freeAt(blk, blk[o].next) THEN BlockHeaderBytes ELSE 0)
    + (IF freeAt(blk, blk[o].prev) THEN BlockHeaderBytes ELSE 0)

-----------------------------------------------------------------------------
(* Searching the segments.                                                 *)

owns(h, seg, p) ==
    /\ \E i \in DOMAIN h.segments : h.segments[i] = p[1]
    /\ p[2] \in DOMAIN seg[p[1]].blk

segmentSatisfiesCaps(seg, c, caps) == caps \subseteq seg[c].caps

fits(seg, c, size) ==
    {o \in DOMAIN seg[c].blk : seg[c].blk[o].free /\ seg[c].blk[o].size >= size}

\* Best fit within a segment: the smallest, the earliest of equal ones.
bestFit(seg, c, size) ==
    CHOOSE o \in fits(seg, c, size) :
        \A q \in fits(seg, c, size) :
            \/ seg[c].blk[o].size < seg[c].blk[q].size
            \/ seg[c].blk[o].size = seg[c].blk[q].size /\ o <= q

\* FAULT: searches from the hint to the end and does not wrap.
servingFromHint(h, seg, size, caps) ==
    {i \in DOMAIN h.segments : /\ segmentSatisfiesCaps(seg, h.segments[i], caps)
                               /\ fits(seg, h.segments[i], size) # {}
                               /\ \A j \in DOMAIN h.segments : h.segments[j] = h.hint => j <= i}

\* Positions of the list that hold a segment able to serve the request.
servingPositions(h, seg, size, caps) ==
    {i \in DOMAIN h.segments : /\ segmentSatisfiesCaps(seg, h.segments[i], caps)
                               /\ fits(seg, h.segments[i], size) # {}}

\* The search starts at the hint (at the head without one) and wraps once:
\* how many segments it visits before position i.
visitedBefore(h, i) ==
    LET start == IF h.hint = NoCell THEN 1
                 ELSE CHOOSE k \in DOMAIN h.segments : h.segments[k] = h.hint
    IN  IF i >= start THEN i - start ELSE i - start + Len(h.segments)

findFreeBlock(h, seg, size, caps) ==
    LET serving == servingPositions(h, seg, size, caps)
        first == CHOOSE i \in serving :
                   \A j \in serving : visitedBefore(h, i) <= visitedBefore(h, j)
    IN  IF serving = {} THEN NoPtr
        ELSE <<h.segments[first], bestFit(seg, h.segments[first], size)>>

-----------------------------------------------------------------------------
(* allocate, deallocate, reallocate: they return the new h and seg with    *)
(* the result of the call.                                                 *)

\* Take the free block at p: splitBlock, then mark it used and account for it.
takeBlock(h, seg, p, size) ==
    LET blk == seg[p[1]].blk
        split == canSplit(blk[p[2]].size, size)
        cut == IF split THEN splitAt(blk, p[2], size) ELSE blk
        left == h.freeBytes - (IF split THEN BlockHeaderBytes ELSE 0)
    IN  [h |-> [h EXCEPT !.usedBytes = @ + cut[p[2]].size,
                         !.freeBytes = saturating(left, cut[p[2]].size),
                         !.allocationCount = @ + 1,
                         !.hint = p[1]],
         seg |-> [seg EXCEPT ![p[1]].blk = [cut EXCEPT ![p[2]].free = FALSE]],
         ptr |-> p]

allocate(h, seg, n, caps) ==
    LET size == alignUp(IF n = 0 THEN 1 ELSE n)
        p == findFreeBlock(h, seg, size, caps)
    IN  IF isEligibleCaps(h, caps) /\ p # NoPtr
        THEN takeBlock(h, seg, p, size)
        ELSE [h |-> h, seg |-> seg, ptr |-> NoPtr]

\* ok is deallocate's result: FALSE for a pointer that is no used block.
deallocate(h, seg, p) ==
    LET freed == [seg[p[1]].blk EXCEPT ![p[2]].free = TRUE]
        size == freed[p[2]].size
    IN  IF ~owns(h, seg, p) \/ seg[p[1]].blk[p[2]].free
        THEN [ok |-> FALSE, h |-> h, seg |-> seg]
        ELSE [ok |-> TRUE,
              h |-> [h EXCEPT !.usedBytes = saturating(@, size),
                              !.freeBytes = @ + size + coalesceGain(freed, p[2]),
                              !.allocationCount = saturating(@, 1)],
              seg |-> [seg EXCEPT ![p[1]].blk = coalesce(freed, p[2])]]

\* shrinkBlock: the tail of the block becomes free and is coalesced.
shrinkBlock(h, seg, p, size) ==
    LET blk == seg[p[1]].blk
        old == blk[p[2]].size
        rest == p[2] + size + BlockHeaderBytes
        cut == splitAt(blk, p[2], size)
    IN  IF old <= size \/ ~canSplit(old, size)
        THEN [status |-> "Done", h |-> h, seg |-> seg, ptr |-> p]
        ELSE [status |-> "Done",
              h |-> [h EXCEPT !.usedBytes = @ - (old - size),
                              !.freeBytes = @ + cut[rest].size + coalesceGain(cut, rest)],
              seg |-> [seg EXCEPT ![p[1]].blk = coalesce(cut, rest)],
              ptr |-> p]

\* FAULT: the old block is not given back.
moveBlockLeaking(h, seg, p, size, caps) ==
    LET new == allocate(h, seg, size, caps)
    IN  IF new.ptr = NoPtr
        THEN [status |-> "NeedsGrowth", h |-> h, seg |-> seg, ptr |-> NoPtr]
        ELSE [status |-> "Done", h |-> new.h, seg |-> new.seg, ptr |-> new.ptr]

\* Move a used block that is too small: allocate, copy, deallocate.
moveBlock(h, seg, p, size, caps) ==
    LET new == allocate(h, seg, size, caps)
        old == deallocate(new.h, new.seg, p)
    IN  IF new.ptr = NoPtr
        THEN [status |-> "NeedsGrowth", h |-> h, seg |-> seg, ptr |-> NoPtr]
        ELSE [status |-> "Done", h |-> old.h, seg |-> old.seg, ptr |-> new.ptr]

\* FAULT: resizes to n bytes as they are.
reallocateUnaligned(h, seg, p, n, caps) ==
    IF ~owns(h, seg, p) \/ seg[p[1]].blk[p[2]].free
    THEN [status |-> "NotOwned", h |-> h, seg |-> seg, ptr |-> NoPtr]
    ELSE IF seg[p[1]].blk[p[2]].size >= n
         THEN shrinkBlock(h, seg, p, n)
         ELSE moveBlock(h, seg, p, n, caps)

\* reallocate for a pointer and a size that are not null.
reallocate(h, seg, p, n, caps) ==
    LET size == alignUp(n)
    IN  IF ~owns(h, seg, p) \/ seg[p[1]].blk[p[2]].free
        THEN [status |-> "NotOwned", h |-> h, seg |-> seg, ptr |-> NoPtr]
        ELSE IF seg[p[1]].blk[p[2]].size >= size
             THEN shrinkBlock(h, seg, p, size)
             ELSE moveBlock(h, seg, p, size, caps)

-----------------------------------------------------------------------------
(* Two-phase growth and trimming.                                          *)

totalBytes(payload) == SegmentHeaderBytes + BlockHeaderBytes + payload

\* The payload createSegment asks for first, and the one it retries with.
defaultPayload(n) == alignUp(IF n > DefaultSegmentBytes THEN n ELSE DefaultSegmentBytes)
\* FAULT: the retry asks for n bytes as they are.
segmentPayloadsUnaligned(n) ==
    {defaultPayload(n)} \cup (IF defaultPayload(n) > n THEN {n} ELSE {})
segmentPayloads(n) ==
    {defaultPayload(n)} \cup (IF defaultPayload(n) > n THEN {alignUp(n)} ELSE {})

growthWithinCap(h, total) ==
    \/ MaxSegmentBytes = 0
    \/ h.segmentCount = 0
    \/ h.segmentBytes < MaxSegmentBytes /\ total <= MaxSegmentBytes - h.segmentBytes

\* What createSegment writes: one free block over the whole payload.
newSegment(payload, caps) ==
    [total |-> totalBytes(payload), caps |-> caps,
     blk |-> [o \in {FirstBlock} |->
                [size |-> payload, free |-> TRUE, prev |-> NoBlock, next |-> NoBlock]]]

linkSegment(h, seg, c) ==
    [h EXCEPT !.segments = <<c>> \o @,
              !.segmentCount = @ + 1,
              !.segmentBytes = @ + seg[c].total,
              !.freeBytes = @ + seg[c].blk[FirstBlock].size]

\* FAULT: the roving hint still names the detached segment.
unlinkSegmentKeepingHint(h, seg, i) ==
    LET c == h.segments[i]
    IN  [h EXCEPT !.segments = RemoveAt(@, i),
                  !.segmentCount = saturating(@, 1),
                  !.segmentBytes = saturating(@, seg[c].total),
                  !.freeBytes = saturating(@, seg[c].blk[FirstBlock].size)]

\* FAULT: the detached bytes still count as free.
unlinkSegmentStillFree(h, seg, i) ==
    LET c == h.segments[i]
    IN  [h EXCEPT !.segments = RemoveAt(@, i),
                  !.segmentCount = saturating(@, 1),
                  !.segmentBytes = saturating(@, seg[c].total),
                  !.hint = NoCell]

unlinkSegment(h, seg, i) ==
    LET c == h.segments[i]
        rest == RemoveAt(h.segments, i)
        payload == seg[c].blk[FirstBlock].size
    IN  [h EXCEPT !.segments = rest,
                  !.segmentCount = saturating(@, 1),
                  !.segmentBytes = IF @ >= seg[c].total THEN @ - seg[c].total ELSE @,
                  !.freeBytes = IF @ >= payload THEN @ - payload ELSE @,
                  !.hint = IF @ # c THEN @
                           ELSE IF i < Len(h.segments) THEN h.segments[i + 1]
                           ELSE IF rest = << >> THEN NoCell ELSE rest[1]]

\* FAULT: asks only whether the first block is free.
firstBlockFree(seg, c) == seg[c].blk[FirstBlock].free

segmentIsCompletelyFree(seg, c) ==
    LET first == seg[c].blk[FirstBlock]
    IN  first.free /\ first.prev = NoBlock /\ first.next = NoBlock

\* FAULT: tests the free bytes before the segment goes, not after.
isTrimmableBefore(seg, c, releasable, pad) ==
    segmentIsCompletelyFree(seg, c) /\ releasable > pad

\* trimUnlink's test of one segment, with `releasable` free bytes left.
isTrimmable(seg, c, releasable, pad) ==
    /\ segmentIsCompletelyFree(seg, c)
    /\ releasable > pad
    /\ releasable - seg[c].blk[FirstBlock].size >= pad

-----------------------------------------------------------------------------
(* The shape of the data.                                                  *)

AllocatorType ==
    [segments : Seq(Cells), hint : Cells \cup {NoCell},
     segmentCount : Int, segmentBytes : Int,
     usedBytes : Int, freeBytes : Int, allocationCount : Int,
     requiredCaps : SUBSET Flags, forbiddenCaps : SUBSET Flags]

BlockType == [size : Nat, free : BOOLEAN, prev : Nat, next : Nat]

\* What unlinks and searches rely on: no segment is listed twice and the hint is
\* null or one of the listed segments.
ListSound(h) ==
    /\ \A i, j \in DOMAIN h.segments : h.segments[i] = h.segments[j] => i = j
    /\ h.hint = NoCell \/ \E i \in DOMAIN h.segments : h.segments[i] = h.hint

\* The blocks tile the payload from the first block to the end of the segment,
\* without overlap, and the prev and next links of neighbours agree.
Tiles(blk, total) ==
    /\ FirstBlock \in DOMAIN blk
    /\ \A o \in DOMAIN blk :
         /\ o \in Nat /\ o >= FirstBlock
         /\ blk[o] \in BlockType
         /\ IF o = FirstBlock THEN blk[o].prev = NoBlock
            ELSE blk[o].prev \in DOMAIN blk /\ blk[blk[o].prev].next = o
         /\ IF blk[o].next = NoBlock THEN o + blk[o].size = total
            ELSE /\ blk[o].next \in DOMAIN blk
                 /\ blk[o].next = o + blk[o].size + BlockHeaderBytes
                 /\ blk[blk[o].next].prev = o
         /\ \A q \in DOMAIN blk : o < q => o + blk[o].size + BlockHeaderBytes <= q

\* coalesce leaves no free block next to a free block.
Coalesced(blk) == \A o \in DOMAIN blk : blk[o].free => ~freeAt(blk, blk[o].next)
=============================================================================
