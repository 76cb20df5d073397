--------------------------- MODULE PoolAllocator ---------------------------
(***************************************************************************)
(* One fixed-size pool of src/src/PoolAllocator.h, one operator per method *)
(* over the value of the pool object.  The free list keeps its order, as   *)
(* the linked nodes in the free blocks do; mAllocated is the set of the    *)
(* bits that are set.  A block is named by its index, so a pointer is      *)
(* <<buffer, index>>.  mPeakCount is a statistic and is left out.          *)
(*                                                                         *)
(* A definition marked FAULT is the one after it with a slip in it; no     *)
(* specification uses it.  README.md says which property notices it.       *)
(***************************************************************************)
EXTENDS Integers, Sequences, FiniteSets

CONSTANTS
    BlockCount,   \* BlockCount of the template
    NoBuffer      \* a null mBuffer

ASSUME BlockCountAssumption == BlockCount \in Nat \ {0}

Slots == 0..(BlockCount - 1)
NoPtr == <<NoBuffer, 0>>      \* nullptr

\* The constructor: an unbacked pool.
Unbacked == [buffer |-> NoBuffer, freeList |-> << >>, allocated |-> {}, allocCount |-> 0]

\* buildFreeList: every block, in the order of addresses.
wholeList == [i \in 1..BlockCount |-> i - 1]

isReady(p) == p.buffer # NoBuffer

\* attachBacking of a buffer that is not null, to a pool that is not backed.
attachBacking(p, buffer) ==
    [p EXCEPT !.buffer = buffer, !.allocated = {}, !.freeList = wholeList]

canAlloc(p) == p.freeList # << >>

\* The block alloc returns, and the pool it leaves.
allocPtr(p) == <<p.buffer, Head(p.freeList)>>
alloc(p) ==
    [p EXCEPT !.freeList = Tail(@),
              !.allocated = @ \cup {Head(p.freeList)},
              !.allocCount = @ + 1]

owns(p, ptr) == isReady(p) /\ ptr[1] = p.buffer /\ ptr[2] \in Slots

\* free of a block the pool owns; a block that is free already stays free.
free(p, ptr) ==
    IF ptr[2] \notin p.allocated THEN p
    ELSE [p EXCEPT !.allocated = @ \ {ptr[2]},
                   !.freeList = <<ptr[2]>> \o @,
                   !.allocCount = IF @ > 0 THEN @ - 1 ELSE @]

isEmpty(p) == p.allocCount = 0 /\ isReady(p)

\* FAULT: rebuilds the free list of a pool in use.
resetInUse(p) ==
    IF isReady(p) THEN [p EXCEPT !.allocated = {}, !.freeList = wholeList] ELSE p

resetIfEmpty(p) ==
    IF isEmpty(p) THEN [p EXCEPT !.allocated = {}, !.freeList = wholeList] ELSE p

\* FAULT: detaches a pool whether or not it is in use.
detachInUse(p) ==
    IF isReady(p) THEN [p EXCEPT !.buffer = NoBuffer, !.freeList = << >>, !.allocated = {}]
    ELSE p

detachIfEmpty(p) ==
    IF isEmpty(p) THEN [p EXCEPT !.buffer = NoBuffer, !.freeList = << >>, !.allocated = {}]
    ELSE p

-----------------------------------------------------------------------------
(* The shape of the data.                                                  *)

PoolType(Buffers) ==
    [buffer : Buffers \cup {NoBuffer}, freeList : Seq(Slots),
     allocated : SUBSET Slots, allocCount : Nat]

\* The free list, the bitmap and the counter tell the same story: a block of a
\* backed pool is listed once or allocated, never both, and an unbacked pool
\* has neither.
Sound(p) ==
    /\ \A i, j \in DOMAIN p.freeList : p.freeList[i] = p.freeList[j] => i = j
    /\ {p.freeList[i] : i \in DOMAIN p.freeList} =
         IF isReady(p) THEN Slots \ p.allocated ELSE {}
    /\ ~isReady(p) => p.allocated = {}
    /\ p.allocCount = Cardinality(p.allocated)
=============================================================================
