------------------------------- MODULE Pools -------------------------------
(***************************************************************************)
(* The pool half of the ProtoGC facade (src/src/ProtoGC.h): tasks that     *)
(* call poolAlloc and poolFree on the size classes, compactEmptyPools and  *)
(* the pool stage of mallocTrim.                                           *)
(*                                                                         *)
(* A pool whose buffer a trim took back is given a new one on demand, and  *)
(* pgc_malloc runs outside the critical section: poolAlloc is cut into     *)
(* look, choose, allocate, attach.  Each critical section is one step.     *)
(*                                                                         *)
(* Two parts are external.  The system heap is a set of cells, of which    *)
(* pgc_malloc hands out any one or fails.  The managed heap, to which      *)
(* requests the pools cannot serve go, is used only by its contract: a     *)
(* block of its own, in a cell of its own, or nullptr.                     *)
(***************************************************************************)
EXTENDS PoolAllocator

CONSTANTS
    Cells,        \* blocks the system heap can hand out
    ForeignCell,  \* memory that came from neither
    Tasks,        \* callers outside interrupt context
    ClassCount    \* size classes, smallest first: sPool32 ... sPool1K

ASSUME CellsAssumption ==
    /\ NoBuffer \notin Cells /\ ForeignCell \notin Cells /\ ForeignCell # NoBuffer
ASSUME ClassCountAssumption == ClassCount \in Nat \ {0}

Classes == 1..ClassCount
\* A request of size n is for a block of class n or above; the largest fits none.
Requests == 1..(ClassCount + 1)

VARIABLES
    pool,    \* the pool of each class
    blocks,  \* cells that are blocks of the managed heap
    sys,     \* cells the system heap has not handed out
    held,    \* cells each task has in hand between two critical sections
    pc, req, \* each task's place in its call, and the call's arguments
    live     \* what the callers own: pointer |-> requested size

vars == <<pool, blocks, sys, held, pc, req, live>>

NoReq == [size |-> 1, class |-> 1, ptr |-> NoPtr]
ForeignPtr == <<ForeignCell, 0>>

\* begin: each pool gets its buffer, or goes without ("degraded mode").
Init ==
    /\ \E buf \in [Classes -> Cells \cup {NoBuffer}] :
         /\ \A k, j \in Classes : buf[k] = buf[j] => k = j \/ buf[k] = NoBuffer
         /\ pool = [k \in Classes |-> IF buf[k] = NoBuffer THEN Unbacked
                                      ELSE attachBacking(Unbacked, buf[k])]
         /\ sys = Cells \ {buf[k] : k \in Classes}
    /\ blocks = {}
    /\ held = [t \in Tasks |-> {}]
    /\ pc = [t \in Tasks |-> "idle"]
    /\ req = [t \in Tasks |-> NoReq]
    /\ live = << >>

-----------------------------------------------------------------------------
(* Helpers.                                                                *)

least(S) == CHOOSE k \in S : \A j \in S : k <= j

\* poolAllocInternalLocked: the smallest class that fits and has a free block.
serving(pools, n) == {k \in Classes : n <= k /\ canAlloc(pools[k])}
poolAllocInternalLocked(pools, n) ==
    IF serving(pools, n) = {} THEN [ptr |-> NoPtr, pool |-> pools]
    ELSE LET k == least(serving(pools, n))
         IN  [ptr |-> allocPtr(pools[k]), pool |-> [pools EXCEPT ![k] = alloc(@)]]

firstDetached(n) == {k \in Classes : n <= k /\ ~isReady(pool[k])}

poolsOwning(ptr) == {k \in Classes : owns(pool[k], ptr)}

With(p, n) == [q \in DOMAIN live \cup {p} |-> IF q = p THEN n ELSE live[q]]
Without(p) == [q \in DOMAIN live \ {p} |-> live[q]]

\* What a caller may free: a pointer it owns and nobody else is freeing.
Usable == {p \in DOMAIN live : \A t \in Tasks : p # req[t].ptr}

Goto(t, l) == pc' = [pc EXCEPT ![t] = l]
Return(t) == Goto(t, "idle") /\ req' = [req EXCEPT ![t] = NoReq]

-----------------------------------------------------------------------------
(* poolAlloc.                                                              *)

PoolAlloc(t, n) ==
    /\ pc[t] = "idle"
    /\ Goto(t, "look")
    /\ req' = [req EXCEPT ![t] = [NoReq EXCEPT !.size = n]]
    /\ UNCHANGED <<pool, blocks, sys, held, live>>

\* FAULT: takes what the pools return without asking whether it is null.
PoolLookUnchecked(t) ==
    /\ pc[t] = "look"
    /\ LET r == poolAllocInternalLocked(pool, req[t].size)
       IN  pool' = r.pool /\ live' = With(r.ptr, req[t].size)
    /\ Return(t)
    /\ UNCHANGED <<blocks, sys, held>>

\* First critical section: a free block of the pools as they are.
PoolLook(t) ==
    /\ pc[t] = "look"
    /\ LET r == poolAllocInternalLocked(pool, req[t].size)
       IN  IF r.ptr # NoPtr
           THEN pool' = r.pool /\ live' = With(r.ptr, req[t].size) /\ Return(t)
           ELSE Goto(t, "choose") /\ UNCHANGED <<pool, live, req>>
    /\ UNCHANGED <<blocks, sys, held>>

\* Second: which detached pool to re-create.
PoolChoose(t) ==
    /\ pc[t] = "choose"
    /\ LET detached == firstDetached(req[t].size)
       IN  IF detached = {} THEN Goto(t, "heap") /\ UNCHANGED req
           ELSE /\ Goto(t, "backing")
                /\ req' = [req EXCEPT ![t].class = least(detached)]
    /\ UNCHANGED <<pool, blocks, sys, held, live>>

\* allocateBacking, unlocked.
AllocateBacking(t) ==
    /\ pc[t] = "backing"
    /\ \/ \E c \in sys : /\ sys' = sys \ {c}
                         /\ held' = [held EXCEPT ![t] = {c}]
                         /\ Goto(t, "attach")
       \/ Goto(t, "heap") /\ UNCHANGED <<sys, held>>
    /\ UNCHANGED <<pool, blocks, req, live>>

\* FAULT: attaches over the buffer another task has attached meanwhile.
AttachOver(t) ==
    /\ pc[t] = "attach"
    /\ LET k == req[t].class
           c == CHOOSE c \in held[t] : TRUE
           r == poolAllocInternalLocked([pool EXCEPT ![k] = attachBacking(@, c)], req[t].size)
       IN  pool' = r.pool /\ live' = With(r.ptr, req[t].size)
    /\ Return(t) /\ held' = [held EXCEPT ![t] = {}]
    /\ UNCHANGED <<blocks, sys>>

\* FAULT: a task that lost the race returns without freeing its buffer.
AttachLeaking(t) ==
    /\ pc[t] = "attach"
    /\ LET k == req[t].class
           c == CHOOSE c \in held[t] : TRUE
           backed == IF isReady(pool[k]) THEN pool
                     ELSE [pool EXCEPT ![k] = attachBacking(@, c)]
           r == poolAllocInternalLocked(backed, req[t].size)
       IN  /\ pool' = r.pool
           /\ IF r.ptr # NoPtr THEN live' = With(r.ptr, req[t].size) /\ Return(t)
                               ELSE Goto(t, "heap") /\ UNCHANGED <<live, req>>
    /\ held' = [held EXCEPT ![t] = {}]
    /\ UNCHANGED <<blocks, sys>>

\* FAULT: does not try the pools again when another task attached first.
AttachNoRetry(t) ==
    /\ pc[t] = "attach"
    /\ LET k == req[t].class
           c == CHOOSE c \in held[t] : TRUE
           r == poolAllocInternalLocked([pool EXCEPT ![k] = attachBacking(@, c)], req[t].size)
       IN  IF isReady(pool[k])
           THEN Goto(t, "drop") /\ UNCHANGED <<pool, held, req, live>>
           ELSE /\ pool' = r.pool /\ live' = With(r.ptr, req[t].size)
                /\ held' = [held EXCEPT ![t] = {}] /\ Return(t)
    /\ UNCHANGED <<blocks, sys>>

\* rebeginPoolAndAlloc, third critical section: attach unless another task has,
\* and try again either way.
Attach(t) ==
    /\ pc[t] = "attach"
    /\ LET k == req[t].class
           c == CHOOSE c \in held[t] : TRUE
           lost == isReady(pool[k])
           backed == IF lost THEN pool ELSE [pool EXCEPT ![k] = attachBacking(@, c)]
           r == poolAllocInternalLocked(backed, req[t].size)
       IN  /\ pool' = r.pool
           /\ live' = IF r.ptr = NoPtr THEN live ELSE With(r.ptr, req[t].size)
           /\ held' = IF lost THEN held ELSE [held EXCEPT ![t] = {}]
           /\ IF lost THEN Goto(t, "drop") /\ req' = [req EXCEPT ![t].ptr = r.ptr]
              ELSE IF r.ptr # NoPtr THEN Return(t)
              ELSE Goto(t, "heap") /\ UNCHANGED req
    /\ UNCHANGED <<blocks, sys>>

\* pgc_free of one buffer, unlocked: the one that lost the race, or those of a
\* trim.  Without a block poolAlloc goes on to the heap.
Release(t) ==
    /\ pc[t] \in {"drop", "trimRelease"}
    /\ \E c \in held[t] :
         /\ sys' = sys \cup {c}
         /\ held' = [held EXCEPT ![t] = @ \ {c}]
         /\ IF held[t] # {c} THEN UNCHANGED <<pc, req>>
            ELSE IF pc[t] = "drop" /\ req[t].ptr = NoPtr THEN Goto(t, "heap") /\ UNCHANGED req
            ELSE Return(t)
    /\ UNCHANGED <<pool, blocks, live>>

\* heapAlloc, by its contract.
HeapAlloc(t) ==
    /\ pc[t] = "heap"
    /\ \/ \E c \in sys : /\ sys' = sys \ {c}
                         /\ blocks' = blocks \cup {c}
                         /\ live' = With(<<c, 0>>, req[t].size)
       \/ UNCHANGED <<sys, blocks, live>>
    /\ Return(t)
    /\ UNCHANGED <<pool, held>>

-----------------------------------------------------------------------------
(* poolFree, called from a task (interrupt context defers it).             *)

PoolFree(t, p) ==
    /\ pc[t] = "idle"
    /\ Goto(t, "free")
    /\ req' = [req EXCEPT ![t] = [NoReq EXCEPT !.ptr = p]]
    /\ UNCHANGED <<pool, blocks, sys, held, live>>

\* poolFreeInternalLocked: the pool that owns the pointer takes it back.
PoolFreeLocked(t) ==
    /\ pc[t] = "free"
    /\ LET p == req[t].ptr
           owner == poolsOwning(p)
       IN  IF owner = {}
           THEN Goto(t, "heapFree") /\ UNCHANGED <<pool, req, live>>
           ELSE /\ pool' = [pool EXCEPT ![least(owner)] = free(@, p)]
                /\ live' = Without(p)
                /\ Return(t)
    /\ UNCHANGED <<blocks, sys, held>>

\* heapFree, by its contract: a block of the heap is freed, others are ignored.
HeapFree(t) ==
    /\ pc[t] = "heapFree"
    /\ LET p == req[t].ptr
           mine == {c \in blocks : p = <<c, 0>>}
       IN  /\ blocks' = blocks \ mine
           /\ sys' = sys \cup mine
           /\ live' = IF mine = {} THEN live ELSE Without(p)
    /\ Return(t)
    /\ UNCHANGED <<pool, held>>

-----------------------------------------------------------------------------
(* Maintenance.                                                            *)

\* compactEmptyPools, one critical section of a collection.
CompactEmptyPools(t) ==
    /\ pc[t] = "idle"
    /\ pool' = [k \in Classes |-> resetIfEmpty(pool[k])]
    /\ UNCHANGED <<blocks, sys, held, pc, req, live>>

\* mallocTrim(0, true), the critical section in which no segment was left to
\* trim: every empty pool is detached at once, and released unlocked.
TrimPools(t) ==
    /\ pc[t] = "idle"
    /\ pool' = [k \in Classes |-> detachIfEmpty(pool[k])]
    /\ held' = [held EXCEPT ![t] = {pool[k].buffer : k \in {j \in Classes :
                                       isReady(pool[j]) /\ ~isReady(pool'[j])}}]
    /\ IF held'[t] = {} THEN UNCHANGED pc ELSE Goto(t, "trimRelease")
    /\ UNCHANGED <<blocks, sys, req, live>>

-----------------------------------------------------------------------------
Call(t) ==
    \/ \E n \in Requests : PoolAlloc(t, n)
    \/ \E p \in Usable \cup {ForeignPtr} : PoolFree(t, p)
    \/ CompactEmptyPools(t) \/ TrimPools(t)

Step(t) ==
    \/ PoolLook(t) \/ PoolChoose(t) \/ AllocateBacking(t) \/ Attach(t)
    \/ Release(t) \/ HeapAlloc(t)
    \/ PoolFreeLocked(t) \/ HeapFree(t)

Next == \E t \in Tasks : Call(t) \/ Step(t)

Spec == Init /\ [][Next]_vars

-----------------------------------------------------------------------------
(* Properties.                                                             *)

PcLabels == {"idle", "look", "choose", "backing", "attach", "drop", "heap",
             "free", "heapFree", "trimRelease"}
PtrType == (Cells \cup {NoBuffer, ForeignCell}) \X Nat
ReqType == [size : Requests, class : Classes, ptr : PtrType]

Buffers == {pool[k].buffer : k \in Classes} \ {NoBuffer}

TypeOK ==
    /\ pool \in [Classes -> PoolType(Cells)]
    /\ blocks \subseteq Cells /\ sys \subseteq Cells
    /\ held \in [Tasks -> SUBSET Cells]
    /\ pc \in [Tasks -> PcLabels]
    /\ req \in [Tasks -> ReqType]
    /\ DOMAIN live \subseteq Cells \X Nat
    /\ \A p \in DOMAIN live : live[p] \in Requests

\* The free list, the bitmap and the counter of every pool agree through every
\* detachment, re-creation, free and compaction; in particular a pool without
\* a buffer is empty (the safety invariant of PoolAllocator.h:96-100).
PoolsSound == \A k \in Classes : Sound(pool[k])

\* Every cell is in one place: not handed out, the buffer of one pool, a block
\* of the heap or in the hands of one task.  The race of two tasks that
\* re-create the same pool neither leaks the loser's buffer nor overwrites the
\* winner's (ProtoGC.h:953-962).
BuffersPartitioned ==
    /\ Cells = sys \cup blocks \cup Buffers \cup UNION {held[t] : t \in Tasks}
    /\ sys \cap (blocks \cup Buffers) = {} /\ blocks \cap Buffers = {}
    /\ \A k, j \in Classes :
         isReady(pool[k]) /\ pool[k].buffer = pool[j].buffer => k = j
    /\ \A t \in Tasks :
         /\ held[t] \cap (sys \cup blocks \cup Buffers) = {}
         /\ \A u \in Tasks \ {t} : held[t] \cap held[u] = {}

\* The callers' pointers are exactly the allocated blocks of the backed pools
\* and the blocks of the heap: "no live pointers into the old buffer can
\* exist" when a pool is detached and re-created (PoolAllocator.h:96-100).
PointersExact ==
    DOMAIN live =
        (UNION {{pool[k].buffer} \X pool[k].allocated : k \in Classes})
        \cup {<<c, 0>> : c \in blocks}

\* "The retry still runs -- the pool is backed now and can serve the request"
\* (ProtoGC.h:944-945): the section that attaches gives up on the pools only
\* when all those that fit are backed or detached ones it was not sent for,
\* and not one of them has a free block.
RebeginServes ==
    [][\A t \in Tasks : pc[t] = "attach" /\ pc'[t] # "attach" =>
         \/ \E p \in DOMAIN live' \ DOMAIN live : live'[p] = req[t].size
         \/ /\ isReady(pool[req[t].class])
            /\ \A k \in Classes : k >= req[t].size => ~canAlloc(pool[k])]_vars

\* The pools and the heap behind them keep the promise of HeapContract.  A
\* block of class k is k units long; a block of the heap is long enough.
extentOf(p) ==
    LET k == {j \in Classes : p[1] = pool[j].buffer}
        unit == IF k = {} THEN ClassCount + 1 ELSE least(k)
    IN  [cell |-> p[1], lo |-> p[2] * unit, hi |-> (p[2] + 1) * unit]

Contract == INSTANCE HeapContract WITH extent <- [p \in DOMAIN live |-> extentOf(p)]
KeepsContract == Contract!ContractSpec
=============================================================================
