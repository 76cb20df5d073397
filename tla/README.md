# A verification of ProtoGC

ProtoGC (`src/`) is a header-only memory manager for microcontrollers with external RAM: two
segmented coalescing heaps, six fixed-size pools, arenas, a ring of frees deferred by interrupt
handlers, and collections that tie them together. This directory holds TLA+ models of it, the TLC
configurations that check them on small instances, and TLAPS proofs for all instances. Paths below
are relative to `src/src/`.

```
tlc -workers 2 -config HeapTasks.cfg MCManagedHeap.tla     # one run
tlapm ManagedHeap_proofs.tla                               # one proof module
```

## 1. The system

### Components, their state and what makes them correct

| component (source) | state | operations | correct when |
|---|---|---|---|
| **HeapAllocator** (`HeapAllocator.h`) | list of segments, blocks in them linked both ways, roving search hint, counters | `allocate`, `deallocate`, `reallocate`, `createSegment`, `linkSegment`, `trimUnlink`, `releaseSegments` | blocks tile each segment and are coalesced; the hint never dangles; counters equal what a walk would find |
| **Facade, heap half** (`ProtoGC.h:362-516, 878-894, 985-1027`) | two HeapAllocators, list of fallback blocks and its counters | `heapAlloc`, `heapFree`, `heapRealloc`, `heapCalloc` and wrappers | callers' memory never overlaps nor moves; nothing is lost between critical sections |
| **mallocTrim** (`ProtoGC.h:645-704`) | a batch of detached segments, up to six pool buffers | detach locked, release unlocked, repeat | only free segments go; the pad stays; it ends |
| **PoolAllocator** (`PoolAllocator.h`) | buffer, free list, bitmap, count | `attachBacking`, `alloc`, `free`, `resetIfEmpty`, `detachIfEmpty` | free list, bitmap and count agree; a pool without buffer is empty |
| **Facade, pool half** (`ProtoGC.h:518-574, 913-983`) | six pools | `poolAlloc` with lazy re-creation, `poolFree`, `compactEmptyPools` | the race of two re-creations loses neither buffer nor block |
| **Deferred frees** (`ProtoGC.h:576-598, 1029-1067`) | ring, head, tail, count, overflow count | `deferFree` (interrupt), `popDeferredFree`, `drainDeferredFrees` | a bounded queue; each free carried out once; losses counted |
| **operator new/delete** (`ProtoGCNewDelete.cpp`) | takeover flag | global operators | every pointer goes back where it came from, whatever the flag says by then |
| **ArenaAllocator** (`ArenaAllocator.h`), **ScopedArena** | buffer, offset, capacity | `begin`, `ensureCapacity`, `alloc`, `reset`, `end` | allocations are disjoint, aligned, within the buffer |
| **Arena and purge registries** (`ProtoGC.h:300-360, 600-643, 896-911`) | fixed arrays of records | register, unregister, create, destroy | no record twice; an arena object lives exactly as long as its last registration says |
| **Collections** (`ProtoGC.h:706-774, 1069-1110`) | counters, poll divider | `collectLight`, `collectFull`, `emergency`, `poll` | what is registered all along is served once, what is not is left alone |
| **HeapGuard** (`ProtoGC.h:113-146`) | two callbacks | `check`, `poll` | checked at the promised cadence |
| **Statistics** (`ProtoGC.h:148-230, 776-826, 1112-1179`) | none of its own | `stats`, printing | read-only |
| **Backends** (`pgc_*.cpp`, `pgc_platform.h`) | region accounting (desktop) | `pgc_malloc`, `pgc_free`, critical sections, `pgc_in_isr` | the contract of `pgc_platform.h` |
| **JSON adapters** (`ProtoGC.h:1205-1231`) | none | calls of the facade | nothing of their own |

### Interactions and hard behaviours

Everything that is shared is guarded by one critical section (`pgc_enter_critical`), which must not
be held across `pgc_malloc` or `pgc_free`. The facade therefore cuts each slow operation in phases:
a segment or a pool buffer is allocated unlocked and linked locked; a trim detaches locked and
releases unlocked. Memory travels in a task's hands between the phases, and everything a phase
learned may be stale in the next. Interrupt handlers may not free at all: they push pointers into
the ring, which `poll` and the collections drain, popping locked and freeing unlocked.

Collections do the same with arenas and callbacks: a snapshot is taken locked, and reset or called
unlocked. A callback may call anything, another collection included, and HeapGuard's critical
callback is meant to call `emergency`, which polls HeapGuard again. The desktop backend takes no
lock at all: it reserves capacity by compare-and-swap.

So the hard part is: interleavings of the phases of different tasks; values read in one critical
section and used in another; a hint kept across trims; allocations that fail half way; races to
re-create a pool; ring wrap-around, overflow and drains that overlap; snapshots of registries that change; nested
collections; counters updated without a lock; and, sequentially, long
sequences of splits and merges that keep three headers and five counters consistent. There is no
persistence, so no crash recovery. `PROJECT.json` lists each hazard at its line.

## 2. The modules

| module | models | kind |
|---|---|---|
| `HeapAllocator` | one HeapAllocator object and its segments | pure operators, one per method |
| `ManagedHeap` (extends it) | tasks running `heapAlloc`, `heapFree`, `heapRealloc`, `mallocTrim` on two heaps and the fallback list | state machine |
| `HeapContract` | what a heap promises: live pointers with disjoint ranges | abstract specification |
| `PoolAllocator` | one pool | pure operators |
| `Pools` (extends it) | tasks running `poolAlloc`, `poolFree`, compaction and the pool stage of a trim | state machine |
| `DeferredFree` | handlers and draining tasks on the ring | state machine |
| `DeferredQueue` | a bounded queue | abstract specification |
| `ArenaAllocator` | one arena | pure operators |
| `Registry` | a table of records with a fixed number of slots: both registries | pure operators |
| `Collector` (extends both) | tasks and callbacks that create, register, destroy, collect and poll | state machine |
| `DesktopBackend` | regions, capacity and headers of the desktop backend | pure operators |
| `NewDelete` (extends it) | tasks running operator new, operator delete and trims on it | state machine |
| `MCManagedHeap`, `MCPools`, `MCCollector`, `MCNewDelete` | values and symmetry for TLC | |
| `HeapAllocator_proofs`, `ManagedHeap_proofs`, `HeapContract_proofs`, `Pools_proofs`, `DeferredFree_proofs`, `NewDelete_proofs`, `Collector_proofs` | the theorems about each | proofs |
| `SumTheorems` | what a sum over a finite set is | proofs |

### How state and actions correspond to the code

**Memory.** The system heap is external and is used as the code uses it: `pgc_malloc` returns any
cell that is not handed out, or fails at any time. A pointer is `<<cell, offset>>`. Offsets are real
byte offsets with header sizes and alignment as constants, so splitting, merging and rounding are
computed as the code computes them.

**Critical sections** are single steps, except in `mallocTrim`, whose loop over the segments is
unfolded (`TrimLock`, `TrimVisit`, `TrimNextHeap`, `TrimUnlock`) with an explicit `lock`; other
tasks' critical sections wait for it, their unlocked steps do not. `pc[t]` names the next phase of
task t's call, `req[t]` holds its arguments and `held[t]` the memory in its hands. `heapAlloc` is
HeapAlloc, AllocFast, then CreateSegment/CreateFails, LinkSegment, RawAlloc, RawLink as the code
falls through; `heapFree` is HeapFree, FreeManaged, FreeFallback, Release; `heapRealloc` is
HeapRealloc, ReallocFast, GrowLink, FindFallback, and then the actions of `heapAlloc` and
`heapFree` with both pointers recorded. In `Pools`, `poolAlloc` is PoolAlloc, PoolLook, PoolChoose,
AllocateBacking, Attach, Release, HeapAlloc, and `poolFree` is PoolFree, PoolFreeLocked, HeapFree.
In `DeferredFree`, a drain is Drain, then Pop and FreeItem in turn, then DrainEnd.

**Atomic steps without a lock.** In `NewDelete`, `pgc_malloc` is Load, Reserve (one turn of the
compare-and-swap loop), then HostMalloc or HostMallocFails, which gives the reservation back; a
weak swap that fails spuriously is one that reads the counter again, and changes nothing.
`pgc_free` is PgcFree up to the counter, then HostFree. `operator new` walks a list of attempts
(`tries`), `operator delete` is HeapFree, then PgcFree for what the heap does not know. The heap is
used by its contract: it serves from memory it has kept (Reuse), grows by pgc_malloc, keeps what is
freed, and trims (Trim). `pgc_init` is Begin and the two stores of ClearUsed.

**Stacks.** In `Collector`, `stack[t]` holds task t's calls, the innermost first, because a purge
callback or a HeapGuard callback may call the facade again. A collection is Collect, SnapshotArenas,
ResetNext for each arena, SnapshotCallbacks, CallNext and PurgeReturns for each callback,
CollectEnds, and, unless it is light, HeapGuard's poll, whose callback is the frame `inGuard`.
`createArena` is CreateArena and RegisterCreated, `destroyArena` is DestroyArena (unregister, and
decide who deletes) and EndArena; `registerArena` and `unregisterArena` are one critical section
each, RegisterArena and UnregisterArena, and `scratchArena` is EnsureCapacity of the scratch arena.
An arena has no lock, so its `alloc` is two steps: Alloc reads the offset and AllocMove writes it,
and collections may reset the arena in between. `poll` is Poll, which reads the counter, PollCount,
which writes it, and, when it has come to the divider, PollClear and PollGuard.

Two ghosts of `Collector` say what the properties compare the program with. `wanted` is what has been
registered, as the application sees it: policy and owner of each arena, phases of each callback.
Each collection's frame carries what it owes (`due`), what it may serve (`was`) and what other tasks
have withdrawn since its snapshot (`raced`), kept up to date by `see` at each change of `wanted`.
`given` is the blocks each arena has handed out since its last reset.

**live** is a ghost variable: what the callers own. It grows when a call returns a pointer and
shrinks in the step that gives the memory back.

### Abstractions

- Callers are well behaved: they free or reallocate a pointer they own, one task at a time, or one
  that came from elsewhere (`ForeignPtr`), which the facade must ignore. Double frees and frees
  that race with a reallocation of the same pointer are misuse and are not modelled; the guards the
  code has against them (`HeapAllocator.h:126, 147`, `PoolAllocator.h:138`) are kept.
- Sizes are far from `SIZE_MAX`; `heapAlloc`'s addition of a header and `alignUp` do not wrap.
- `createSegment`'s two attempts at `pgc_malloc` are one step that ends in either payload or in
  failure. The cap check before them reads the counters without the lock, as in the code.
- The fallback list is a function from cells to headers: nothing depends on its order. A trim's
  batch is a set. The payload, magic numbers and the statistics nobody reads back (peaks,
  high-water mark, trim-released bytes) are left out.
- Arenas: any task may create, register, register again with another policy or owner, unregister
  and destroy any arena it can name, at any time, also while another task's collection is about to
  reset it; what becomes of the memory that a stale reset writes to is not modelled, `CollectGone`
  shows that it happens. The one thing asked of the application is what follows from an arena having
  no lock (`InUse`): one task at a time allocates from it, changes its buffer or destroys it. The
  arena of the application's own (`External`) is made with `operator new`, as `destroyArena`, which
  deletes what is not registered (`ProtoGC.h:323`), expects; nobody uses the arena `destroyArena` has
  deleted. The scratch arena is a static object and is never registered as owned.
- Free memory, as HeapGuard measures it, is not computed: every level may come out.
- `begin` is called by one task; two concurrent first calls of `begin` race in the code.
- Drains, compaction and trims inside a collection touch nothing that `Collector` has; they are
  actions of the modules named above. Collection counters, reclaimed bytes, overflow flags and
  printing are left out.
- In `Pools` the heap behind the pools appears by its contract, which is what `ManagedHeap` is
  checked to keep; in `DeferredFree` the allocators appear by which pointers each free function
  accepts. The pool stage of a trim is modelled in `Pools`, the segment stage in `ManagedHeap`.

## 3. The runs

| run | instance | checks |
|---|---|---|
| `HeapBlocks` | 1 task, 2 cells, 10-byte segments, sizes 0, 3, 11, pad 4 | `BlocksTile BlocksAligned LiveExact CountersExact`; `SearchComplete TrimSafe KeepsContract` |
| `HeapTasks` | 2 tasks, 2 cells, both heaps and requests the PSRAM heap refuses, 4-byte segments, sizes 0 and 5, batch 1 | `TypeOK CountersExact CellsPartitioned Coherent HintLinked`; `GrowthServes TrimThorough KeepsContract` |
| `HeapLive` | 2 tasks, 2 cells, managed and fallback requests, fairness | `CallsReturn` |
| `Pools` | 2 tasks, 3 cells, 2 classes of 2 blocks, every start from fully backed to degraded | `TypeOK PoolsSound BuffersPartitioned PointersExact`; `RebeginServes KeepsContract` |
| `Deferred` | 2 draining tasks, 4 pointers of three origins, 2 slots, poll limit 2, fairness | `TypeOK RingSound ExactlyOnce LossCounted`; `KeepsQueue PollReturns QueuedFreed` |
| `Desktop` | 2 tasks, 2 host blocks, sizes 0 and 2, regions of 2 and 3 bytes, after `begin` | `UsedExact NothingLost`; `KeepsContract` |
| `Collections` | 2 tasks, an arena of each kind (created, of the application, scratch), 2 callbacks, 2 slots in each table, capacities 2 and 3, requests of 1 byte and of 2 bytes aligned to 2, divider 2, a counter modulo 8, calls nested twice | `ObjectsExact CollectExact ResetsCurrent BlocksInside BlocksApart GuardCadence` |
| `HeapBare`, `HeapCap`, `DeferredRaw`, `DesktopEarly`, `CollectGone` | see Findings | one property each, violated |

**Why the bounds are enough.** Alignment, headers and the split threshold are 2 bytes so that a
10-byte segment splits into up to three blocks and every merge occurs (with the next, the previous
and both), with requests that round up, fill a segment exactly or exceed the default segment. In
`HeapTasks` a request of 5 exceeds the 4-byte default segment and rounds up, a segment made for it
holds two blocks of size 0, and one of size 0 is reallocated to grow. Two
cells give a hint on either segment, a wrap of the search, a cell reused by another heap or by the
fallback, and exhaustion. A batch of one makes trims return for another pass and leaves nothing for
the second heap. In `Pools` three cells for two classes let both tasks hold a buffer for the same
class while the third cell is a pool or a block of the heap. Two slots make the ring wrap and
overflow with two drains holding a record each. In `Desktop` one region holds one block of two
bytes and the other one block and a half, so a request is refused, a swap fails and a give-back
frees the way for another task; a size of zero is a block of one byte; headers of 3 bytes with
alignment 2 make the payload move. `NewDelete` can start before `begin` (`DesktopEarly`) or after it
(`Desktop`). In `Collections` two slots for three arenas
fill the table and leave holes in it, buffers of 2 and 3 bytes with blocks of 1 and 2 make requests
fit, just fail and need padding, and calls nested twice give a collection inside a callback of a
collection. The registries, the blocks of an arena and the counter of `poll` share no state but the
collections, so `MCCollector` lets each behaviour choose one of five workloads and interleaves its
calls with the collections: *registry* (create, register with any owner, unregister, destroy, with
light collections, which under these policies reset what the others reset), *purges*, *blocks*
(alloc and changes of capacity), *polls*, and *nested* (all calls about arenas and callbacks, also
from callbacks, with one callback registered and one task inside the facade at a time). In the first
two one task at a time collects, since collections do not notice each other's snapshots.
All these limits are the workloads' alone: the theorems are about `Collector` without them.
Cells and tasks are symmetric (never in the runs
with liveness). Sizes of segments and pools, and the number of tasks, are what the proofs lift.

**Fairness.** In `ManagedHeap`, a task inside a call keeps running (weak fairness of its unlocked
steps and of the turns of the trim's loop) and the critical section is granted to every waiting
task again and again (strong fairness: an interrupt mask, a spinlock or a mutex that starves
nobody). Nothing is assumed of the calls the tasks choose. A trim repeats its passes while it finds
segments, so `CallsReturn` excuses a trim that runs against a task that grows a heap again and
again. In `DeferredFree`, a drain that has begun goes on, and the application polls again and again,
as the documentation asks; the handlers may do anything. `PollReturns` rests on the limit of
`poll`: an unlimited drain may go on as long as handlers push, and is not claimed to return.

**Deadlock** is checked everywhere: an idle task can always make a call.

### The properties, and the slips each one notices

Beside the definition it spoils, each module keeps definitions marked FAULT, used by no
specification: replacing a definition by its FAULT breaks the property.

| property | what it says | a slip it notices |
|---|---|---|
| `BlocksTile` | blocks tile their segment, links agree, no two free neighbours | `absorbNextUnlinked`: the merge forgets the successor's `prev` |
| `BlocksAligned` | every block begins and ends on the alignment | `reallocateUnaligned`: shrinks to the size as asked |
| `LiveExact` | callers' pointers = used blocks and fallback blocks | `moveBlockLeaking`: the old block is not freed |
| `CountersExact` | counters = what a walk finds | `coalesceGainNext`, `unlinkSegmentStillFree` |
| `SearchComplete` | a heap grows only when nothing fits | `servingFromHint`: no wrap |
| `TrimSafe` | a trim keeps the pad and takes no live pointer | `isTrimmableBefore`: tests before instead of after |
| `TrimThorough` | a trim that returns leaves nothing it could release | `ScanningToLast` |
| `KeepsContract` | refinement of `HeapContract` | `alignDown`, `firstBlockFree`; in `Pools`, `AttachOver` |
| `CellsPartitioned` | each cell in one place | `FreeFallbackLeaking` |
| `Coherent` | what a task holds fits where it stands; one owner of the trim's section | `TrimUnlockEarly` |
| `HintLinked` | the hint and the list are sound | `unlinkSegmentKeepingHint` |
| `GrowthServes` | a fresh segment serves the request it was made for | `segmentPayloadsUnaligned` |
| `CallsReturn` | calls end | `TrimUnlockNever`: an early return inside the section |
| `PoolsSound` | list, bitmap, count agree | `resetInUse` |
| `BuffersPartitioned` | each buffer in one place | `AttachLeaking` |
| `PointersExact` | callers' pointers = allocated blocks | `detachInUse` |
| `RebeginServes` | losing the race still serves the request | `AttachNoRetry` |
| `RingSound` | indices, count and slots agree | `PopUncleared` |
| `ExactlyOnce` | a pointer is in one place | `DeferFreeOverrun` |
| `LossCounted` | refused frees are counted | `DeferFreeSilent` |
| `KeepsQueue`, `QueuedFreed` | order of arrival, and all are served | `PopLatest` |
| `PollReturns` | the limit bounds a poll | `FreeItemUncounted` |
| `UsedExact` | a counter = live allocations + reservations, within the capacity, between any two atomic steps | `swaps`: load and store for the compare-and-swap |
| `NothingLost` | each host block in one place; the heap knows its own | `startsBySwitch`: the switch decides how to free |
| `KeepsContract` (NewDelete) | payloads lie inside their host blocks | `totalBare`: no slack for the alignment |
| `ObjectsExact` | an object exists as long as its last registration says; none without object keeps a buffer | `deletesTracked`: an untracked arena is not deleted |
| `CollectExact` | a collection serves what is registered all along, once, and nothing that never was | `scannedToHole`: a scan stops at a free slot |
| `ResetsCurrent` | an arena about to be reset exists and is registered for it, or another task withdrew it | `resetsRegardless`: an emergency resets Manual arenas |
| `BlocksInside` | what an arena handed out since its last reset lies in its buffer | `fitsUnaligned`: compares before it aligns |
| `BlocksApart` | each block lies above the earlier ones, also when a reset falls into an alloc | `beginKeepingOffset`: a new buffer starts at the old offset |
| `GuardCadence` | polls without a look at the memory are bounded though counts get lost | `countsOnMissed`: `!=` for `<` |
| `TypeOK` (three modules) | types, incl. the trim's batch and the ring's bounds | `ScanningPastBatch`, `PoolLookUnchecked`, `PopUnasked` |

### Findings

- **HeapBare.** A request for `MALLOC_CAP_SPIRAM` without `8BIT` is sent to the PSRAM heap but not
  accepted by it. The heap grows by a segment that can serve no request, which the comment at
  `ProtoGC.h:388-390` expects to "serve future allocations"; the request then takes the fallback.
  `GrowthServes` shows that, for requests the heap accepts, the case the comment describes (others
  using up the fresh segment) cannot happen: linking and allocating are one critical section.
- **HeapCap.** The cap of a heap is checked before the segment is created, outside the critical
  section (`HeapAllocator.h:206`), and not again when it is linked: two tasks growing at once pass
  it together. The facade sets no cap today; the model sets one as the third argument of `begin` allows.
- **DeferredRaw.** `operator delete` in interrupt context defers the pointer as a heap pointer. If
  it came from `pgc_malloc` (takeover off, or a time before `begin`), the drain's `heapFreeBytes`
  ignores it and the memory leaks, uncounted.
- **DesktopEarly.** `pgc_init` clears the counters of the desktop backend on its first call, which
  is safe only if nothing was allocated before (the contract at `pgc_platform.h:70-74`). With
  `ProtoGCNewDelete.cpp` linked, `operator new` before `begin` does allocate through `pgc_malloc`;
  deleting that memory after `begin` wraps the counter, what the comment at `pgc_desktop.cpp:98-104`
  wants to prevent.
- **CollectGone.** A collection acts on a snapshot, outside the critical section
  (`ProtoGC.h:1074-1090, 1099-1108`). Another task can destroy an arena between snapshot and reset,
  which then writes to freed memory. `ResetsCurrent` shows that the task's own calls, from callbacks
  and in nested collections, never do that: it takes another task. In the same way another task can
  make the arena Manual ("Never auto-reset", `README.md:407` of the repository), which is reset all
  the same, and can unregister a purge callback ("no further calls",
  `tests/native/test_main.cpp:749`), which is called once more, with a context that may be gone.

### Where the code and its documentation differ

These are not runs; TLC shows each on `Collector` at once, when the sentence is checked as an
invariant (the last with a size near `Word` or an alignment of 0 among `Requests`).

- **Ownership.** An arena of `createArena` ("ProtoGC owns", `README.md:398`) that is registered again
  to change its policy gets `ownsObject` from that call, false unless it says otherwise
  (`ProtoGC.h:331, 339`); `destroyArena` then releases its buffer but does not delete it: a leak.
  `ObjectsExact` says that the last registration decides, and nothing else.
- **Emergencies and full collections.** The documentation says that an emergency resets arenas
  "regardless of policy" and runs callbacks "regardless of phase mask" (`README.md:199-200`), and
  that a full collection does "everything in light collection" (`:185`). The code resets no
  Manual arenas (as `README.md:407` has it), and neither a full collection nor an emergency calls a
  callback registered for the light phase only (`ProtoGC.h:727, 748, 1101`). `concerns`, by which
  `CollectExact` and `ResetsCurrent` judge, is what the tests check
  (`tests/native/test_main.cpp:725-744`), not these sentences.
- **Requests of an arena.** `alloc` "returns nullptr if out of space" (`ArenaAllocator.h:67`) but adds
  offset and size without a test for wrap-around (`:80`), so a size near `SIZE_MAX` is served from an
  arena in use. An alignment of 0 passes its test for powers of two (`:72`) and gives out the start of
  the buffer again, over what is in use, while other alignments that are no powers of two fall back to
  4 (`tests/native/test_main.cpp:159`). `Collections` and the proofs of `BlocksInside` and
  `BlocksApart` exclude both (`PlainRequests`).

Also worth knowing: `scratchArena` that begins on demand does not register the arena, so no
collection resets it. Nothing bounds the recursion of an `onCritical` that calls `emergency` while
the memory stays short. With two tasks the counter of `poll` can pass the divider without being seen
equal to it (a reset gets lost), so the `<` matters; exploration gave at most 1, 5, 10, 16, 23 and 31
unchecked polls for dividers 1 to 6, through the wrap of the counter (0, 3, 7, 12, 18 and 25 as long as
it does not wrap). `GuardCadence` states N * (N + 1) - 1 for divider N, which is proved for every N and
exact for 1 and 2.

## 4. The proofs

Every safety invariant, step property and refinement that a run checks is also a theorem, for every
set of tasks and cells, every alignment, header, segment and batch size, and every set of request
sizes and capabilities. The assumptions are the named ASSUMEs of the modules: sizes are natural
numbers, alignment and headers not zero, null values distinct from memory, and these four:

- `HeaderAlignment`: the segment header and the block header are multiples of the alignment, as each
  `sizeof` rounded up by `alignUp` is. Only the alignment of the blocks rests on it.
- `CounterWord > Divider + 1`: the counter of `poll` passes the divider by two before it wraps; it
  is a `uint32_t` and the divider 64 (`ProtoGC.h:63, 857`).
- Finitely many tasks and cells in `NewDelete`, finitely many tasks in `Collector`: sums and counts
  over them are of use for finite sets only. `CountersExact` needs no such assumption: that the
  segments and blocks are finitely many is part of its invariant.
- `UsedIsExact` has the hypothesis `BeginFirst`; `DesktopEarly` shows that it is needed.
- `BlocksStayInside` and `BlocksStayApart` have the hypothesis `PlainRequests`, see there.

### The heaps (`ManagedHeap_proofs`, on the lemmas of `HeapAllocator_proofs`)

**TypeCorrect**, **Partitioned** (`CellsPartitioned`), **HintsLinked** (`HintLinked`),
**BlocksTiled** (`BlocksTile`), **CallsCoherent** (`Coherent`). None is inductive alone: that a linked
segment is well formed needs that the segment in a task's hands is (`Coherent`), which needs that
nobody else has the cell (`CellsPartitioned`); that an unlink keeps the list needs `HintLinked`; the
steps of `allocate` and `coalesce` need `BlocksTile`. Their conjunction `IInv` is inductive, and the
proof has a lemma per action (`AllocFastKeeps`, ...). Memory is treated by kind of step: QuietStep
(nothing), WorkStep (a heap works on its segments), LinkStep, HandsStep, FormatStep and DetachStep
(a cell changes hands). The other theorems add to `IInv`, one layer each:

- **LiveIsExact** (`LiveExact`) and the refinement **HeapKeepsContract** (`KeepsContract`) add `Own`:
  used blocks lie in linked segments only (`Spare`: what a task holds between two critical sections
  has none), the callers' pointers are the used blocks and the fallback blocks, and each is as large
  as was asked for. Every step does one of six things to the used blocks (`UseKinds`: nothing, one
  given out, given up, resized or moved, a fallback block given out or given up), and each of these
  is a step of `HeapContract` (ContractStep). A trim is the hard case: that it takes no live pointer
  needs that a completely free segment has no used block (FreeSegmentUse).
- **TrimIsSafe** (`TrimSafe`) and **TrimIsThorough** (`TrimThorough`) add `Scanned`: the releasable
  bytes that the loop carries are the heap's free bytes, and a pass that has detached nothing had a
  reason to step over every segment behind it. That no other task invalidates either during the
  pass is WhileLocked.
- **GrowthAlwaysServes** (`GrowthServes`) adds `Growth`: the segment in the hands of a growing task has
  room for the request and its capabilities (`ReadyAt`), the block that is to move is still live and
  in the heap that grows (`GrowingAt`), which needs that no two tasks pass the same pointer
  (`ClaimsApart`), and `begin`'s capabilities stay (`CapsFixed`).
- **AllBlocksAligned** (`BlocksAligned`) is inductive with `IInv` through one lemma per method
  (AllocateAligned, ...). **SearchIsComplete** (`SearchComplete`) rests on it: a free block smaller
  than the rounded request is smaller than the request itself only because sizes are aligned.
- **CountersAreExact** (`CountersExact`) adds `Counted`: the sums and counts of each heap are right
  (`Exact`), the segment a task is about to link is one free block (`BareAt`: linking it adds its
  bytes to the free ones), and the fallback counters are right. One lemma for each operation says by
  how much it changes the sums (SplitSums, AbsorbSums, CoalesceSums, FlagSums), and one for each
  method that the code adds or subtracts just that (TakeExact, DeallocateExact, ShrinkExact, ...,
  LinkExact, UnlinkExact). Since no part of a sum exceeds it, no saturating subtraction saturates.

`HeapAllocator_proofs` has the lemmas about the operators. `splitAt`, `absorbNext`, `coalesce` keep a
segment tiled (SplitTiles, AbsorbTiles, CoalesceTiles: the last also gives "no two free
neighbours"); `findFreeBlock` returns a free block that fits (FoundIsFree) and finds one whenever one
fits (AllocateServes); `allocate`, `deallocate`, `reallocate`, `linkSegment`, `unlinkSegment` keep the
heap well formed (AllocateStep, ..., UnlinkFacts) and change the used blocks as their callers rely
on (AllocateUse, ...).

### Sums (`SumTheorems`)

What `SumFunctionOnSet` of the community modules adds up, for every function into the integers and
every finite set: the sum of nothing, of one element more, fewer or changed, of equal functions, of
natural numbers (SumEmpty, SumPut, SumAdds, SumChange, SumSame, SumNat). The fold picks its elements
by CHOOSE, and that the order does not matter is an induction over the finite subsets. The induction
theorems of the library take an operator as a parameter, which the provers cannot instantiate, so it
goes over a smallest counterexample instead (SmallestIn), which the library's theorems about
well-founded orderings give.

### The other components

- `HeapContract_proofs`: **NeverOverlap**: whatever keeps `HeapContract` never gives two callers the
  same memory. That the heaps, the pools and operator new keep it is HeapKeepsContract,
  PoolsKeepContract and NewKeepsContract.
- `Pools_proofs`: **TypeCorrect**, **PoolsAreSound** (`PoolsSound`), **BuffersStayPartitioned**
  (`BuffersPartitioned`), **PointersStayExact** (`PointersExact`), **RebeginAlwaysServes**
  (`RebeginServes`) and the refinement **PoolsKeepContract** (`KeepsContract`), for every number of
  tasks, cells, classes and blocks. `IInv` is the conjunction of the invariants with what a call has
  in its hands (`Coherent`): that the buffer a task attaches is nobody's needs `BuffersPartitioned`,
  that its class fits the request needs `Coherent`, and that a block from a free list is nobody's
  needs `PoolsSound`. One lemma per method of a pool (AllocKeepsSound, ...), one per effect on the
  set of pools (PoolsServe, PoolTakesBack, PoolAttaches), one per action. For the refinement every
  step is `Quiet`, `GivenOut` or `GivenUp` (Kinds), and memory in use keeps its place (ExtentStays).
- `DeferredFree_proofs`: **TypeCorrect**, **RingIsSound**, **FreedOnce** (`ExactlyOnce`),
  **LossesCounted** (`LossCounted`) and the refinement **RingIsQueue** (`KeepsQueue`), for every
  number of slots, tasks and pointers. The invariant is their conjunction with "a task that is
  freeing has a record in its hands" and the finiteness of the refused pointers. The core is
  arithmetic modulo the number of slots (SlotsApart, SlotsMove): a push changes the queue by one
  `Append` (PushRing), a pop by one `Tail` (PopRing).
- `NewDelete_proofs`: **NothingIsLost** (`NothingLost`), for every number of tasks and
  cells, whichever swaps and host mallocs fail. The invariant adds the types, what a call between its steps has in its hands (`Calls`), and
  that no two calls have the same object (`Apart`). Each step is "the object `c` goes from one place
  to another and all others stay". **UsedIsExact** (`UsedExact`) adds `Accounted`: each counter is
  the sum over the headers of its region and the sum over the reservations under way; a failed swap
  changes neither, a host allocation moves bytes from the second sum to the first. **NewKeepsContract**
  (`KeepsContract`) adds `Served`: a payload lies behind its header and inside its host block.
- `Collector_proofs`: **ObjectsAreExact** (`ObjectsExact`), **ResetsAreCurrent** (`ResetsCurrent`) and
  **CollectIsExact** (`CollectExact`), for every number of tasks, arenas, callbacks and slots and
  every depth of nested calls (assumptions: keys are distinct from each other and from the null key;
  sizes are natural numbers). The invariant: the two tables hold exactly what is registered, each key
  once, with its policy and owner (`ArenasAgree`, `PurgesAgree`); every object has one owner
  (`Owned`); every frame of every stack is true of what is registered (`FrameOK`), and the frames
  below the top wait in a callback (`StackOK`). A change of what is registered keeps the frames true
  (WantStep): the one who makes it is not about to reset anything itself, since it is a free task or
  a callback, and what others are about to reset and no longer concerns them goes into their `raced`.
  That `destroyArena` deletes as the last registration said (Deletes) needs `ArenasAgree`.
- **BlocksStayInside** (`BlocksInside`) and **BlocksStayApart** (`BlocksApart`), also in
  `Collector_proofs`, for every set of capacities and requests, under the hypothesis
  `PlainRequests`: no alignment is zero, and the largest capacity, alignment and size add up below
  the width of `size_t` (section 3 has what happens otherwise). The invariant
  `Layout` says of an arena with a buffer that its blocks lie in order up to the offset (`Laid`), and
  of a task between the two steps of `alloc` that its block fits above them (`Placed`), also when a
  collection has reset the arena meanwhile and there are none; that no other task is at the same
  arena is `InUse`. It rests on **AllocIsSound**, the arithmetic of `alloc` modulo the size of
  `size_t`.
- **GuardIsRegular** (`GuardCadence`), for every divider N and two tasks: never more than
  N * (N + 1) - 1 polls without a look at the memory. `Cadence` relates the counter, the unchecked
  polls, what each task between its read and its write has read, and who is about to clear the
  counter: every count that no reader can undo any more stands for at most N - 1 lost ones, and a
  counter past the divider has a task about to clear it, or one that read it late and writes it once
  more. It bounds the polls by N * N. A task that has cleared the counter and not looked yet
  lets the other begin anew: then `Cadence` holds of the new count, from zero, and `Owes` says how far
  the old one can still go on, N - 1 polls further. Their combination `Regular` is inductive. With a
  third task the case analysis changes, and nothing is claimed.

**Only model-checked:** liveness (`CallsReturn`, `PollReturns`, `QueuedFreed`): fairness and ENABLED
are out of the prover's reach. The violated properties of the findings are counterexamples and have
no theorem.

## 5. Not modelled, and the plan

Done: the heaps, the fallback list and trims; pools and their proofs; the ring; arenas, registries and
collections; operator new and delete on the desktop backend. What follows, in order:

1. `GuardCadence` for three tasks and more: larger instances first, to find the bound.
2. Nested calls more than twice deep in TLC (the proofs hold for every depth).
3. The cap of a heap under the assumption that one task grows it at a time, which `HeapCap` shows to
   be needed.

Left out for good: printing and `stats` (read-only), the thresholds of HeapGuard (comparisons of a
measured number), the JSON adapters (calls with fixed arguments), `lockMallocToPsram` (stores a
threshold for the SDK), the ESP-IDF and Pico backends (wrappers of an external SDK).
