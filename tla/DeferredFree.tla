---------------------------- MODULE DeferredFree ----------------------------
(***************************************************************************)
(* The deferred frees of src/src/ProtoGC.h: interrupt handlers, which may  *)
(* not free, push pointers into a ring, and tasks that poll or collect     *)
(* drain it.  One record is popped inside the critical section and freed   *)
(* outside it, so handlers and other drains run in between.                *)
(*                                                                         *)
(* The allocators are external here and used by what they do with a        *)
(* pointer: poolFree takes pool and heap pointers back, heapFreeBytes only *)
(* heap pointers and ignores any other.  Raw pointers are the ones global  *)
(* operator new got from pgc_malloc (src/src/ProtoGCNewDelete.cpp).        *)
(*                                                                         *)
(* A definition marked FAULT is the one after it with a slip in it; no     *)
(* specification uses it.  README.md says which property notices it.       *)
(***************************************************************************)
EXTENDS Integers, Sequences, FiniteSets

CONSTANTS
    Tasks,            \* tasks that drain
    HeapPtrs, PoolPtrs, RawPtrs,
    NoPtr,            \* nullptr
    Slots,            \* PROTOGC_DEFERRED_FREE_SLOTS
    PollLimit         \* PROTOGC_POLL_DRAIN_LIMIT

Pointers == HeapPtrs \cup PoolPtrs \cup RawPtrs

ASSUME SlotsAssumption == Slots \in Nat \ {0}
ASSUME PollLimitAssumption == PollLimit \in Nat \ {0}
ASSUME NoPtrAssumption == NoPtr \notin Pointers

VARIABLES
    ring, head, tail, count, overflow,  \* sDeferredFrees ... sDeferredOverflowCount
    pc, limit, left, item,  \* each task's drain: its maxItems, what is left of
                            \* them and the record in its hands
    live,    \* pointers the callers own
    back,    \* pointers the allocators have
    lost,    \* frees the full ring refused
    leaked   \* pointers a drain freed with a function that ignored them

ringVars == <<ring, head, tail, count, overflow>>
drainVars == <<pc, limit, left, item>>
vars == <<ringVars, drainVars, live, back, lost, leaked>>

Record(p, k) == [ptr |-> p, kind |-> k]
Empty == Record(NoPtr, "HeapCaps")            \* DeferredFreeRecord()

Init ==
    /\ ring = [i \in 0..(Slots - 1) |-> Empty]
    /\ head = 0 /\ tail = 0 /\ count = 0 /\ overflow = 0
    /\ pc = [t \in Tasks |-> "idle"]
    /\ limit = [t \in Tasks |-> 0]
    /\ left = [t \in Tasks |-> 0]
    /\ item = [t \in Tasks |-> Empty]
    /\ live = {} /\ back = Pointers /\ lost = {} /\ leaked = {}

next(i) == (i + 1) % Slots

-----------------------------------------------------------------------------
(* The producers.                                                          *)

\* A caller gets a pointer...
Alloc(p) ==
    /\ p \in back
    /\ back' = back \ {p} /\ live' = live \cup {p}
    /\ UNCHANGED <<ringVars, drainVars, lost, leaked>>

\* ... and frees it from a task: heapFree, poolFree or operator delete, which
\* gives pgc_free what heapFree does not know.
FreeNow(p) ==
    /\ p \in live
    /\ live' = live \ {p} /\ back' = back \cup {p}
    /\ UNCHANGED <<ringVars, drainVars, lost, leaked>>

\* FAULT: compares the count with one too many.
DeferFreeOverrun(p, k) ==
    /\ p \in live
    /\ live' = live \ {p}
    /\ IF count > Slots
       THEN /\ overflow' = overflow + 1 /\ lost' = lost \cup {p}
            /\ UNCHANGED <<ring, head, count>>
       ELSE /\ ring' = [ring EXCEPT ![head] = Record(p, k)]
            /\ head' = next(head) /\ count' = count + 1
            /\ UNCHANGED <<overflow, lost>>
    /\ UNCHANGED <<tail, drainVars, back, leaked>>

\* FAULT: the refused free is not counted.
DeferFreeSilent(p, k) ==
    /\ p \in live
    /\ live' = live \ {p}
    /\ IF count >= Slots
       THEN lost' = lost \cup {p} /\ UNCHANGED <<ring, head, count>>
       ELSE /\ ring' = [ring EXCEPT ![head] = Record(p, k)]
            /\ head' = next(head) /\ count' = count + 1
            /\ UNCHANGED lost
    /\ UNCHANGED <<tail, overflow, drainVars, back, leaked>>

\* deferFree, from interrupt context: one critical section.
DeferFree(p, k) ==
    /\ p \in live
    /\ live' = live \ {p}
    /\ IF count >= Slots
       THEN /\ overflow' = overflow + 1 /\ lost' = lost \cup {p}
            /\ UNCHANGED <<ring, head, count>>
       ELSE /\ ring' = [ring EXCEPT ![head] = Record(p, k)]
            /\ head' = next(head) /\ count' = count + 1
            /\ UNCHANGED <<overflow, lost>>
    /\ UNCHANGED <<tail, drainVars, back, leaked>>

\* The calls that reach it: heapFree, poolFree (of what poolAlloc returned, from
\* a pool or from the heap behind it) and operator delete.
IsrHeapFree(p) == p \in HeapPtrs /\ DeferFree(p, "HeapCaps")
IsrPoolFree(p) == p \in HeapPtrs \cup PoolPtrs /\ DeferFree(p, "Pool")
IsrDelete(p) == p \in HeapPtrs \cup RawPtrs /\ DeferFree(p, "HeapCaps")

-----------------------------------------------------------------------------
(* The drains.                                                             *)

\* drainDeferredFrees(max): 0 is all; poll() asks for PollLimit.
Drain(t, max) ==
    /\ pc[t] = "idle"
    /\ pc' = [pc EXCEPT ![t] = "pop"]
    /\ limit' = [limit EXCEPT ![t] = max]
    /\ left' = [left EXCEPT ![t] = max]
    /\ UNCHANGED <<ringVars, item, live, back, lost, leaked>>

mayPop(t) == (limit[t] = 0 \/ left[t] > 0) /\ count # 0

\* FAULT: leaves the record in its slot.
PopUncleared(t) ==
    /\ pc[t] = "pop" /\ mayPop(t)
    /\ item' = [item EXCEPT ![t] = ring[tail]]
    /\ tail' = next(tail) /\ count' = count - 1
    /\ pc' = [pc EXCEPT ![t] = "free"]
    /\ UNCHANGED <<ring, head, overflow, limit, left, live, back, lost, leaked>>

\* FAULT: does not look whether a record is there.
PopUnasked(t) ==
    /\ pc[t] = "pop" /\ (limit[t] = 0 \/ left[t] > 0)
    /\ item' = [item EXCEPT ![t] = ring[tail]]
    /\ ring' = [ring EXCEPT ![tail] = Empty]
    /\ tail' = next(tail) /\ count' = count - 1
    /\ pc' = [pc EXCEPT ![t] = "free"]
    /\ UNCHANGED <<head, overflow, limit, left, live, back, lost, leaked>>

\* FAULT: serves the latest record first.
PopLatest(t) ==
    /\ pc[t] = "pop" /\ mayPop(t)
    /\ LET last == (head + Slots - 1) % Slots
       IN  /\ item' = [item EXCEPT ![t] = ring[last]]
           /\ ring' = [ring EXCEPT ![last] = Empty]
           /\ head' = last
    /\ count' = count - 1
    /\ pc' = [pc EXCEPT ![t] = "free"]
    /\ UNCHANGED <<tail, overflow, limit, left, live, back, lost, leaked>>

\* popDeferredFree, one critical section.
Pop(t) ==
    /\ pc[t] = "pop" /\ mayPop(t)
    /\ item' = [item EXCEPT ![t] = ring[tail]]
    /\ ring' = [ring EXCEPT ![tail] = Empty]
    /\ tail' = next(tail) /\ count' = count - 1
    /\ pc' = [pc EXCEPT ![t] = "free"]
    /\ UNCHANGED <<head, overflow, limit, left, live, back, lost, leaked>>

\* Nothing left to drain, or enough for this call.
DrainEnd(t) ==
    /\ pc[t] = "pop" /\ ~mayPop(t)
    /\ pc' = [pc EXCEPT ![t] = "idle"]
    /\ limit' = [limit EXCEPT ![t] = 0]
    /\ left' = [left EXCEPT ![t] = 0]
    /\ UNCHANGED <<ringVars, item, live, back, lost, leaked>>

takesBack(r) ==
    IF r.kind = "Pool" THEN r.ptr \in PoolPtrs \cup HeapPtrs ELSE r.ptr \in HeapPtrs

\* FAULT: the drain does not count what it has processed.
FreeItemUncounted(t) ==
    /\ pc[t] = "free"
    /\ IF takesBack(item[t]) THEN back' = back \cup {item[t].ptr} /\ UNCHANGED leaked
                             ELSE leaked' = leaked \cup {item[t].ptr} /\ UNCHANGED back
    /\ item' = [item EXCEPT ![t] = Empty]
    /\ pc' = [pc EXCEPT ![t] = "pop"]
    /\ UNCHANGED <<ringVars, limit, left, live, lost>>

\* The record is freed by its kind, outside the critical section.
FreeItem(t) ==
    /\ pc[t] = "free"
    /\ IF takesBack(item[t]) THEN back' = back \cup {item[t].ptr} /\ UNCHANGED leaked
                             ELSE leaked' = leaked \cup {item[t].ptr} /\ UNCHANGED back
    /\ item' = [item EXCEPT ![t] = Empty]
    /\ left' = [left EXCEPT ![t] = IF @ > 0 THEN @ - 1 ELSE 0]
    /\ pc' = [pc EXCEPT ![t] = "pop"]
    /\ UNCHANGED <<ringVars, limit, live, lost>>

-----------------------------------------------------------------------------
Produce == \E p \in Pointers :
              Alloc(p) \/ FreeNow(p) \/ IsrHeapFree(p) \/ IsrPoolFree(p) \/ IsrDelete(p)

Consume(t) == Pop(t) \/ DrainEnd(t) \/ FreeItem(t)

Next == Produce \/ \E t \in Tasks : (\E max \in {0, PollLimit} : Drain(t, max)) \/ Consume(t)

Spec == Init /\ [][Next]_vars

\* A drain that has begun keeps running, and the application keeps polling
\* ("every iteration", src/README.md); what the handlers do is up to them.
FairSpec ==
    /\ Spec
    /\ \A t \in Tasks : WF_vars(Consume(t)) /\ WF_vars(Drain(t, PollLimit))

-----------------------------------------------------------------------------
(* Properties.                                                             *)

\* What the calls above queue.
Records == [ptr : HeapPtrs \cup RawPtrs, kind : {"HeapCaps"}]
           \cup [ptr : HeapPtrs \cup PoolPtrs, kind : {"Pool"}]

\* The slot of the i-th oldest record, and the records from the oldest on.
slot(i) == (tail + i - 1) % Slots
queue == [i \in 1..count |-> ring[slot(i)]]

TypeOK ==
    /\ ring \in [0..(Slots - 1) -> Records \cup {Empty}]
    /\ head \in 0..(Slots - 1) /\ tail \in 0..(Slots - 1) /\ count \in 0..Slots
    /\ overflow \in Nat
    /\ pc \in [Tasks -> {"idle", "pop", "free"}]
    /\ limit \in [Tasks -> {0, PollLimit}] /\ left \in [Tasks -> 0..PollLimit]
    /\ item \in [Tasks -> Records \cup {Empty}]
    /\ live \subseteq Pointers /\ back \subseteq Pointers
    /\ lost \subseteq Pointers /\ leaked \subseteq Pointers

\* The indices and the count agree through every wrap-around, and exactly the
\* slots from tail on, count of them, hold a record: a popped slot is cleared
\* (ProtoGC.h:1029-1067).
RingSound ==
    /\ head = (tail + count) % Slots
    /\ {i \in 0..(Slots - 1) : ring[i] # Empty} = {slot(i) : i \in 1..count}

queued == {queue[i].ptr : i \in 1..count}
inHand == {item[t].ptr : t \in {u \in Tasks : pc[u] = "free"}}

\* A pointer is in one place: owned, queued once, in the hands of one drain,
\* back, refused by the full ring or leaked.  None is freed twice however the
\* handlers and the drains interleave.
ExactlyOnce ==
    /\ Pointers = live \cup queued \cup inHand \cup back \cup lost \cup leaked
    /\ live \cap (queued \cup inHand \cup back \cup lost \cup leaked) = {}
    /\ queued \cap (inHand \cup back \cup lost \cup leaked) = {}
    /\ inHand \cap (back \cup lost \cup leaked) = {}
    /\ back \cap (lost \cup leaked) = {} /\ lost \cap leaked = {}
    /\ \A i, j \in 1..count : queue[i].ptr = queue[j].ptr => i = j
    /\ \A t, u \in Tasks : pc[t] = "free" /\ pc[u] = "free" /\ item[t].ptr = item[u].ptr => t = u

\* "deferredOverflowCount increments per dropped free" (README.md:257), and
\* what is leaked otherwise is only what operator new got from pgc_malloc.
LossCounted == overflow = Cardinality(lost) /\ leaked \subseteq RawPtrs

\* The ring implements the bounded queue of DeferredQueue.
Queue == INSTANCE DeferredQueue WITH Capacity <- Slots, dropped <- overflow
KeepsQueue == Queue!QueueSpec

\* poll() returns however fast the handlers push, because of its limit.
PollReturns == \A t \in Tasks : (pc[t] # "idle" /\ limit[t] # 0) ~> (pc[t] = "idle")

\* Every queued free is carried out while somebody polls: later records never
\* overtake it.
QueuedFreed == \A p \in Pointers : p \in queued ~> p \in back \cup leaked

\* "For pointers minted by raw pgc_malloc (boot-time, takeover off), it returns
\* 0 and we fall back to pgc_free" (ProtoGCNewDelete.cpp:54-56): an operator
\* delete never leaks its pointer.  In interrupt context the pointer is queued
\* for heapFreeBytes, whose 0 nobody looks at.
RawFreed == leaked = {}
=============================================================================
