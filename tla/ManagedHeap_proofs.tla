------------------------- MODULE ManagedHeap_proofs -------------------------
(***************************************************************************)
(* The inductive invariant of ManagedHeap and the safety theorems that     *)
(* follow from it, for every number of tasks, cells and sizes.             *)
(***************************************************************************)
EXTENDS ManagedHeap, HeapAllocator_proofs

\* Where every cell is, that lists and blocks are well formed, and what each
\* task holds at each place of its call.
IInv == TypeOK /\ CellsPartitioned /\ HintLinked /\ BlocksTile /\ Coherent

memory == <<heap, seg, fallbackVars, sys, held>>

-----------------------------------------------------------------------------
(* Consequences of the invariant.                                          *)

\* There are two managed heaps.
LEMMA HeapsAreTwo == Heaps = {"psram", "internal"} /\ "psram" # "internal"
  BY DEF Heaps

\* Linked and Listed name the same segments.
LEMMA LinkedIsListed == \A hp \in Heaps : Linked(hp) = Listed(heap[hp])
  BY DEF Linked, Listed

\* Every allocator object is well formed.
LEMMA HeapsWell ==
    ASSUME IInv
    PROVE  \A hp \in Heaps : Well(heap[hp], seg) /\ Linked(hp) \subseteq Cells
<1> TAKE hp \in Heaps
<1>1. heap[hp] \in AllocatorType /\ SegmentsType(seg) /\ ListSound(heap[hp])
  BY DEF IInv, TypeOK, MemoryType, SegmentsType, HintLinked
<1>2. Linked(hp) = Listed(heap[hp]) /\ Linked(hp) \subseteq Cells
  BY <1>1, LinkedIsListed, ListedFacts
<1>3. \A c \in Linked(hp) : SoundSegment(seg[c])
  BY <1>2 DEF IInv, Coherent, BlocksTile, SoundSegment
<1> QED
  BY <1>1, <1>2, <1>3 DEF Well

\* Steps that touch only the calls keep what is said of the memory.
LEMMA QuietStep ==
    ASSUME IInv, UNCHANGED memory
    PROVE  MemoryType' /\ CellsPartitioned' /\ HintLinked' /\ BlocksTile'
<1>1. MemoryType'
  BY DEF IInv, TypeOK, MemoryType, memory, fallbackVars
<1>2. \A hp : Linked(hp)' = Linked(hp)
  BY DEF Linked, memory
<1>3. CellsPartitioned'
  BY <1>2 DEF IInv, CellsPartitioned, memory, fallbackVars
<1>4. HintLinked'
  BY DEF IInv, HintLinked, memory
<1>5. BlocksTile'
  BY DEF IInv, BlocksTile, memory
<1> QED
  BY <1>1, <1>3, <1>4, <1>5

\* A critical section in which one heap works on the segments it has.
LEMMA WorkStep ==
    ASSUME IInv, NEW hp \in Heaps, NEW h, NEW s, HeapStep(heap[hp], seg, h, s),
           heap' = [heap EXCEPT ![hp] = h], seg' = s,
           UNCHANGED <<fallbackVars, sys, held>>
    PROVE  /\ MemoryType' /\ CellsPartitioned' /\ HintLinked' /\ BlocksTile'
           /\ \A c \in Cells : seg[c] # NoSegment => seg'[c] # NoSegment
           /\ \A g \in Heaps : Linked(g)' = Linked(g)
<1>1. /\ h \in AllocatorType /\ ListSound(h) /\ h.segments = heap[hp].segments
      /\ SegmentsType(s)
      /\ \A c \in Cells : s[c] = seg[c] \/ SoundSegment(s[c])
  BY DEF HeapStep, SameList, OnlyListed
<1>2. heap \in [Heaps -> AllocatorType]
  BY DEF IInv, TypeOK, MemoryType
<1>3. /\ heap' \in [Heaps -> AllocatorType] /\ heap'[hp] = h
      /\ \A g \in Heaps \ {hp} : heap'[g] = heap[g]
  BY <1>1, <1>2
<1>4. \A g \in Heaps : Linked(g)' = Linked(g)
  BY <1>1, <1>3 DEF Linked
<1>5. MemoryType'
  BY <1>1, <1>3 DEF IInv, TypeOK, MemoryType, SegmentsType, fallbackVars
<1>6. CellsPartitioned'
  BY <1>4, HeapsAreTwo DEF IInv, CellsPartitioned, fallbackVars
<1>7. HintLinked'
  BY <1>1, <1>3 DEF IInv, HintLinked
<1>8. BlocksTile'
  BY <1>1 DEF IInv, BlocksTile, SoundSegment
<1>9. ASSUME NEW c \in Cells, seg[c] # NoSegment PROVE seg'[c] # NoSegment
  <2>1. CASE s[c] = seg[c]
    BY <1>9, <2>1
  <2>2. CASE SoundSegment(s[c])
    <3>1. FirstBlock \in DOMAIN s[c].blk
      BY <2>2 DEF SoundSegment, Tiles
    <3>2. DOMAIN NoSegment.blk = {}
      BY DEF NoSegment
    <3> QED
      BY <3>1, <3>2
  <2> QED
    BY <1>1, <2>1, <2>2
<1> QED
  BY <1>4, <1>5, <1>6, <1>7, <1>8, <1>9

\* A cell is in one place: the form in which the steps below use the partition.
LEMMA Placed ==
    ASSUME IInv
    PROVE  /\ sys \subseteq Cells /\ DOMAIN fallback \subseteq Cells
           /\ held \in [Tasks -> SUBSET Cells]
           /\ \A hp \in Heaps : Linked(hp) \subseteq Cells
           /\ \A t \in Tasks : \A c \in held[t] :
                /\ c \in Cells /\ c \notin sys /\ c \notin DOMAIN fallback
                /\ \A hp \in Heaps : c \notin Linked(hp)
                /\ \A u \in Tasks \ {t} : c \notin held[u]
           /\ \A hp \in Heaps : \A c \in Linked(hp) :
                /\ c \notin sys /\ c \notin DOMAIN fallback
                /\ \A g \in Heaps \ {hp} : c \notin Linked(g)
                /\ \A t \in Tasks : c \notin held[t]
<1>1. /\ sys \subseteq Cells /\ DOMAIN fallback \subseteq Cells
      /\ held \in [Tasks -> SUBSET Cells]
  BY DEF IInv, TypeOK, MemoryType
<1>2. \A hp \in Heaps : Linked(hp) \subseteq Cells
  BY HeapsWell
<1>3. CellsPartitioned
  BY DEF IInv
<1> QED
  BY <1>1, <1>2, <1>3, HeapsAreTwo DEF CellsPartitioned

\* A critical section that links the cell in the task's hands and then works on
\* the heap (heapAlloc and heapRealloc after a growth).
LEMMA LinkStep ==
    ASSUME IInv, NEW t \in Tasks, NEW c \in Cells, held[t] = {c}, seg[c] # NoSegment,
           NEW hp \in Heaps, NEW h, NEW s,
           HeapStep(linkSegment(heap[hp], seg, c), seg, h, s),
           DOMAIN heap' = Heaps, heap'[hp] = h, \A g \in Heaps \ {hp} : heap'[g] = heap[g],
           held' \in [Tasks -> SUBSET Cells], held'[t] = {},
           \A u \in Tasks \ {t} : held'[u] = held[u],
           seg' = s, heap' = [g \in Heaps |-> heap'[g]],
           UNCHANGED <<fallbackVars, sys>>
    PROVE  /\ MemoryType' /\ CellsPartitioned' /\ HintLinked' /\ BlocksTile'
           /\ \A d \in Cells : seg[d] # NoSegment => seg'[d] # NoSegment
           /\ \A g \in Heaps : \A d \in Linked(g)' : seg'[d] # NoSegment
<1> DEFINE linked == linkSegment(heap[hp], seg, c)
<1>0. Well(heap[hp], seg) /\ c \notin Listed(heap[hp]) /\ SoundSegment(seg[c])
  <2>1. Well(heap[hp], seg)
    BY HeapsWell
  <2>2. c \notin Listed(heap[hp])
    BY Placed, LinkedIsListed
  <2>3. SoundSegment(seg[c])
    BY DEF IInv, BlocksTile, SoundSegment
  <2> QED
    BY <2>1, <2>2, <2>3
<1>1. Well(linked, seg) /\ Listed(linked) = Listed(heap[hp]) \cup {c}
  BY <1>0, LinkFacts
<1> HIDE DEF linked
<1>2. /\ h \in AllocatorType /\ ListSound(h) /\ h.segments = linked.segments
      /\ SegmentsType(s)
      /\ \A d \in Cells : s[d] = seg[d] \/ SoundSegment(s[d])
  BY DEF HeapStep, SameList, OnlyListed, linked
<1>3. heap \in [Heaps -> AllocatorType] /\ held \in [Tasks -> SUBSET Cells]
  BY DEF IInv, TypeOK, MemoryType
<1>4. /\ heap' \in [Heaps -> AllocatorType] /\ heap'[hp] = h
      /\ \A g \in Heaps \ {hp} : heap'[g] = heap[g]
  BY <1>2, <1>3
<1>5. /\ held' \in [Tasks -> SUBSET Cells] /\ held'[t] = {}
      /\ \A u \in Tasks \ {t} : held'[u] = held[u]
  BY <1>3
<1>6. Linked(hp)' = Linked(hp) \cup {c} /\ \A g \in Heaps \ {hp} : Linked(g)' = Linked(g)
  <2>1. Linked(hp)' = Listed(h)
    BY <1>4 DEF Linked, Listed
  <2>2. Listed(h) = Listed(linked)
    BY <1>2 DEF Listed
  <2>3. \A g \in Heaps \ {hp} : Linked(g)' = Linked(g)
    BY <1>4 DEF Linked
  <2> QED
    BY <1>1, <2>1, <2>2, <2>3, LinkedIsListed
<1>7. MemoryType'
  BY <1>2, <1>4, <1>5 DEF IInv, TypeOK, MemoryType, SegmentsType, fallbackVars
<1>8. CellsPartitioned'
  <2>1. sys' = sys /\ fallback' = fallback
    BY DEF fallbackVars
  <2>2. CellsPartitioned
    BY DEF IInv
  <2> QED
    BY <1>5, <1>6, <2>1, <2>2, HeapsAreTwo, Placed DEF CellsPartitioned
<1>9. HintLinked'
  BY <1>2, <1>4 DEF IInv, HintLinked
<1>10. BlocksTile'
  BY <1>2 DEF IInv, BlocksTile, SoundSegment
<1>11. ASSUME NEW d \in Cells, seg[d] # NoSegment PROVE seg'[d] # NoSegment
  <2>1. CASE s[d] = seg[d]
    BY <1>11, <2>1
  <2>2. CASE SoundSegment(s[d])
    <3>1. FirstBlock \in DOMAIN s[d].blk
      BY <2>2 DEF SoundSegment, Tiles
    <3>2. DOMAIN NoSegment.blk = {}
      BY DEF NoSegment
    <3> QED
      BY <3>1, <3>2
  <2> QED
    BY <1>2, <2>1, <2>2
<1>12. ASSUME NEW g \in Heaps, NEW d \in Linked(g)' PROVE seg'[d] # NoSegment
  <2>1. d \in Linked(g) \/ d = c
    BY <1>6, <1>12
  <2>2. d \in Cells /\ seg[d] # NoSegment
    BY <2>1, Placed DEF IInv, Coherent
  <2> QED
    BY <1>11, <2>2
<1> QED
  BY <1>7, <1>8, <1>9, <1>10, <1>11, <1>12

\* A cell moves between the system heap, a task's hands and the fallback list,
\* and the segment lists stay as they are.
LEMMA HandsStep ==
    ASSUME IInv, NEW t \in Tasks, NEW mine \in SUBSET Cells, UNCHANGED <<heap, seg>>,
           held' = [held EXCEPT ![t] = mine],
           sys' \subseteq Cells, DOMAIN fallback' \subseteq Cells,
           \A c \in DOMAIN fallback' : fallback'[c].size \in Nat /\ fallback'[c].caps \subseteq Flags,
           fallbackBlocks' \in Int, fallbackBytes' \in Int,
           sys' \cup DOMAIN fallback' \cup mine = sys \cup DOMAIN fallback \cup held[t],
           sys' \cap DOMAIN fallback' = {}, mine \cap (sys' \cup DOMAIN fallback') = {}
    PROVE  /\ MemoryType' /\ CellsPartitioned' /\ HintLinked' /\ BlocksTile'
           /\ \A hp \in Heaps : Linked(hp)' = Linked(hp)
<1>1. held \in [Tasks -> SUBSET Cells]
  BY DEF IInv, TypeOK, MemoryType
<1>2. /\ held' \in [Tasks -> SUBSET Cells] /\ held'[t] = mine
      /\ \A u \in Tasks \ {t} : held'[u] = held[u]
  BY <1>1
<1>3. \A hp \in Heaps : Linked(hp)' = Linked(hp)
  BY DEF Linked
<1>4. MemoryType'
  BY <1>2 DEF IInv, TypeOK, MemoryType
<1>5. CellsPartitioned'
  <2>1. CellsPartitioned
    BY DEF IInv
  <2> QED
    BY <1>2, <1>3, <2>1, HeapsAreTwo, Placed DEF CellsPartitioned
<1>6. HintLinked' /\ BlocksTile'
  BY DEF IInv, HintLinked, BlocksTile
<1> QED
  BY <1>3, <1>4, <1>5, <1>6

\* The unlocked steps that format a cell as a segment or give it back: they
\* write only to a cell no list names.
LEMMA FormatStep ==
    ASSUME IInv, NEW t \in Tasks, NEW c \in Cells, NEW s, NEW mine \in SUBSET Cells,
           UNCHANGED <<heap, fallbackVars>>,
           held' = [held EXCEPT ![t] = mine],
           c \in sys \/ c \in held[t],
           seg' = [seg EXCEPT ![c] = s],
           s = NoSegment \/ SoundSegment(s),
           DOMAIN s = {"total", "caps", "blk"}, s.total \in Nat, s.caps \subseteq Flags,
           sys' \subseteq Cells,
           sys' \cup mine = sys \cup held[t], sys' \cap mine = {}
    PROVE  /\ MemoryType' /\ CellsPartitioned' /\ HintLinked' /\ BlocksTile'
           /\ \A hp \in Heaps : Linked(hp)' = Linked(hp) /\ c \notin Linked(hp)
           /\ seg'[c] = s /\ \A d \in Cells \ {c} : seg'[d] = seg[d]
<1>1. held \in [Tasks -> SUBSET Cells] /\ DOMAIN seg = Cells
  BY DEF IInv, TypeOK, MemoryType
<1>2. /\ held' \in [Tasks -> SUBSET Cells] /\ held'[t] = mine
      /\ \A u \in Tasks \ {t} : held'[u] = held[u]
  BY <1>1
<1>3. DOMAIN seg' = Cells /\ seg'[c] = s /\ \A d \in Cells \ {c} : seg'[d] = seg[d]
  BY <1>1
<1>4. \A hp \in Heaps : Linked(hp)' = Linked(hp)
  BY DEF Linked
<1>5. \A hp \in Heaps : c \notin Linked(hp)
  BY Placed
<1>6. MemoryType'
  BY <1>2, <1>3 DEF IInv, TypeOK, MemoryType, fallbackVars
<1>7. CellsPartitioned'
  <2>1. CellsPartitioned /\ fallback' = fallback
    BY DEF IInv, fallbackVars
  <2> QED
    BY <1>2, <1>4, <2>1, HeapsAreTwo, Placed DEF CellsPartitioned
<1>8. HintLinked'
  BY DEF IInv, HintLinked
<1>9. BlocksTile'
  BY <1>3 DEF IInv, BlocksTile, SoundSegment
<1> QED
  BY <1>3, <1>4, <1>5, <1>6, <1>7, <1>8, <1>9

\* mallocTrim detaches the segment at a position of the list.
LEMMA DetachStep ==
    ASSUME IInv, NEW t \in Tasks, NEW hp \in Heaps, NEW i \in DOMAIN heap[hp].segments,
           heap' = [heap EXCEPT ![hp] = unlinkSegment(heap[hp], seg, i)],
           held' = [held EXCEPT ![t] = @ \cup {heap[hp].segments[i]}],
           UNCHANGED <<seg, fallbackVars, sys>>
    PROVE  /\ MemoryType' /\ CellsPartitioned' /\ HintLinked' /\ BlocksTile'
           /\ \A g \in Heaps : Linked(g)' \subseteq Linked(g)
<1> DEFINE new == unlinkSegment(heap[hp], seg, i)
           c == heap[hp].segments[i]
<1>1. /\ Well(new, seg) /\ Listed(new) = Listed(heap[hp]) \ {c} /\ c \in Listed(heap[hp])
  BY HeapsWell, UnlinkFacts
<1>2. heap \in [Heaps -> AllocatorType] /\ held \in [Tasks -> SUBSET Cells]
  BY DEF IInv, TypeOK, MemoryType
<1>3. c \in Linked(hp) /\ c \in Cells
  BY <1>1, LinkedIsListed, Placed
<1>4. heap' = [heap EXCEPT ![hp] = new] /\ held' = [held EXCEPT ![t] = held[t] \cup {c}]
  BY <1>2
<1> HIDE DEF new, c
<1>5. new \in AllocatorType /\ ListSound(new)
  BY <1>1 DEF Well
<1>6. /\ heap' \in [Heaps -> AllocatorType] /\ heap'[hp] = new
      /\ \A g \in Heaps \ {hp} : heap'[g] = heap[g]
  BY <1>2, <1>4, <1>5
<1>7. /\ held' \in [Tasks -> SUBSET Cells] /\ held'[t] = held[t] \cup {c}
      /\ \A u \in Tasks \ {t} : held'[u] = held[u]
  BY <1>2, <1>3, <1>4
<1>8. Linked(hp)' = Linked(hp) \ {c} /\ \A g \in Heaps \ {hp} : Linked(g)' = Linked(g)
  <2>1. Linked(hp)' = Listed(new) /\ \A g \in Heaps \ {hp} : Linked(g)' = Linked(g)
    BY <1>6 DEF Linked, Listed
  <2> QED
    BY <1>1, <2>1, LinkedIsListed
<1>9. MemoryType'
  BY <1>6, <1>7 DEF IInv, TypeOK, MemoryType, fallbackVars
<1>10. CellsPartitioned'
  <2>1. CellsPartitioned /\ fallback' = fallback /\ sys' = sys
    BY DEF IInv, fallbackVars
  <2> QED
    BY <1>3, <1>7, <1>8, <2>1, HeapsAreTwo, Placed DEF CellsPartitioned
<1>11. HintLinked'
  BY <1>5, <1>6 DEF IInv, HintLinked
<1>12. BlocksTile'
  BY DEF IInv, BlocksTile
<1> QED
  BY <1>8, <1>9, <1>10, <1>11, <1>12

-----------------------------------------------------------------------------
(* The calls.                                                              *)

\* Only task t moves.
Frame(t) == \A u \in Tasks \ {t} : pc'[u] = pc[u] /\ req'[u] = req[u] /\ held'[u] = held[u]

\* What the type of a call says of one task.
LEMMA CallFacts ==
    ASSUME IInv, NEW t \in Tasks
    PROVE  /\ pc \in [Tasks -> PcLabels] /\ pc[t] \in PcLabels
           /\ req \in [Tasks -> ReqType] /\ req[t] \in ReqType
           /\ req[t].size \in Nat /\ req[t].caps \subseteq Flags
           /\ req[t].ptr \in PtrType /\ req[t].heap \in Heaps \cup {NoHeap}
           /\ held \in [Tasks -> SUBSET Cells] /\ held[t] \in SUBSET Cells
           /\ lock \in Tasks \cup {NoTask} /\ scan \in ScanType
           /\ DOMAIN live \subseteq Cells \X Nat /\ \A p \in DOMAIN live : live[p] \in Nat
           /\ \A u \in Tasks : HandsMatch(u)
           /\ \A hp \in Heaps : \A c \in Linked(hp) : seg[c] # NoSegment
<1>1. /\ pc \in [Tasks -> PcLabels] /\ req \in [Tasks -> ReqType]
      /\ held \in [Tasks -> SUBSET Cells]
      /\ lock \in Tasks \cup {NoTask} /\ scan \in ScanType
      /\ DOMAIN live \subseteq Cells \X Nat /\ \A p \in DOMAIN live : live[p] \in Nat
  BY DEF IInv, TypeOK, CallType, MemoryType
<1>2. req[t] \in ReqType
  BY <1>1
<1>3. /\ req[t].size \in Nat /\ req[t].caps \subseteq Flags
      /\ req[t].ptr \in PtrType /\ req[t].heap \in Heaps \cup {NoHeap}
  BY <1>2 DEF ReqType
<1> QED
  BY <1>1, <1>2, <1>3 DEF IInv, Coherent

\* The arguments the calls record are well typed.
LEMMA RequestTypes ==
    /\ NoReq \in ReqType /\ NoPtr \in PtrType /\ ForeignPtr \in PtrType
    /\ Cells \X Nat \subseteq PtrType
    /\ \A n \in Nat, c \in SUBSET Flags, p \in PtrType :
         /\ [NoReq EXCEPT !.size = n, !.caps = c] \in ReqType
         /\ [NoReq EXCEPT !.ptr = p] \in ReqType
         /\ [NoReq EXCEPT !.size = n, !.ptr = p] \in ReqType
         /\ [NoReq EXCEPT !.size = n] \in ReqType
    /\ \A r \in ReqType, g \in Heaps \cup {NoHeap}, c \in SUBSET Flags, p \in PtrType :
         /\ [r EXCEPT !.heap = g] \in ReqType
         /\ [r EXCEPT !.caps = c] \in ReqType
         /\ [r EXCEPT !.to = p] \in ReqType
<1>1. NoPtr \in PtrType /\ ForeignPtr \in PtrType /\ Cells \X Nat \subseteq PtrType
  BY DEF NoPtr, ForeignPtr, PtrType
<1>2. NoReq \in ReqType
  BY <1>1 DEF NoReq, ReqType
<1> QED
  BY <1>1, <1>2 DEF ReqType

\* Going to a label changes the place of one task only.
LEMMA Goes ==
    ASSUME IInv, NEW t \in Tasks, NEW l \in PcLabels, Goto(t, l)
    PROVE  /\ pc' \in [Tasks -> PcLabels] /\ pc'[t] = l
           /\ \A u \in Tasks \ {t} : pc'[u] = pc[u]
  BY CallFacts DEF Goto

\* Recording arguments changes those of one task only.
LEMMA Asks ==
    ASSUME IInv, NEW t \in Tasks, NEW r \in ReqType, req' = [req EXCEPT ![t] = r]
    PROVE  /\ req' \in [Tasks -> ReqType] /\ req'[t] = r
           /\ \A u \in Tasks \ {t} : req'[u] = req[u]
  BY CallFacts

\* Returning makes one task idle and touches no other.
LEMMA Returns ==
    ASSUME IInv, NEW t \in Tasks, Return(t)
    PROVE  /\ pc' \in [Tasks -> PcLabels] /\ pc'[t] = "idle"
           /\ req' \in [Tasks -> ReqType]
           /\ \A u \in Tasks \ {t} : pc'[u] = pc[u] /\ req'[u] = req[u]
  BY Goes, Asks, RequestTypes DEF Return, PcLabels

\* heapAlloc delivers a pointer into a cell.
LEMMA Delivers ==
    ASSUME IInv, NEW t \in Tasks, NEW p \in Cells \X Nat, Deliver(t, p)
    PROVE  /\ pc' \in [Tasks -> PcLabels] /\ pc'[t] \in {"idle", "free"}
           /\ req' \in [Tasks -> ReqType]
           /\ DOMAIN live' \subseteq Cells \X Nat /\ \A q \in DOMAIN live' : live'[q] \in Nat
           /\ \A u \in Tasks \ {t} : pc'[u] = pc[u] /\ req'[u] = req[u]
<1>1. DOMAIN live' \subseteq Cells \X Nat /\ \A q \in DOMAIN live' : live'[q] \in Nat
  <2>1. live' = With(live, p, req[t].size)
    BY DEF Deliver
  <2> QED
    BY <2>1, CallFacts DEF With
<1>2. CASE req[t].ptr = NoPtr
  BY <1>1, <1>2, Returns DEF Deliver
<1>3. CASE req[t].ptr # NoPtr
  <2>1. Goto(t, "free") /\ req' = [req EXCEPT ![t].to = p]
    BY <1>3 DEF Deliver
  <2>2. req' = [req EXCEPT ![t] = [req[t] EXCEPT !.to = p]] /\ [req[t] EXCEPT !.to = p] \in ReqType
    BY <2>1, CallFacts, RequestTypes
  <2> QED
    BY <1>1, <2>1, <2>2, Goes, Asks DEF PcLabels
<1> QED
  BY <1>2, <1>3

\* The tasks that do not move stay coherent.
LEMMA CoherentStep ==
    ASSUME IInv, NEW t \in Tasks, Frame(t), HandsMatch(t)',
           \A u \in Tasks \ {t} : /\ lock' = u <=> lock = u
                                  /\ lock = u => scan' = scan
                                  /\ \A c \in held[u] : seg[c] # NoSegment => seg'[c] # NoSegment,
           \A hp \in Heaps : \A c \in Linked(hp)' : seg'[c] # NoSegment
    PROVE  Coherent'
<1>1. ASSUME NEW u \in Tasks \ {t} PROVE HandsMatch(u)'
  BY CallFacts DEF Frame, HandsMatch
<1> QED
  BY <1>1 DEF Coherent

\* The parts of the invariant.
LEMMA Assemble ==
    ASSUME MemoryType', CellsPartitioned', HintLinked', BlocksTile', CallType', Coherent'
    PROVE  IInv'
  BY DEF IInv, TypeOK

\* A step that leaves the memory and the critical section alone.
LEMMA CallStep ==
    ASSUME IInv, NEW t \in Tasks, UNCHANGED <<memory, lock, scan, live>>,
           pc' \in [Tasks -> PcLabels], req' \in [Tasks -> ReqType],
           \A u \in Tasks \ {t} : pc'[u] = pc[u] /\ req'[u] = req[u],
           HandsMatch(t)'
    PROVE  IInv'
<1>1. MemoryType' /\ CellsPartitioned' /\ HintLinked' /\ BlocksTile'
  BY QuietStep
<1>2. CallType'
  BY DEF IInv, TypeOK, CallType
<1>3. Coherent'
  <2>1. Frame(t)
    BY DEF Frame, memory
  <2>2. \A hp \in Heaps : \A c \in Linked(hp)' : seg'[c] # NoSegment
    BY CallFacts DEF Linked, memory
  <2> QED
    BY <2>1, <2>2, CoherentStep DEF memory
<1> QED
  BY <1>1, <1>2, <1>3, Assemble

-----------------------------------------------------------------------------
(* Every step keeps the invariant, one lemma for each kind of step.        *)

\* What the guards of the critical sections say of the tasks.
LEMMA AtFacts ==
    ASSUME IInv, NEW t \in Tasks
    PROVE  /\ pc[t] # "scan" => lock # t
           /\ pc[t] \notin {"link", "growLink", "rawLink", "release", "scan", "trimRelease"}
                => held[t] = {}
  BY CallFacts DEF HandsMatch

\* The places of a call that neither hold memory nor the critical section.
LEMMA IdleHands ==
    ASSUME IInv, NEW t \in Tasks, held'[t] = {}, lock' # t,
           pc'[t] \in {"idle", "alloc", "raw", "free", "freeFallback", "realloc", "find", "trim"}
    PROVE  HandsMatch(t)'
  BY DEF HandsMatch

\* Entering a call keeps the invariant (heapAlloc, heapFree, heapRealloc, mallocTrim).
LEMMA CallsKeep ==
    ASSUME IInv, NEW t \in Tasks,
           \/ \E n \in Sizes, caps \in RequestCaps : HeapAlloc(t, n, caps)
           \/ \E p \in Usable \cup {ForeignPtr} :
                HeapFree(t, p) \/ \E n \in Sizes : HeapRealloc(t, p, n)
           \/ \E pad \in Pads : MallocTrim(t, pad)
    PROVE  IInv'
<1>1. Usable \cup {ForeignPtr} \subseteq PtrType
  BY CallFacts, RequestTypes DEF Usable
<1>2. PICK l \in {"alloc", "free", "realloc", "trim"}, r \in ReqType :
         /\ pc[t] = "idle" /\ Goto(t, l) /\ req' = [req EXCEPT ![t] = r]
         /\ UNCHANGED <<memory, lock, scan, live>>
  <2>1. CASE \E n \in Sizes, caps \in RequestCaps : HeapAlloc(t, n, caps)
    <3>1. PICK n \in Sizes, caps \in RequestCaps : HeapAlloc(t, n, caps)
      BY <2>1
    <3> DEFINE size == IF n = 0 THEN 1 ELSE n
               r == [NoReq EXCEPT !.size = size, !.caps = caps]
    <3>2. size \in Nat /\ caps \in SUBSET Flags
      BY ArgumentAssumption
    <3> HIDE DEF size
    <3>3. r \in ReqType
      BY <3>2, RequestTypes
    <3>4. /\ pc[t] = "idle" /\ Goto(t, "alloc") /\ req' = [req EXCEPT ![t] = r]
          /\ UNCHANGED <<memory, lock, scan, live>>
      BY <3>1 DEF HeapAlloc, size, memory, trimVars
    <3> HIDE DEF r
    <3> QED
      BY <3>3, <3>4
  <2>2. CASE \E p \in Usable \cup {ForeignPtr} : HeapFree(t, p)
    <3>1. PICK p \in Usable \cup {ForeignPtr} : HeapFree(t, p)
      BY <2>2
    <3> DEFINE r == [NoReq EXCEPT !.ptr = p]
    <3>2. r \in ReqType
      BY <1>1, RequestTypes
    <3>3. /\ pc[t] = "idle" /\ Goto(t, "free") /\ req' = [req EXCEPT ![t] = r]
          /\ UNCHANGED <<memory, lock, scan, live>>
      BY <3>1 DEF HeapFree, memory, trimVars
    <3> HIDE DEF r
    <3> QED
      BY <3>2, <3>3
  <2>3. CASE \E p \in Usable \cup {ForeignPtr} : \E n \in Sizes : HeapRealloc(t, p, n)
    <3>1. PICK p \in Usable \cup {ForeignPtr}, n \in Sizes : HeapRealloc(t, p, n)
      BY <2>3
    <3> DEFINE r == [NoReq EXCEPT !.size = n, !.ptr = p]
    <3>2. r \in ReqType
      BY <1>1, RequestTypes, ArgumentAssumption
    <3>3. /\ pc[t] = "idle" /\ Goto(t, "realloc") /\ req' = [req EXCEPT ![t] = r]
          /\ UNCHANGED <<memory, lock, scan, live>>
      BY <3>1 DEF HeapRealloc, memory, trimVars
    <3> HIDE DEF r
    <3> QED
      BY <3>2, <3>3
  <2>4. CASE \E pad \in Pads : MallocTrim(t, pad)
    <3>1. PICK pad \in Pads : MallocTrim(t, pad)
      BY <2>4
    <3> DEFINE r == [NoReq EXCEPT !.size = pad]
    <3>2. r \in ReqType
      BY RequestTypes, ArgumentAssumption
    <3>3. /\ pc[t] = "idle" /\ Goto(t, "trim") /\ req' = [req EXCEPT ![t] = r]
          /\ UNCHANGED <<memory, lock, scan, live>>
      BY <3>1 DEF MallocTrim, memory, trimVars
    <3> HIDE DEF r
    <3> QED
      BY <3>2, <3>3
  <2> QED
    BY <2>1, <2>2, <2>3, <2>4
<1>3. /\ pc' \in [Tasks -> PcLabels] /\ pc'[t] = l
      /\ req' \in [Tasks -> ReqType]
      /\ \A u \in Tasks \ {t} : pc'[u] = pc[u] /\ req'[u] = req[u]
  <2>1. l \in PcLabels
    BY DEF PcLabels
  <2> QED
    BY <1>2, <2>1, Goes, Asks
<1>4. HandsMatch(t)'
  <2>1. held'[t] = {} /\ lock' # t
    BY <1>2, AtFacts DEF memory
  <2> QED
    BY <1>3, <2>1, IdleHands
<1> QED
  BY <1>2, <1>3, <1>4, CallStep

\* A critical section that works on one heap; the call goes on or returns.
LEMMA WorkKeeps ==
    ASSUME IInv, NEW t \in Tasks, pc[t] \in {"alloc", "free", "realloc"},
           NEW hp \in Heaps, NEW h, NEW s, HeapStep(heap[hp], seg, h, s),
           heap' = [heap EXCEPT ![hp] = h], seg' = s,
           UNCHANGED <<fallbackVars, sys, held, trimVars>>,
           pc' \in [Tasks -> PcLabels], pc'[t] \in {"idle", "free"},
           req' \in [Tasks -> ReqType],
           DOMAIN live' \subseteq Cells \X Nat, \A q \in DOMAIN live' : live'[q] \in Nat,
           \A u \in Tasks \ {t} : pc'[u] = pc[u] /\ req'[u] = req[u]
    PROVE  IInv'
<1>1. /\ MemoryType' /\ CellsPartitioned' /\ HintLinked' /\ BlocksTile'
      /\ \A c \in Cells : seg[c] # NoSegment => seg'[c] # NoSegment
      /\ \A g \in Heaps : Linked(g)' = Linked(g)
  BY WorkStep
<1>2. CallType'
  BY DEF IInv, TypeOK, CallType, trimVars
<1>3. Coherent'
  <2>1. Frame(t) /\ HandsMatch(t)'
    <3>1. held'[t] = {} /\ lock' # t
      BY AtFacts DEF trimVars
    <3> QED
      BY <3>1, IdleHands DEF Frame
  <2>2. \A u \in Tasks : held[u] \subseteq Cells
    BY CallFacts
  <2>3. \A hp1 \in Heaps : \A c \in Linked(hp1)' : seg'[c] # NoSegment
    BY <1>1, CallFacts, Placed
  <2> QED
    BY <1>1, <2>1, <2>2, <2>3, CoherentStep DEF trimVars
<1> QED
  BY <1>1, <1>2, <1>3, Assemble

\* live without a pointer is still a function to numbers.
LEMMA WithoutType ==
    ASSUME IInv, NEW p
    PROVE  DOMAIN Without(p) \subseteq Cells \X Nat /\ \A q \in DOMAIN Without(p) : Without(p)[q] \in Nat
  BY DEF Without, IInv, TypeOK, CallType

\* The end of a heapRealloc that moved or resized the block is well typed.
LEMMA ReallocatedFacts ==
    ASSUME IInv, NEW t \in Tasks, NEW q \in Cells \X Nat, Reallocated(t, q)
    PROVE  /\ pc' \in [Tasks -> PcLabels] /\ pc'[t] = "idle"
           /\ req' \in [Tasks -> ReqType]
           /\ DOMAIN live' \subseteq Cells \X Nat /\ \A p \in DOMAIN live' : live'[p] \in Nat
           /\ \A u \in Tasks \ {t} : pc'[u] = pc[u] /\ req'[u] = req[u]
<1>1. live' = With(Without(req[t].ptr), q, req[t].size) /\ Return(t)
  BY DEF Reallocated
<1>2. DOMAIN live' \subseteq Cells \X Nat /\ \A p \in DOMAIN live' : live'[p] \in Nat
  BY <1>1, CallFacts, WithoutType DEF With
<1> QED
  BY <1>1, <1>2, Returns

\* The fast path of heapAlloc keeps the invariant (ProtoGC.h:367-374).
LEMMA AllocFastKeeps ==
    ASSUME IInv, NEW t \in Tasks, AllocFast(t)
    PROVE  IInv'
<1> DEFINE hp == managedHeapForCaps(req[t].caps)
           r == allocate(heap[hp], seg, req[t].size, req[t].caps)
<1>0. /\ pc[t] = "alloc" /\ UNCHANGED <<fallbackVars, sys, held, trimVars>>
      /\ IF hp = NoHeap
         THEN Goto(t, "raw") /\ UNCHANGED <<heap, seg, req, live>>
         ELSE IF r.ptr # NoPtr
         THEN SetHeap(hp, r) /\ Deliver(t, r.ptr)
         ELSE /\ Goto(t, "create")
              /\ req' = [req EXCEPT ![t].heap = hp]
              /\ UNCHANGED <<heap, seg, live>>
  BY DEF AllocFast
<1>1. hp \in Heaps \cup {NoHeap}
  BY DEF managedHeapForCaps, Heaps
<1>2. held[t] = {} /\ lock # t
  BY <1>0, AtFacts
<1>3. CASE hp = NoHeap
  <2>1. Goto(t, "raw") /\ UNCHANGED <<memory, req, live, lock, scan>>
    BY <1>0, <1>3 DEF memory, trimVars
  <2>2. /\ pc' \in [Tasks -> PcLabels] /\ pc'[t] = "raw"
        /\ \A u \in Tasks \ {t} : pc'[u] = pc[u] /\ req'[u] = req[u]
    BY <2>1, Goes DEF PcLabels
  <2>3. HandsMatch(t)'
    BY <1>2, <2>1, <2>2, IdleHands DEF memory
  <2> QED
    BY <2>1, <2>2, <2>3, CallFacts, CallStep
<1>4. CASE hp # NoHeap /\ r.ptr # NoPtr
  <2>1. /\ HeapStep(heap[hp], seg, r.h, r.seg) /\ r.ptr \in Cells \X Nat
    BY <1>1, <1>4, HeapsWell, CallFacts, AllocateStep
  <2>2. SetHeap(hp, r) /\ Deliver(t, r.ptr)
    BY <1>0, <1>4
  <2>3. heap' = [heap EXCEPT ![hp] = r.h] /\ seg' = r.seg
    BY <2>2 DEF SetHeap
  <2> HIDE DEF hp, r
  <2> QED
    BY <1>0, <1>1, <1>4, <2>1, <2>2, <2>3, Delivers, WorkKeeps
<1>5. CASE hp # NoHeap /\ r.ptr = NoPtr
  <2>1. Goto(t, "create") /\ UNCHANGED <<memory, live, lock, scan>>
    BY <1>0, <1>5 DEF memory, trimVars
  <2>2. req' = [req EXCEPT ![t] = [req[t] EXCEPT !.heap = hp]]
    BY <1>0, <1>5, CallFacts
  <2> HIDE DEF hp, r
  <2>3. [req[t] EXCEPT !.heap = hp] \in ReqType /\ [req[t] EXCEPT !.heap = hp].heap = hp
    BY <1>1, CallFacts, RequestTypes DEF ReqType
  <2>4. /\ pc' \in [Tasks -> PcLabels] /\ pc'[t] = "create"
        /\ req' \in [Tasks -> ReqType] /\ req'[t].heap = hp
        /\ \A u \in Tasks \ {t} : pc'[u] = pc[u] /\ req'[u] = req[u]
    BY <2>1, <2>2, <2>3, Goes, Asks DEF PcLabels
  <2>5. HandsMatch(t)'
    BY <1>2, <1>5, <2>1, <2>4 DEF HandsMatch, memory
  <2> QED
    BY <2>1, <2>4, <2>5, CallStep
<1> QED
  BY <1>3, <1>4, <1>5

\* The first critical section of heapFreeBytes keeps it (ProtoGC.h:993-1003).
LEMMA FreeManagedKeeps ==
    ASSUME IInv, NEW t \in Tasks, FreeManaged(t)
    PROVE  IInv'
<1> DEFINE p == req[t].ptr
           hp == owningManagedHeap(p)
           r == deallocate(heap[hp], seg, p)
<1>0. /\ pc[t] = "free" /\ UNCHANGED <<fallbackVars, sys, held, trimVars>>
      /\ IF hp # NoHeap /\ r.ok
         THEN SetHeap(hp, r) /\ live' = Without(p) /\ Return(t)
         ELSE Goto(t, "freeFallback") /\ UNCHANGED <<heap, seg, req, live>>
  BY DEF FreeManaged
<1>1. CASE hp # NoHeap /\ r.ok
  <2>1. hp \in Heaps
    BY <1>1 DEF owningManagedHeap, Heaps
  <2>2. HeapStep(heap[hp], seg, r.h, r.seg)
    BY <2>1, HeapsWell, DeallocateStep
  <2>3. heap' = [heap EXCEPT ![hp] = r.h] /\ seg' = r.seg /\ live' = Without(p) /\ Return(t)
    BY <1>0, <1>1 DEF SetHeap
  <2> HIDE DEF hp, r, p
  <2> QED
    BY <1>0, <2>1, <2>2, <2>3, Returns, WithoutType, WorkKeeps
<1>2. CASE ~(hp # NoHeap /\ r.ok)
  <2>1. Goto(t, "freeFallback") /\ UNCHANGED <<memory, req, live, lock, scan>>
    BY <1>0, <1>2 DEF memory, trimVars
  <2>2. /\ pc' \in [Tasks -> PcLabels] /\ pc'[t] = "freeFallback"
        /\ \A u \in Tasks \ {t} : pc'[u] = pc[u] /\ req'[u] = req[u]
    BY <2>1, Goes DEF PcLabels
  <2>3. HandsMatch(t)'
    BY <1>0, <2>1, <2>2, AtFacts, IdleHands DEF memory
  <2> QED
    BY <2>1, <2>2, <2>3, CallFacts, CallStep
<1> QED
  BY <1>1, <1>2

\* The first critical section of heapRealloc keeps it (ProtoGC.h:440-450).
LEMMA ReallocFastKeeps ==
    ASSUME IInv, NEW t \in Tasks, ReallocFast(t)
    PROVE  IInv'
<1> DEFINE p == req[t].ptr
           hp == owningManagedHeap(p)
           q == reallocate(heap[hp], seg, p, req[t].size, heap[hp].requiredCaps)
           r == IF hp = NoHeap THEN [status |-> "NotOwned"] ELSE q
           l == IF r.status = "NeedsGrowth" THEN "growCreate" ELSE "find"
<1>0. /\ pc[t] = "realloc" /\ UNCHANGED <<fallbackVars, sys, held, trimVars>>
      /\ IF r.status = "Done"
         THEN SetHeap(hp, r) /\ Reallocated(t, r.ptr)
         ELSE /\ Goto(t, l)
              /\ req' = [req EXCEPT ![t].heap = hp]
              /\ UNCHANGED <<heap, seg, live>>
  BY DEF ReallocFast
<1>1. hp \in Heaps \cup {NoHeap}
  BY DEF owningManagedHeap, Heaps
<1>2. hp \in Heaps => /\ HeapStep(heap[hp], seg, q.h, q.seg)
                      /\ q.status = "Done" => q.ptr \in Cells \X Nat
  <2>1. \E X : p \in X \X Nat
    BY CallFacts DEF PtrType
  <2>2. PICK X : p \in X \X Nat
    BY <2>1
  <2>3. req[t].size \in Nat
    BY CallFacts
  <2> QED
    BY <2>2, <2>3, HeapsWell, ReallocateStep
<1>3. hp = NoHeap => r.status = "NotOwned"
  OBVIOUS
<1>4. hp # NoHeap => r = q
  OBVIOUS
<1>5. CASE r.status = "Done"
  <2>1. hp \in Heaps /\ r = q
    BY <1>1, <1>3, <1>4, <1>5
  <2>2. /\ heap' = [heap EXCEPT ![hp] = q.h] /\ seg' = q.seg
        /\ Reallocated(t, q.ptr) /\ q.ptr \in Cells \X Nat
    BY <1>0, <1>2, <1>5, <2>1 DEF SetHeap
  <2> HIDE DEF hp, r, p, q
  <2> QED
    BY <1>0, <1>2, <2>1, <2>2, ReallocatedFacts, WorkKeeps
<1>6. CASE r.status # "Done"
  <2>1. Goto(t, l) /\ UNCHANGED <<memory, live, lock, scan>>
    BY <1>0, <1>6 DEF memory, trimVars
  <2>2. req' = [req EXCEPT ![t] = [req[t] EXCEPT !.heap = hp]]
    BY <1>0, <1>6, CallFacts
  <2>3. l \in PcLabels /\ l \in {"growCreate", "find"}
    BY DEF PcLabels
  <2>4. l = "growCreate" => hp # NoHeap
    BY <1>3
  <2> HIDE DEF hp, r, p, q, l
  <2>5. [req[t] EXCEPT !.heap = hp] \in ReqType /\ [req[t] EXCEPT !.heap = hp].heap = hp
    BY <1>1, CallFacts, RequestTypes DEF ReqType
  <2>6. /\ pc' \in [Tasks -> PcLabels] /\ pc'[t] = l
        /\ req' \in [Tasks -> ReqType] /\ req'[t].heap = hp
        /\ \A u \in Tasks \ {t} : pc'[u] = pc[u] /\ req'[u] = req[u]
    BY <2>1, <2>2, <2>3, <2>5, Goes, Asks
  <2>7. held[t] = {} /\ lock # t
    BY <1>0, AtFacts
  <2>8. HandsMatch(t)'
    BY <2>1, <2>3, <2>4, <2>6, <2>7 DEF HandsMatch, memory
  <2> QED
    BY <2>1, <2>6, <2>8, CallStep
<1> QED
  BY <1>5, <1>6

\* So does its search of the fallback list (ProtoGC.h:468-482).
LEMMA FindFallbackKeeps ==
    ASSUME IInv, NEW t \in Tasks, FindFallback(t)
    PROVE  IInv'
<1> DEFINE found == findFallbackHeader(req[t].ptr)
           c == CHOOSE c \in found : TRUE
<1>0. /\ pc[t] = "find" /\ UNCHANGED <<memory, lock, scan, live>>
      /\ IF found = {} THEN Return(t)
         ELSE Goto(t, "alloc") /\ req' = [req EXCEPT ![t].caps = fallback[c].caps]
  BY DEF FindFallback, memory, trimVars
<1>1. held'[t] = {} /\ lock' # t
  BY <1>0, AtFacts DEF memory
<1>2. CASE found = {}
  BY <1>0, <1>1, <1>2, Returns, IdleHands, CallStep
<1>3. CASE found # {}
  <2>1. c \in DOMAIN fallback
    BY <1>3 DEF findFallbackHeader
  <2>2. fallback[c].caps \in SUBSET Flags
    BY <2>1 DEF IInv, TypeOK, MemoryType
  <2>3. req' = [req EXCEPT ![t] = [req[t] EXCEPT !.caps = fallback[c].caps]] /\ Goto(t, "alloc")
    BY <1>0, <1>3, CallFacts
  <2> HIDE DEF c, found
  <2>4. [req[t] EXCEPT !.caps = fallback[c].caps] \in ReqType
    BY <2>2, CallFacts, RequestTypes
  <2>5. /\ pc' \in [Tasks -> PcLabels] /\ pc'[t] = "alloc"
        /\ req' \in [Tasks -> ReqType]
        /\ \A u \in Tasks \ {t} : pc'[u] = pc[u] /\ req'[u] = req[u]
    BY <2>3, <2>4, Goes, Asks DEF PcLabels
  <2> QED
    BY <1>0, <1>1, <2>5, IdleHands, CallStep
<1> QED
  BY <1>2, <1>3

\* createSegment formats a cell that the system heap hands out.
LEMMA CreateSegmentKeeps ==
    ASSUME IInv, NEW t \in Tasks, CreateSegment(t)
    PROVE  IInv'
<1> DEFINE l == IF pc[t] = "create" THEN "link" ELSE "growLink"
<1>0. /\ pc[t] \in {"create", "growCreate"}
      /\ Goto(t, l) /\ UNCHANGED <<heap, fallbackVars, trimVars, req, live>>
  BY DEF CreateSegment
<1>1. PICK c \in sys, payload \in segmentPayloads(req[t].size) :
        /\ seg' = [seg EXCEPT ![c] = newSegment(payload, growthCaps(t))]
        /\ sys' = sys \ {c}
        /\ held' = [held EXCEPT ![t] = {c}]
  BY DEF CreateSegment
<1>2. c \in Cells /\ held[t] = {} /\ lock # t /\ req[t].heap \in Heaps
  <2>1. c \in Cells
    BY Placed
  <2>2. held[t] = {} /\ lock # t
    BY <1>0, AtFacts
  <2>3. req[t].heap \in Heaps
    BY <1>0, CallFacts DEF HandsMatch
  <2> QED
    BY <2>1, <2>2, <2>3
<1>3. payload \in Nat /\ growthCaps(t) \in SUBSET Flags
  <2>1. payload \in Nat
    BY CallFacts, PayloadsAreNumbers
  <2>2. heap[req[t].heap].requiredCaps \in SUBSET Flags
    BY <1>2 DEF IInv, TypeOK, MemoryType, AllocatorType
  <2> QED
    BY <2>1, <2>2, CallFacts DEF growthCaps
<1> DEFINE s == newSegment(payload, growthCaps(t))
<1>4. SoundSegment(s) /\ DOMAIN s = {"total", "caps", "blk"} /\ s.total \in Nat /\ s.caps \subseteq Flags
  BY <1>3, FreshSegment
<1>5. s # NoSegment
  <2>1. FirstBlock \in DOMAIN s.blk
    BY <1>4 DEF SoundSegment, Tiles
  <2>2. DOMAIN NoSegment.blk = {}
    BY DEF NoSegment
  <2> HIDE DEF s
  <2> QED
    BY <2>1, <2>2
<1>6. seg' = [seg EXCEPT ![c] = s]
  BY <1>1
<1> HIDE DEF s
<1>7. /\ MemoryType' /\ CellsPartitioned' /\ HintLinked' /\ BlocksTile'
      /\ \A hp \in Heaps : Linked(hp)' = Linked(hp) /\ c \notin Linked(hp)
      /\ seg'[c] = s /\ \A d \in Cells \ {c} : seg'[d] = seg[d]
  <2>1. sys' \subseteq Cells /\ sys' \cup {c} = sys \cup held[t] /\ sys' \cap {c} = {}
    BY <1>1, <1>2, Placed
  <2>2. {c} \in SUBSET Cells
    BY <1>2
  <2> QED
    BY <1>0, <1>1, <1>2, <1>4, <1>6, <2>1, <2>2, FormatStep
<1>8. /\ pc' \in [Tasks -> PcLabels] /\ pc'[t] = l /\ l \in {"link", "growLink"}
      /\ \A u \in Tasks \ {t} : pc'[u] = pc[u] /\ req'[u] = req[u]
  BY <1>0, Goes DEF PcLabels
<1>9. /\ held'[t] = {c} /\ \A u \in Tasks \ {t} : held'[u] = held[u]
  BY <1>1, CallFacts
<1>10. CallType'
  BY <1>0, <1>8 DEF IInv, TypeOK, CallType, trimVars
<1>11. HandsMatch(t)'
  <2>1. req'[t].heap \in Heaps /\ lock' # t
    BY <1>0, <1>2 DEF trimVars
  <2> QED
    BY <1>2, <1>5, <1>7, <1>8, <1>9, <2>1, NoHeapAssumption DEF HandsMatch
<1>12. Coherent'
  <2>1. Frame(t)
    BY <1>8, <1>9 DEF Frame
  <2>2. \A u \in Tasks : held[u] \subseteq Cells
    BY CallFacts
  <2>3. \A d \in Cells : seg[d] # NoSegment => seg'[d] # NoSegment
    BY <1>5, <1>7
  <2>4. \A hp \in Heaps : \A d \in Linked(hp)' : seg'[d] # NoSegment
    BY <1>7, <2>3, CallFacts, Placed
  <2> QED
    BY <1>0, <1>11, <2>1, <2>2, <2>3, <2>4, CoherentStep DEF trimVars
<1> QED
  BY <1>7, <1>10, <1>12, Assemble

\* A growth that fails keeps it (HeapAllocator.h:203-213).
LEMMA CreateFailsKeeps ==
    ASSUME IInv, NEW t \in Tasks, CreateFails(t)
    PROVE  IInv'
<1>0. /\ pc[t] \in {"create", "growCreate"}
      /\ (Goto(t, "raw") /\ UNCHANGED req) \/ Return(t)
      /\ UNCHANGED <<memory, lock, scan, live>>
  BY DEF CreateFails, memory, trimVars
<1>1. held'[t] = {} /\ lock' # t
  BY <1>0, AtFacts DEF memory
<1>2. /\ pc' \in [Tasks -> PcLabels] /\ pc'[t] \in {"raw", "idle"}
      /\ req' \in [Tasks -> ReqType]
      /\ \A u \in Tasks \ {t} : pc'[u] = pc[u] /\ req'[u] = req[u]
  <2>1. CASE Goto(t, "raw") /\ UNCHANGED req
    BY <2>1, Goes, CallFacts DEF PcLabels
  <2>2. CASE Return(t)
    BY <2>2, Returns
  <2> QED
    BY <1>0, <2>1, <2>2
<1> QED
  BY <1>0, <1>1, <1>2, IdleHands, CallStep

\* The critical section after a growth: link, work, go on or return.
LEMMA LinkKeeps ==
    ASSUME IInv, NEW t \in Tasks, pc[t] \in {"link", "growLink"},
           NEW c \in held[t], NEW h, NEW s,
           HeapStep(linkSegment(heap[req[t].heap], seg, c), seg, h, s),
           heap' = [heap EXCEPT ![req[t].heap] = h], seg' = s,
           held' = [held EXCEPT ![t] = {}],
           UNCHANGED <<fallbackVars, sys, trimVars>>,
           pc' \in [Tasks -> PcLabels], pc'[t] \in {"idle", "free", "raw"},
           req' \in [Tasks -> ReqType],
           DOMAIN live' \subseteq Cells \X Nat, \A q \in DOMAIN live' : live'[q] \in Nat,
           \A u \in Tasks \ {t} : pc'[u] = pc[u] /\ req'[u] = req[u]
    PROVE  IInv'
<1>0. /\ held[t] = {c} /\ c \in Cells /\ seg[c] # NoSegment /\ req[t].heap \in Heaps /\ lock # t
  BY CallFacts, AtFacts DEF HandsMatch
<1>1. /\ MemoryType' /\ CellsPartitioned' /\ HintLinked' /\ BlocksTile'
      /\ \A d \in Cells : seg[d] # NoSegment => seg'[d] # NoSegment
      /\ \A g \in Heaps : \A d \in Linked(g)' : seg'[d] # NoSegment
  <2>0. PICK hp \in Heaps : hp = req[t].heap
    BY <1>0
  <2>1. HeapStep(linkSegment(heap[hp], seg, c), seg, h, s)
    BY <2>0
  <2>2. heap \in [Heaps -> AllocatorType] /\ held \in [Tasks -> SUBSET Cells]
    BY DEF IInv, TypeOK, MemoryType
  <2>3. /\ DOMAIN heap' = Heaps /\ heap'[hp] = h /\ heap' = [g \in Heaps |-> heap'[g]]
        /\ \A g \in Heaps \ {hp} : heap'[g] = heap[g]
    BY <2>0, <2>2
  <2>4. /\ held' \in [Tasks -> SUBSET Cells] /\ held'[t] = {}
        /\ \A u \in Tasks \ {t} : held'[u] = held[u]
    BY <2>2
  <2>5. UNCHANGED <<fallbackVars, sys>> /\ seg' = s
    OBVIOUS
  <2> QED
    BY <1>0, <2>1, <2>3, <2>4, <2>5, LinkStep
<1>2. CallType'
  BY DEF IInv, TypeOK, CallType, trimVars
<1>3. held'[t] = {} /\ \A u \in Tasks \ {t} : held'[u] = held[u]
  BY CallFacts
<1>4. Coherent'
  <2>1. Frame(t) /\ HandsMatch(t)'
    <3>1. lock' # t
      BY <1>0 DEF trimVars
    <3>2. HandsMatch(t)'
      BY <1>3, <3>1, IdleHands
    <3> QED
      BY <1>3, <3>2 DEF Frame
  <2>2. \A u \in Tasks : held[u] \subseteq Cells
    BY CallFacts
  <2> QED
    BY <1>1, <2>1, <2>2, CoherentStep DEF trimVars
<1> QED
  BY <1>1, <1>2, <1>4, Assemble

\* The heap a task has just linked its cell to is well formed.
LEMMA LinkedWell ==
    ASSUME IInv, NEW t \in Tasks, pc[t] \in {"link", "growLink"}, NEW c \in held[t]
    PROVE  Well(linkSegment(heap[req[t].heap], seg, c), seg)
<1>0. /\ c \in Cells /\ seg[c] # NoSegment /\ req[t].heap \in Heaps
  BY CallFacts, AtFacts DEF HandsMatch
<1>1. SoundSegment(seg[c])
  BY <1>0 DEF IInv, BlocksTile, SoundSegment
<1>2. c \notin Listed(heap[req[t].heap])
  BY <1>0, Placed, LinkedIsListed
<1>3. Well(heap[req[t].heap], seg)
  BY <1>0, HeapsWell
<1> QED
  BY <1>0, <1>1, <1>2, <1>3, LinkFacts

\* The critical section that links a segment for heapAlloc keeps it (ProtoGC.h:382-391).
LEMMA LinkSegmentKeeps ==
    ASSUME IInv, NEW t \in Tasks, LinkSegment(t)
    PROVE  IInv'
<1> DEFINE hp == req[t].heap
           c == CHOOSE c \in held[t] : TRUE
           linked == linkSegment(heap[hp], seg, c)
           r == allocate(linked, seg, req[t].size, req[t].caps)
<1>0. /\ pc[t] = "link" /\ UNCHANGED <<fallbackVars, sys, trimVars>>
      /\ held' = [held EXCEPT ![t] = {}]
      /\ heap' = [heap EXCEPT ![hp] = r.h] /\ seg' = r.seg
      /\ IF r.ptr # NoPtr THEN Deliver(t, r.ptr)
                          ELSE Goto(t, "raw") /\ UNCHANGED <<req, live>>
  BY DEF LinkSegment, SetHeap
<1>1. c \in held[t]
  BY <1>0, CallFacts DEF HandsMatch
<1>2. Well(linked, seg)
  BY <1>0, <1>1, LinkedWell
<1>3. /\ HeapStep(linked, seg, r.h, r.seg)
      /\ r.ptr # NoPtr => r.ptr \in Cells \X Nat
  BY <1>2, CallFacts, AllocateStep
<1>4. HeapStep(linkSegment(heap[req[t].heap], seg, c), seg, r.h, r.seg)
  BY <1>3
<1> HIDE DEF r, c
<1>5. CASE r.ptr # NoPtr
  <2>1. Deliver(t, r.ptr) /\ r.ptr \in Cells \X Nat
    BY <1>0, <1>3, <1>5
  <2> QED
    BY <1>0, <1>1, <1>4, <2>1, Delivers, LinkKeeps
<1>6. CASE r.ptr = NoPtr
  <2>1. Goto(t, "raw") /\ UNCHANGED <<req, live>>
    BY <1>0, <1>6
  <2>2. /\ pc' \in [Tasks -> PcLabels] /\ pc'[t] = "raw"
        /\ \A u \in Tasks \ {t} : pc'[u] = pc[u]
    BY <2>1, Goes DEF PcLabels
  <2> QED
    BY <1>0, <1>1, <1>4, <2>1, <2>2, CallFacts, LinkKeeps
<1> QED
  BY <1>5, <1>6

\* The one that links a segment for heapRealloc keeps it (ProtoGC.h:455-462).
LEMMA GrowLinkKeeps ==
    ASSUME IInv, NEW t \in Tasks, GrowLink(t)
    PROVE  IInv'
<1> DEFINE hp == req[t].heap
           c == CHOOSE c \in held[t] : TRUE
           linked == linkSegment(heap[hp], seg, c)
           r == reallocate(linked, seg, req[t].ptr, req[t].size, heap[hp].requiredCaps)
<1>0. /\ pc[t] = "growLink" /\ UNCHANGED <<fallbackVars, sys, trimVars>>
      /\ held' = [held EXCEPT ![t] = {}]
      /\ heap' = [heap EXCEPT ![hp] = r.h] /\ seg' = r.seg
      /\ IF r.status = "Done" THEN Reallocated(t, r.ptr) ELSE Return(t) /\ UNCHANGED live
  BY DEF GrowLink, SetHeap
<1>1. c \in held[t]
  BY <1>0, CallFacts DEF HandsMatch
<1>2. Well(linked, seg)
  BY <1>0, <1>1, LinkedWell
<1>3. /\ HeapStep(linked, seg, r.h, r.seg)
      /\ r.status = "Done" => r.ptr \in Cells \X Nat
  <2>1. PICK X : req[t].ptr \in X \X Nat
    <3>1. \E X : req[t].ptr \in X \X Nat
      BY CallFacts DEF PtrType
    <3> QED
      BY <3>1
  <2>2. req[t].size \in Nat
    BY CallFacts
  <2> QED
    BY <1>2, <2>1, <2>2, ReallocateStep
<1>4. HeapStep(linkSegment(heap[req[t].heap], seg, c), seg, r.h, r.seg)
  BY <1>3
<1> HIDE DEF r, c
<1>5. CASE r.status = "Done"
  <2>1. Reallocated(t, r.ptr) /\ r.ptr \in Cells \X Nat
    BY <1>0, <1>3, <1>5
  <2> QED
    BY <1>0, <1>1, <1>4, <2>1, ReallocatedFacts, LinkKeeps
<1>6. CASE r.status # "Done"
  <2>1. Return(t) /\ UNCHANGED live
    BY <1>0, <1>6
  <2> QED
    BY <1>0, <1>1, <1>4, <2>1, Returns, CallFacts, LinkKeeps
<1> QED
  BY <1>5, <1>6

\* Taking a fallback block from the system heap keeps it (ProtoGC.h:394-401).
LEMMA RawAllocKeeps ==
    ASSUME IInv, NEW t \in Tasks, RawAlloc(t)
    PROVE  IInv'
<1>0. pc[t] = "raw" /\ UNCHANGED <<heap, seg, fallbackVars, trimVars, live>>
  BY DEF RawAlloc
<1>1. held[t] = {} /\ lock # t
  BY <1>0, AtFacts
<1>2. CASE \E c \in sys : /\ sys' = sys \ {c} /\ held' = [held EXCEPT ![t] = {c}]
                          /\ Goto(t, "rawLink") /\ UNCHANGED req
  <2>1. PICK c \in sys : /\ sys' = sys \ {c} /\ held' = [held EXCEPT ![t] = {c}]
                         /\ Goto(t, "rawLink") /\ UNCHANGED req
    BY <1>2
  <2>2. c \in Cells /\ sys \subseteq Cells /\ DOMAIN fallback \subseteq Cells
    BY Placed
  <2>3. c \notin DOMAIN fallback /\ sys \cap DOMAIN fallback = {}
    BY DEF IInv, CellsPartitioned
  <2>4. /\ MemoryType' /\ CellsPartitioned' /\ HintLinked' /\ BlocksTile'
        /\ \A hp \in Heaps : Linked(hp)' = Linked(hp)
    <3>1. /\ \A d \in DOMAIN fallback' : fallback'[d].size \in Nat /\ fallback'[d].caps \subseteq Flags
          /\ fallbackBlocks' \in Int /\ fallbackBytes' \in Int /\ fallback' = fallback
      BY <1>0 DEF IInv, TypeOK, MemoryType, fallbackVars
    <3>2. /\ sys' \cup DOMAIN fallback' \cup {c} = sys \cup DOMAIN fallback \cup held[t]
          /\ sys' \cap DOMAIN fallback' = {} /\ {c} \cap (sys' \cup DOMAIN fallback') = {}
          /\ sys' \subseteq Cells /\ DOMAIN fallback' \subseteq Cells
      BY <1>1, <2>1, <2>2, <2>3, <3>1
    <3>3. {c} \in SUBSET Cells
      BY <2>2
    <3> QED
      BY <1>0, <2>1, <3>1, <3>2, <3>3, HandsStep
  <2>5. /\ pc' \in [Tasks -> PcLabels] /\ pc'[t] = "rawLink"
        /\ \A u \in Tasks \ {t} : pc'[u] = pc[u]
    BY <2>1, Goes DEF PcLabels
  <2>6. held'[t] = {c} /\ \A u \in Tasks \ {t} : held'[u] = held[u]
    BY <2>1, CallFacts
  <2>7. CallType'
    BY <1>0, <2>1, <2>5 DEF IInv, TypeOK, CallType, trimVars
  <2>8. HandsMatch(t)'
    BY <1>0, <1>1, <2>2, <2>5, <2>6 DEF HandsMatch, trimVars
  <2>9. Coherent'
    <3>1. Frame(t)
      BY <2>1, <2>5, <2>6 DEF Frame
    <3>2. \A hp \in Heaps : \A d \in Linked(hp)' : seg'[d] # NoSegment
      BY <1>0, <2>4, CallFacts
    <3> QED
      BY <1>0, <2>8, <3>1, <3>2, CoherentStep DEF trimVars
  <2> QED
    BY <2>4, <2>7, <2>9, Assemble
<1>3. CASE Return(t) /\ UNCHANGED <<sys, held>>
  <2>1. UNCHANGED <<memory, lock, scan, live>>
    BY <1>0, <1>3 DEF memory, trimVars
  <2>2. held'[t] = {} /\ lock' # t
    BY <1>1, <2>1 DEF memory
  <2> QED
    BY <1>3, <2>1, <2>2, Returns, IdleHands, CallStep
<1> QED
  BY <1>2, <1>3 DEF RawAlloc

\* Pushing the block on the fallback list keeps it (ProtoGC.h:403-413).
LEMMA RawLinkKeeps ==
    ASSUME IInv, NEW t \in Tasks, RawLink(t)
    PROVE  IInv'
<1> DEFINE c == CHOOSE c \in held[t] : TRUE
           entry == [size |-> req[t].size, caps |-> req[t].caps]
<1>0. /\ pc[t] = "rawLink" /\ UNCHANGED <<heap, seg, sys, trimVars>>
      /\ fallback' = With(fallback, c, entry) /\ Deliver(t, FallbackPtr(c))
      /\ fallbackBlocks' = fallbackBlocks + 1 /\ fallbackBytes' = fallbackBytes + req[t].size
      /\ held' = [held EXCEPT ![t] = {}]
  BY DEF RawLink
<1>1. c \in Cells /\ held[t] = {c} /\ lock # t
  BY <1>0, CallFacts, AtFacts DEF HandsMatch
<1> HIDE DEF c
<1>2. /\ DOMAIN fallback' = DOMAIN fallback \cup {c}
      /\ \A d \in DOMAIN fallback' : fallback'[d].size \in Nat /\ fallback'[d].caps \subseteq Flags
  <2>1. /\ DOMAIN fallback' = DOMAIN fallback \cup {c}
        /\ \A d \in DOMAIN fallback' : fallback'[d] = IF d = c THEN entry ELSE fallback[d]
    BY <1>0 DEF With
  <2>2. entry.size \in Nat /\ entry.caps \subseteq Flags
    BY CallFacts
  <2> HIDE DEF entry
  <2>3. \A d \in DOMAIN fallback : fallback[d].size \in Nat /\ fallback[d].caps \subseteq Flags
    BY DEF IInv, TypeOK, MemoryType
  <2> QED
    BY <2>1, <2>2, <2>3
<1>3. /\ MemoryType' /\ CellsPartitioned' /\ HintLinked' /\ BlocksTile'
      /\ \A hp \in Heaps : Linked(hp)' = Linked(hp)
  <2>1. fallbackBlocks' \in Int /\ fallbackBytes' \in Int
    BY <1>0, CallFacts DEF IInv, TypeOK, MemoryType
  <2>2. c \notin sys /\ c \notin DOMAIN fallback /\ sys \subseteq Cells /\ DOMAIN fallback \subseteq Cells
    BY <1>1, Placed
  <2>3. sys \cap DOMAIN fallback = {}
    BY DEF IInv, CellsPartitioned
  <2>4. /\ sys' \cup DOMAIN fallback' \cup {} = sys \cup DOMAIN fallback \cup held[t]
        /\ sys' \cap DOMAIN fallback' = {} /\ {} \cap (sys' \cup DOMAIN fallback') = {}
        /\ sys' \subseteq Cells /\ DOMAIN fallback' \subseteq Cells
    BY <1>0, <1>1, <1>2, <2>2, <2>3
  <2>5. {} \in SUBSET Cells
    OBVIOUS
  <2> QED
    BY <1>0, <1>2, <2>1, <2>4, <2>5, HandsStep
<1>4. FallbackPtr(c) \in Cells \X Nat
  BY <1>1, ArgumentAssumption DEF FallbackPtr
<1>5. /\ pc' \in [Tasks -> PcLabels] /\ pc'[t] \in {"idle", "free"}
      /\ req' \in [Tasks -> ReqType]
      /\ DOMAIN live' \subseteq Cells \X Nat /\ \A q \in DOMAIN live' : live'[q] \in Nat
      /\ \A u \in Tasks \ {t} : pc'[u] = pc[u] /\ req'[u] = req[u]
  BY <1>0, <1>4, Delivers
<1>6. held'[t] = {} /\ \A u \in Tasks \ {t} : held'[u] = held[u]
  BY <1>0, CallFacts
<1>7. CallType'
  BY <1>0, <1>5 DEF IInv, TypeOK, CallType, trimVars
<1>8. Coherent'
  <2>1. HandsMatch(t)'
    BY <1>0, <1>1, <1>5, <1>6, IdleHands DEF trimVars
  <2>2. Frame(t)
    BY <1>5, <1>6 DEF Frame
  <2>3. \A hp \in Heaps : \A d \in Linked(hp)' : seg'[d] # NoSegment
    BY <1>0, <1>3, CallFacts
  <2> QED
    BY <1>0, <2>1, <2>2, <2>3, CoherentStep DEF trimVars
<1> QED
  BY <1>3, <1>7, <1>8, Assemble

\* Unlinking a fallback header keeps it (ProtoGC.h:1005-1023).
LEMMA FreeFallbackKeeps ==
    ASSUME IInv, NEW t \in Tasks, FreeFallback(t)
    PROVE  IInv'
<1> DEFINE found == findFallbackHeader(req[t].ptr)
           c == CHOOSE c \in found : TRUE
<1>0. /\ pc[t] = "freeFallback" /\ UNCHANGED <<heap, seg, sys, trimVars>>
      /\ IF found = {}
         THEN Return(t) /\ UNCHANGED <<fallbackVars, held, live>>
         ELSE /\ fallback' = [d \in DOMAIN fallback \ {c} |-> fallback[d]]
              /\ fallbackBlocks' = saturating(fallbackBlocks, 1)
              /\ fallbackBytes' = saturating(fallbackBytes, fallback[c].size)
              /\ held' = [held EXCEPT ![t] = {c}]
              /\ live' = Without(req[t].ptr)
              /\ Goto(t, "release") /\ UNCHANGED req
  BY DEF FreeFallback
<1>1. held[t] = {} /\ lock # t
  BY <1>0, AtFacts
<1>2. CASE found = {}
  <2>1. UNCHANGED <<memory, lock, scan, live>> /\ Return(t)
    BY <1>0, <1>2 DEF memory, trimVars
  <2>2. held'[t] = {} /\ lock' # t
    BY <1>1, <2>1 DEF memory
  <2> QED
    BY <2>1, <2>2, Returns, IdleHands, CallStep
<1>3. CASE found # {}
  <2>1. c \in DOMAIN fallback
    BY <1>3 DEF findFallbackHeader
  <2>2. /\ fallback' = [d \in DOMAIN fallback \ {c} |-> fallback[d]]
        /\ fallbackBlocks' = saturating(fallbackBlocks, 1)
        /\ fallbackBytes' = saturating(fallbackBytes, fallback[c].size)
        /\ held' = [held EXCEPT ![t] = {c}]
        /\ live' = Without(req[t].ptr)
        /\ Goto(t, "release") /\ UNCHANGED req
    BY <1>0, <1>3
  <2> HIDE DEF c, found
  <2>3. /\ DOMAIN fallback' = DOMAIN fallback \ {c}
        /\ \A d \in DOMAIN fallback' : fallback'[d].size \in Nat /\ fallback'[d].caps \subseteq Flags
        /\ fallback[c].size \in Nat /\ fallbackBytes \in Int /\ fallbackBlocks \in Int
    BY <2>1, <2>2 DEF IInv, TypeOK, MemoryType
  <2>4. fallbackBlocks' \in Int /\ fallbackBytes' \in Int
    BY <2>2, <2>3 DEF saturating
  <2>5. c \in Cells /\ c \notin sys /\ sys \subseteq Cells /\ DOMAIN fallback \subseteq Cells
        /\ sys \cap DOMAIN fallback = {}
    BY <2>1, Placed DEF IInv, CellsPartitioned
  <2>6. /\ MemoryType' /\ CellsPartitioned' /\ HintLinked' /\ BlocksTile'
        /\ \A hp \in Heaps : Linked(hp)' = Linked(hp)
    <3>1. /\ sys' \cup DOMAIN fallback' \cup {c} = sys \cup DOMAIN fallback \cup held[t]
          /\ sys' \cap DOMAIN fallback' = {} /\ {c} \cap (sys' \cup DOMAIN fallback') = {}
          /\ sys' \subseteq Cells /\ DOMAIN fallback' \subseteq Cells
      BY <1>0, <1>1, <2>1, <2>3, <2>5
    <3>2. {c} \in SUBSET Cells
      BY <2>5
    <3> QED
      BY <1>0, <2>2, <2>3, <2>4, <3>1, <3>2, HandsStep
  <2>7. /\ pc' \in [Tasks -> PcLabels] /\ pc'[t] = "release"
        /\ \A u \in Tasks \ {t} : pc'[u] = pc[u]
    BY <2>2, Goes DEF PcLabels
  <2>8. held'[t] = {c} /\ \A u \in Tasks \ {t} : held'[u] = held[u]
    BY <2>2, CallFacts
  <2>9. CallType'
    BY <1>0, <2>2, <2>7, WithoutType DEF IInv, TypeOK, CallType, trimVars
  <2>10. HandsMatch(t)'
    BY <1>0, <1>1, <2>5, <2>7, <2>8 DEF HandsMatch, trimVars
  <2>11. Coherent'
    <3>1. Frame(t)
      BY <2>2, <2>7, <2>8 DEF Frame
    <3>2. \A hp \in Heaps : \A d \in Linked(hp)' : seg'[d] # NoSegment
      BY <1>0, <2>6, CallFacts
    <3> QED
      BY <1>0, <2>10, <3>1, <3>2, CoherentStep DEF trimVars
  <2> QED
    BY <2>6, <2>9, <2>11, Assemble
<1> QED
  BY <1>2, <1>3

-----------------------------------------------------------------------------
(* The trim.                                                               *)

\* The position of the scanning trim is well typed.
LEMMA ScanTypes ==
    ASSUME IInv
    PROVE  /\ scan.heap \in Heaps /\ scan.at \in Nat \ {0} /\ scan.releasable \in Int
           /\ scan.count \in 0..TrimBatch
           /\ NoScan \in ScanType
           /\ \A hp \in Heaps, n \in 0..TrimBatch : ScanOf(hp, n) \in ScanType
           /\ TrimBatch \in Nat \ {0}
<1>1. scan \in ScanType /\ TrimBatch \in Nat \ {0}
  BY ArgumentAssumption DEF IInv, TypeOK, CallType
<1>2. \A hp \in Heaps : heap[hp].freeBytes \in Int
  BY DEF IInv, TypeOK, MemoryType, AllocatorType
<1>3. NoScan \in ScanType
  BY <1>1 DEF NoScan, ScanType, Heaps
<1>4. \A hp \in Heaps, n \in 0..TrimBatch : ScanOf(hp, n) \in ScanType
  BY <1>2 DEF ScanOf, ScanType
<1> QED
  BY <1>1, <1>3, <1>4 DEF ScanType

\* Entering the critical section of a trim keeps it (ProtoGC.h:663-664).
LEMMA TrimLockKeeps ==
    ASSUME IInv, NEW t \in Tasks, TrimLock(t)
    PROVE  IInv'
<1>0. /\ pc[t] = "trim" /\ lock = NoTask /\ lock' = t /\ scan' = ScanOf("psram", 0)
      /\ Goto(t, "scan") /\ UNCHANGED <<memory, req, live>>
  BY DEF TrimLock, Unlocked, memory
<1>1. held[t] = {} /\ held' = held
  BY <1>0, AtFacts DEF memory
<1>2. MemoryType' /\ CellsPartitioned' /\ HintLinked' /\ BlocksTile'
  BY <1>0, QuietStep
<1>3. /\ pc' \in [Tasks -> PcLabels] /\ pc'[t] = "scan"
      /\ \A u \in Tasks \ {t} : pc'[u] = pc[u]
  BY <1>0, Goes DEF PcLabels
<1>4. scan' \in ScanType /\ scan'.count = 0
  <2>1. "psram" \in Heaps /\ 0 \in 0..TrimBatch
    BY ScanTypes DEF Heaps
  <2> QED
    BY <1>0, <2>1, ScanTypes DEF ScanOf
<1>5. CallType'
  BY <1>0, <1>3, <1>4 DEF IInv, TypeOK, CallType
<1>6. HandsMatch(t)'
  BY <1>0, <1>1, <1>3, <1>4 DEF HandsMatch
<1>7. Coherent'
  <2>1. Frame(t)
    BY <1>0, <1>1, <1>3 DEF Frame
  <2>2. \A hp \in Heaps : \A d \in Linked(hp)' : seg'[d] # NoSegment
    BY <1>0, CallFacts DEF Linked, memory
  <2>3. \A u \in Tasks \ {t} : (lock' = u <=> lock = u) /\ lock # u
    BY <1>0, NoTaskAssumption
  <2> QED
    BY <1>0, <1>6, <2>1, <2>2, <2>3, CoherentStep DEF memory
<1> QED
  BY <1>2, <1>5, <1>7, Assemble

\* The steps of the scanning task, which holds the critical section.
LEMMA Scanner ==
    ASSUME IInv, NEW t \in Tasks, pc[t] = "scan"
    PROVE  lock = t /\ (scan.count = 0 <=> held[t] = {}) /\ \A u \in Tasks \ {t} : lock # u
  BY CallFacts DEF HandsMatch

\* Each turn of the trim loop keeps it, detaching or not (HeapAllocator.h:251-262).
LEMMA TrimVisitKeeps ==
    ASSUME IInv, NEW t \in Tasks, TrimVisit(t)
    PROVE  IInv'
<1> DEFINE hp == scan.heap
           h == heap[hp]
           c == h.segments[scan.at]
           payload == seg[c].blk[FirstBlock].size
<1>0. /\ pc[t] = "scan" /\ Scanning /\ UNCHANGED <<seg, fallbackVars, sys, lock, pc, req, live>>
      /\ IF isTrimmable(seg, c, scan.releasable, req[t].size)
         THEN /\ heap' = [heap EXCEPT ![hp] = unlinkSegment(h, seg, scan.at)]
              /\ held' = [held EXCEPT ![t] = @ \cup {c}]
              /\ scan' = [scan EXCEPT !.count = @ + 1, !.releasable = @ - payload]
         ELSE /\ scan' = [scan EXCEPT !.at = @ + 1]
              /\ UNCHANGED <<heap, held>>
  BY DEF TrimVisit
<1>1. /\ scan \in ScanType /\ hp \in Heaps /\ scan.at \in Nat \ {0} /\ scan.releasable \in Int
      /\ scan.count \in 0..TrimBatch /\ scan.count < TrimBatch
      /\ scan.at <= Len(h.segments)
  BY <1>0, CallFacts, ScanTypes DEF Scanning
<1>2. scan.at \in DOMAIN h.segments /\ h.segments \in Seq(Cells)
  <2>1. h.segments \in Seq(Cells)
    BY <1>1, HeapsWell, ListedFacts DEF Well
  <2> QED
    BY <1>1, <2>1
<1>3. lock = t /\ \A u \in Tasks \ {t} : lock # u
  BY <1>0, Scanner
<1>4. CASE isTrimmable(seg, c, scan.releasable, req[t].size)
  <2>1. /\ MemoryType' /\ CellsPartitioned' /\ HintLinked' /\ BlocksTile'
        /\ \A g \in Heaps : Linked(g)' \subseteq Linked(g)
    BY <1>0, <1>1, <1>2, <1>4, DetachStep
  <2>2. payload \in Nat /\ c \in Cells
    <3>1. c \in Listed(h) /\ Well(h, seg)
      BY <1>1, <1>2, HeapsWell DEF Listed
    <3>2. c \in Cells
      BY <3>1, ListedFacts DEF Well
    <3>3. Tiles(seg[c].blk, seg[c].total) /\ seg[c].total \in Nat
      BY <3>1, <3>2 DEF Well, SoundSegment, SegmentsType
    <3> HIDE DEF c
    <3>4. FirstBlock \in DOMAIN seg[c].blk /\ \A o \in DOMAIN seg[c].blk : seg[c].blk[o].size \in Nat
      BY <3>3, TilesFacts
    <3> QED
      BY <3>2, <3>4
  <2>3. /\ held' = [held EXCEPT ![t] = held[t] \cup {c}]
        /\ scan' = [scan EXCEPT !.count = scan.count + 1, !.releasable = scan.releasable - payload]
    BY <1>0, <1>4
  <2> HIDE DEF c, payload, h, hp
  <2>4. scan' \in ScanType /\ scan'.count # 0
    <3> DEFINE count == scan.count + 1
               left == scan.releasable - payload
    <3>1. count \in 0..TrimBatch /\ count # 0 /\ left \in Int
      BY <1>1, <2>2, ScanTypes
    <3>2. scan' = [scan EXCEPT !.count = count, !.releasable = left]
      BY <2>3
    <3> HIDE DEF count, left
    <3> QED
      BY <1>1, <3>1, <3>2 DEF ScanType
  <2>5. /\ held'[t] = held[t] \cup {c} /\ held'[t] # {}
        /\ \A u \in Tasks \ {t} : held'[u] = held[u]
    BY <2>3, CallFacts
  <2>6. CallType'
    BY <1>0, <2>4 DEF IInv, TypeOK, CallType
  <2>7. HandsMatch(t)'
    BY <1>0, <1>3, <2>4, <2>5 DEF HandsMatch
  <2>8. Coherent'
    <3>1. Frame(t)
      BY <1>0, <2>5 DEF Frame
    <3>2. \A g \in Heaps : \A d \in Linked(g)' : seg'[d] # NoSegment
      BY <1>0, <2>1, CallFacts
    <3> QED
      BY <1>0, <1>3, <2>7, <3>1, <3>2, CoherentStep
  <2> QED
    BY <2>1, <2>6, <2>8, Assemble
<1>5. CASE ~isTrimmable(seg, c, scan.releasable, req[t].size)
  <2>1. UNCHANGED memory /\ scan' = [scan EXCEPT !.at = scan.at + 1]
    BY <1>0, <1>5 DEF memory
  <2>2. MemoryType' /\ CellsPartitioned' /\ HintLinked' /\ BlocksTile'
    BY <2>1, QuietStep
  <2>3. scan' \in ScanType /\ scan'.count = scan.count
    BY <1>1, <2>1 DEF ScanType
  <2>4. CallType'
    BY <1>0, <2>3 DEF IInv, TypeOK, CallType
  <2>5. HandsMatch(t)'
    BY <1>0, <1>3, <2>1, <2>3, CallFacts DEF HandsMatch, memory
  <2>6. Coherent'
    <3>1. Frame(t)
      BY <1>0, <2>1 DEF Frame, memory
    <3>2. \A g \in Heaps : \A d \in Linked(g)' : seg'[d] # NoSegment
      BY <2>1, CallFacts DEF Linked, memory
    <3> QED
      BY <1>0, <1>3, <2>5, <3>1, <3>2, CoherentStep
  <2> QED
    BY <2>2, <2>4, <2>6, Assemble
<1> QED
  BY <1>4, <1>5

\* Going on to the internal heap keeps it (ProtoGC.h:665).
LEMMA TrimNextHeapKeeps ==
    ASSUME IInv, NEW t \in Tasks, TrimNextHeap(t)
    PROVE  IInv'
<1>0. /\ pc[t] = "scan" /\ scan' = ScanOf("internal", scan.count)
      /\ UNCHANGED <<memory, lock, pc, req, live>>
  BY DEF TrimNextHeap, memory
<1>1. MemoryType' /\ CellsPartitioned' /\ HintLinked' /\ BlocksTile'
  BY <1>0, QuietStep
<1>2. scan' \in ScanType /\ scan'.count = scan.count
  BY <1>0, ScanTypes DEF ScanOf, Heaps
<1>3. CallType'
  BY <1>0, <1>2 DEF IInv, TypeOK, CallType
<1>4. HandsMatch(t)'
  BY <1>0, <1>2, CallFacts DEF HandsMatch, memory
<1>5. Coherent'
  <2>1. Frame(t)
    BY <1>0 DEF Frame, memory
  <2>2. \A g \in Heaps : \A d \in Linked(g)' : seg'[d] # NoSegment
    BY <1>0, CallFacts DEF Linked, memory
  <2> QED
    BY <1>0, <1>4, <2>1, <2>2, Scanner, CoherentStep DEF memory
<1> QED
  BY <1>1, <1>3, <1>5, Assemble

\* Leaving the critical section of a trim keeps it (ProtoGC.h:676-678).
LEMMA TrimUnlockKeeps ==
    ASSUME IInv, NEW t \in Tasks, TrimUnlock(t)
    PROVE  IInv'
<1>0. /\ pc[t] = "scan" /\ lock' = NoTask /\ scan' = NoScan
      /\ IF scan.count = 0 THEN Return(t) ELSE Goto(t, "trimRelease") /\ UNCHANGED req
      /\ UNCHANGED <<memory, live>>
  BY DEF TrimUnlock, memory
<1>1. lock = t /\ (scan.count = 0 <=> held[t] = {}) /\ \A u \in Tasks \ {t} : lock # u
  BY <1>0, Scanner
<1>2. MemoryType' /\ CellsPartitioned' /\ HintLinked' /\ BlocksTile'
  BY <1>0, QuietStep
<1>3. /\ pc' \in [Tasks -> PcLabels] /\ req' \in [Tasks -> ReqType]
      /\ pc'[t] = IF held[t] = {} THEN "idle" ELSE "trimRelease"
      /\ \A u \in Tasks \ {t} : pc'[u] = pc[u] /\ req'[u] = req[u]
  <2>1. CASE scan.count = 0
    BY <1>0, <1>1, <2>1, Returns
  <2>2. CASE scan.count # 0
    BY <1>0, <1>1, <2>2, CallFacts, Goes DEF PcLabels
  <2> QED
    BY <2>1, <2>2
<1>4. CallType'
  BY <1>0, <1>3, ScanTypes DEF IInv, TypeOK, CallType
<1>5. HandsMatch(t)'
  BY <1>0, <1>3, NoTaskAssumption DEF HandsMatch, memory
<1>6. Coherent'
  <2>1. Frame(t)
    BY <1>0, <1>3 DEF Frame, memory
  <2>2. \A g \in Heaps : \A d \in Linked(g)' : seg'[d] # NoSegment
    BY <1>0, CallFacts DEF Linked, memory
  <2> QED
    BY <1>0, <1>1, <1>5, <2>1, <2>2, NoTaskAssumption, CoherentStep DEF memory
<1> QED
  BY <1>2, <1>4, <1>6, Assemble

\* pgc_free forgets what the cell held; nobody refers to it any more.
LEMMA ReleaseKeeps ==
    ASSUME IInv, NEW t \in Tasks, Release(t)
    PROVE  IInv'
<1>0. /\ pc[t] \in {"release", "trimRelease"}
      /\ UNCHANGED <<heap, fallbackVars, trimVars, live>>
  BY DEF Release
<1>1. PICK c \in held[t] :
        /\ held' = [held EXCEPT ![t] = @ \ {c}]
        /\ sys' = sys \cup {c}
        /\ seg' = [seg EXCEPT ![c] = NoSegment]
        /\ IF held[t] # {c} THEN UNCHANGED <<pc, req>>
           ELSE IF pc[t] = "trimRelease" THEN Goto(t, "trim") /\ UNCHANGED req
           ELSE Return(t)
  BY DEF Release
<1>2. /\ c \in Cells /\ c \notin sys /\ sys \subseteq Cells /\ held[t] \subseteq Cells
      /\ \A u \in Tasks \ {t} : c \notin held[u]
      /\ held[t] \cap sys = {} /\ lock # t
  BY <1>0, <1>1, Placed, AtFacts
<1> DEFINE mine == held[t] \ {c}
<1>3. held' = [held EXCEPT ![t] = mine]
  BY <1>1
<1>4. /\ MemoryType' /\ CellsPartitioned' /\ HintLinked' /\ BlocksTile'
      /\ \A hp \in Heaps : Linked(hp)' = Linked(hp) /\ c \notin Linked(hp)
      /\ seg'[c] = NoSegment /\ \A d \in Cells \ {c} : seg'[d] = seg[d]
  <2>1. /\ DOMAIN NoSegment = {"total", "caps", "blk"} /\ NoSegment.total \in Nat
        /\ NoSegment.caps \subseteq Flags
    BY DEF NoSegment
  <2>2. /\ sys' \subseteq Cells /\ sys' \cup mine = sys \cup held[t] /\ sys' \cap mine = {}
        /\ mine \in SUBSET Cells
    BY <1>1, <1>2
  <2> HIDE DEF mine
  <2> QED
    BY <1>0, <1>1, <1>2, <1>3, <2>1, <2>2, FormatStep
<1>5. /\ pc' \in [Tasks -> PcLabels] /\ req' \in [Tasks -> ReqType]
      /\ pc'[t] \in IF mine # {} THEN {pc[t]} ELSE {"trim", "idle"}
      /\ \A u \in Tasks \ {t} : pc'[u] = pc[u] /\ req'[u] = req[u]
  <2>1. CASE held[t] # {c}
    BY <1>1, <2>1, CallFacts
  <2>2. CASE held[t] = {c} /\ pc[t] = "trimRelease"
    BY <1>1, <2>2, CallFacts, Goes DEF PcLabels
  <2>3. CASE held[t] = {c} /\ pc[t] # "trimRelease"
    BY <1>1, <2>3, Returns
  <2> QED
    BY <2>1, <2>2, <2>3
<1>6. held'[t] = mine /\ \A u \in Tasks \ {t} : held'[u] = held[u]
  BY <1>3, CallFacts
<1>7. CallType'
  BY <1>0, <1>5 DEF IInv, TypeOK, CallType, trimVars
<1>8. HandsMatch(t)'
  <2>1. lock' # t
    BY <1>0, <1>2 DEF trimVars
  <2>2. CASE mine = {}
    <3>1. pc'[t] \in {"trim", "idle"} /\ held'[t] = {}
      BY <1>5, <1>6, <2>2
    <3> QED
      BY <2>1, <3>1, IdleHands
  <2>3. CASE mine # {}
    <3>1. pc'[t] = pc[t] /\ held'[t] # {}
      BY <1>5, <1>6, <2>3
    <3>2. pc[t] = "trimRelease"
      <4>1. pc[t] = "release" => held[t] = {c}
        BY CallFacts DEF HandsMatch
      <4> QED
        BY <1>0, <2>3, <4>1
    <3> QED
      BY <2>1, <3>1, <3>2 DEF HandsMatch
  <2> QED
    BY <2>2, <2>3
<1>9. Coherent'
  <2>1. Frame(t)
    BY <1>5, <1>6 DEF Frame
  <2>2. \A g \in Heaps : \A d \in Linked(g)' : seg'[d] # NoSegment
    BY <1>4, CallFacts, Placed
  <2>3. \A u \in Tasks \ {t} : \A d \in held[u] : seg'[d] = seg[d]
    BY <1>2, <1>4, CallFacts
  <2> QED
    BY <1>0, <1>8, <2>1, <2>2, <2>3, CoherentStep DEF trimVars
<1> QED
  BY <1>4, <1>7, <1>9, Assemble

-----------------------------------------------------------------------------
(* The invariant and what follows from it.                                 *)

\* The invariant holds before the first call.
LEMMA InitHolds == Init => IInv
<1> SUFFICES ASSUME Init PROVE IInv
  OBVIOUS
<1>1. \A hp \in Heaps : /\ heap[hp] \in AllocatorType /\ ListSound(heap[hp])
                        /\ heap[hp].segments = << >>
  <2>1. \A r, f \in SUBSET Flags :
           /\ NewAllocator(r, f) \in AllocatorType
           /\ ListSound(NewAllocator(r, f))
           /\ NewAllocator(r, f).segments = << >>
    BY DEF NewAllocator, AllocatorType, ListSound
  <2>2. \A hp \in Heaps : requiredCaps(hp) \in SUBSET Flags /\ forbiddenCaps(hp) \in SUBSET Flags
    BY DEF requiredCaps, forbiddenCaps, Flags
  <2>3. \A hp \in Heaps : heap[hp] = NewAllocator(requiredCaps(hp), forbiddenCaps(hp))
    BY DEF Init
  <2> QED
    BY <2>1, <2>2, <2>3
<1>2. DOMAIN heap = Heaps /\ \A hp \in Heaps : Linked(hp) = {}
  BY <1>1 DEF Init, Linked
<1>3. MemoryType
  <2>1. heap \in [Heaps -> AllocatorType]
    <3>1. heap = [hp \in Heaps |-> heap[hp]]
      BY DEF Init
    <3> QED
      BY <1>1, <3>1
  <2>2. DOMAIN seg = Cells /\ \A c \in Cells : seg[c] = NoSegment
    BY DEF Init
  <2>3. \A c \in Cells : /\ DOMAIN seg[c] = {"total", "caps", "blk"}
                         /\ seg[c].total \in Nat /\ seg[c].caps \subseteq Flags
    BY <2>2 DEF NoSegment
  <2>4. /\ DOMAIN fallback = {} /\ fallbackBlocks \in Int /\ fallbackBytes \in Int
        /\ sys \subseteq Cells /\ held \in [Tasks -> SUBSET Cells]
    BY DEF Init
  <2> QED
    BY <2>1, <2>2, <2>3, <2>4 DEF MemoryType
<1>4. CallType
  <2>1. scan \in ScanType
    BY HeapsAreTwo, ArgumentAssumption DEF Init, NoScan, ScanType
  <2>2. pc \in [Tasks -> PcLabels] /\ lock \in Tasks \cup {NoTask}
    BY DEF Init, PcLabels
  <2>3. req \in [Tasks -> ReqType]
    BY RequestTypes DEF Init
  <2>4. DOMAIN live = {}
    BY DEF Init
  <2> QED
    BY <2>1, <2>2, <2>3, <2>4 DEF CallType
<1>5. CellsPartitioned
  BY <1>2, HeapsAreTwo DEF Init, CellsPartitioned
<1>6. HintLinked
  BY <1>1 DEF HintLinked
<1>7. BlocksTile
  BY DEF Init, BlocksTile
<1>8. Coherent
  BY <1>2, NoTaskAssumption DEF Init, Coherent, HandsMatch
<1> QED
  BY <1>3, <1>4, <1>5, <1>6, <1>7, <1>8 DEF IInv, TypeOK

\* Every step inside a call keeps the invariant.
LEMMA StepKeeps ==
    ASSUME IInv, NEW t \in Tasks, Step(t)
    PROVE  IInv'
<1>1. CASE AllocFast(t) BY <1>1, AllocFastKeeps
<1>2. CASE CreateSegment(t) BY <1>2, CreateSegmentKeeps
<1>3. CASE CreateFails(t) BY <1>3, CreateFailsKeeps
<1>4. CASE LinkSegment(t) BY <1>4, LinkSegmentKeeps
<1>5. CASE RawAlloc(t) BY <1>5, RawAllocKeeps
<1>6. CASE RawLink(t) BY <1>6, RawLinkKeeps
<1>7. CASE FreeManaged(t) BY <1>7, FreeManagedKeeps
<1>8. CASE FreeFallback(t) BY <1>8, FreeFallbackKeeps
<1>9. CASE ReallocFast(t) BY <1>9, ReallocFastKeeps
<1>10. CASE GrowLink(t) BY <1>10, GrowLinkKeeps
<1>11. CASE FindFallback(t) BY <1>11, FindFallbackKeeps
<1>12. CASE TrimLock(t) BY <1>12, TrimLockKeeps
<1>13. CASE TrimVisit(t) BY <1>13, TrimVisitKeeps
<1>14. CASE TrimNextHeap(t) BY <1>14, TrimNextHeapKeeps
<1>15. CASE TrimUnlock(t) BY <1>15, TrimUnlockKeeps
<1>16. CASE Release(t) BY <1>16, ReleaseKeeps
<1> QED
  BY <1>1, <1>2, <1>3, <1>4, <1>5, <1>6, <1>7, <1>8, <1>9, <1>10, <1>11, <1>12,
     <1>13, <1>14, <1>15, <1>16 DEF Step

\* A stuttering step keeps the invariant.
LEMMA StutterKeeps ==
    ASSUME IInv, UNCHANGED vars
    PROVE  IInv'
<1>1. MemoryType' /\ CellsPartitioned' /\ HintLinked' /\ BlocksTile'
  BY QuietStep DEF vars, memory, fallbackVars
<1>2. CallType'
  BY DEF IInv, TypeOK, CallType, vars
<1>3. Coherent'
  <2>1. \A hp : Linked(hp)' = Linked(hp)
    BY DEF Linked, vars
  <2>2. \A t \in Tasks : HandsMatch(t)'
    BY CallFacts DEF HandsMatch, vars
  <2>3. \A hp \in Heaps : \A c \in Linked(hp)' : seg'[c] # NoSegment
    BY <2>1 DEF IInv, Coherent, vars
  <2> QED
    BY <2>2, <2>3 DEF Coherent
<1> QED
  BY <1>1, <1>2, <1>3, Assemble

\* The invariant is inductive: it holds initially and every step keeps it.
THEOREM Inductive == Spec => []IInv
<1>1. Init => IInv
  BY InitHolds
<1>2. IInv /\ [Next]_vars => IInv'
  <2> SUFFICES ASSUME IInv, [Next]_vars PROVE IInv'
    OBVIOUS
  <2>1. CASE UNCHANGED vars
    BY <2>1, StutterKeeps
  <2>2. ASSUME NEW t \in Tasks, Call(t) PROVE IInv'
    BY <2>2, CallsKeep DEF Call
  <2>3. ASSUME NEW t \in Tasks, Step(t) PROVE IInv'
    BY <2>3, StepKeeps
  <2> QED
    BY <2>1, <2>2, <2>3 DEF Next
<1> QED
  BY <1>1, <1>2, PTL DEF Spec

\* The allocator objects, the segments, the fallback list and the tasks' calls
\* keep their types through every interleaving of heapAlloc, heapFree,
\* heapRealloc and mallocTrim (ProtoGC.h:362-487, 645-704, 993-1027).
THEOREM TypeCorrect == Spec => []TypeOK
<1>1. IInv => TypeOK
  BY DEF IInv
<1> QED
  BY <1>1, Inductive, PTL

\* No memory of the system heap is lost or handed out twice by the calls that
\* hold it between two critical sections (ProtoGC.h:376-413 and 645-704).
THEOREM Partitioned == Spec => []CellsPartitioned
<1>1. IInv => CellsPartitioned
  BY DEF IInv
<1> QED
  BY <1>1, Inductive, PTL

\* The roving hint of findFreeBlock never dangles, and no segment is listed
\* twice (HeapAllocator.h:397-400).
THEOREM HintsLinked == Spec => []HintLinked
<1>1. IInv => HintLinked
  BY DEF IInv
<1> QED
  BY <1>1, Inductive, PTL

\* The blocks of a segment always tile it, linked both ways and coalesced
\* (HeapAllocator.h:455-521).
THEOREM BlocksTiled == Spec => []BlocksTile
<1>1. IInv => BlocksTile
  BY DEF IInv
<1> QED
  BY <1>1, Inductive, PTL

\* A task comes to every linking or releasing step with memory in its hands,
\* and to its next call with none (ProtoGC.h:376-413, 645-704, 1021-1026).
THEOREM CallsCoherent == Spec => []Coherent
<1>1. IInv => Coherent
  BY DEF IInv
<1> QED
  BY <1>1, Inductive, PTL
-----------------------------------------------------------------------------
(* Who owns the used blocks.                                               *)

\* Used blocks are in linked segments: a segment in a task's hands, fresh from
\* createSegment or detached by a trim, has none.
Spare == \A p \in UsedAt(seg) : \E hp \in Heaps : p[1] \in Linked(hp)

Fallbacks == {FallbackPtr(c) : c \in DOMAIN fallback}

\* LiveExact, of the used blocks of all segments.
ExactUse == DOMAIN live = UsedAt(seg) \cup Fallbacks

\* Every live pointer has the bytes that were asked for.
bytesAt(s, f, p) == IF p[1] \in DOMAIN f THEN f[p[1]].size ELSE sizeAt(s, p)
Sized == \A p \in DOMAIN live : /\ bytesAt(seg, fallback, p) \in Nat
                                /\ live[p] <= bytesAt(seg, fallback, p)

Own == Spare /\ ExactUse /\ Sized

\* What a step may do to the used blocks, the fallback list and the callers'
\* pointers: nothing...
UseQuiet == live' = live /\ fallback' = fallback /\ SameUseBut(seg, seg', {})

\* ... a block of a segment is given out, given up, or resized or moved...
UseGiven(p, n) ==
    /\ p \in UsedAt(seg') \ UsedAt(seg) /\ SameUseBut(seg, seg', {p})
    /\ sizeAt(seg', p) \in Nat /\ sizeAt(seg', p) >= n
    /\ live' = With(live, p, n) /\ fallback' = fallback

UseDropped(p) ==
    /\ p \in UsedAt(seg) \ UsedAt(seg') /\ SameUseBut(seg, seg', {p})
    /\ live' = Without(p) /\ fallback' = fallback

UseMoved(p, q, n) ==
    /\ ReallocatedUse(seg, seg', p, q, n)
    /\ live' = With(Without(p), q, n) /\ fallback' = fallback

\* ... or a fallback block is given out or given up.
RawGiven(c, n) ==
    /\ c \in Cells \ DOMAIN fallback /\ seg' = seg
    /\ \E caps : fallback' = With(fallback, c, [size |-> n, caps |-> caps])
    /\ live' = With(live, FallbackPtr(c), n)

RawDropped(c) ==
    /\ c \in DOMAIN fallback /\ seg' = seg
    /\ fallback' = [d \in DOMAIN fallback \ {c} |-> fallback[d]]
    /\ live' = Without(FallbackPtr(c))

UseKinds ==
    \/ UseQuiet
    \/ \E p, n : n \in Nat /\ UseGiven(p, n)
    \/ \E p : UseDropped(p)
    \/ \E p, q, n : n \in Nat /\ UseMoved(p, q, n)
    \/ \E c, n : n \in Nat /\ RawGiven(c, n)
    \/ \E c : RawDropped(c)

\* The used blocks of one heap are those of its linked segments.
LEMMA UsedFacts ==
    ASSUME IInv, NEW hp \in Heaps, NEW c \in Linked(hp)
    PROVE  /\ c \in Cells /\ c \notin DOMAIN fallback
           /\ Used(seg[c].blk) \subseteq Nat
           /\ \A o : o \in Used(seg[c].blk) <=> <<c, o>> \in UsedAt(seg)
<1>1. c \in Cells /\ c \notin DOMAIN fallback
  BY Placed
<1>2. Tiles(seg[c].blk, seg[c].total) /\ seg[c].total \in Nat
  BY <1>1, HeapsWell, LinkedIsListed DEF Well, SoundSegment, SegmentsType
<1>3. Used(seg[c].blk) \subseteq Nat
  BY <1>2, TilesFacts DEF Used
<1> QED
  BY <1>1, <1>3 DEF UsedAt

\* LiveExact in terms of the used blocks: no need to say of which segments.
LEMMA ExactForm ==
    ASSUME IInv, Spare
    PROVE  LiveExact <=> ExactUse
<1> DEFINE L == Linked("psram") \cup Linked("internal")
           U == UNION {{<<c, o>> : o \in {o \in Blocks(c) : ~seg[c].blk[o].free}} : c \in L}
<1>1. \A c \in L : \E hp \in Heaps : c \in Linked(hp)
  BY HeapsAreTwo
<1>2. \A hp \in Heaps : Linked(hp) \subseteq L
  BY HeapsAreTwo
<1>3. \A c \in L : Used(seg[c].blk) = {o \in Blocks(c) : ~seg[c].blk[o].free}
  BY DEF Used, Blocks
<1>4. ASSUME NEW p \in U PROVE p \in UsedAt(seg)
  <2>1. PICK c \in L : p \in {<<c, o>> : o \in {o \in Blocks(c) : ~seg[c].blk[o].free}}
    BY <1>4
  <2>2. PICK o \in {o \in Blocks(c) : ~seg[c].blk[o].free} : p = <<c, o>>
    BY <2>1
  <2>3. o \in Used(seg[c].blk)
    BY <1>3, <2>2
  <2> QED
    BY <1>1, <2>2, <2>3, UsedFacts
<1>5. ASSUME NEW p \in UsedAt(seg) PROVE p \in U
  <2>1. PICK hp \in Heaps : p[1] \in Linked(hp)
    BY DEF Spare
  <2>2. p[1] \in L /\ p[2] \in Used(seg[p[1]].blk) /\ p = <<p[1], p[2]>>
    BY <1>2, <2>1 DEF UsedAt
  <2> DEFINE T == {<<p[1], o>> : o \in {o \in Blocks(p[1]) : ~seg[p[1]].blk[o].free}}
  <2>3. p \in T
    BY <1>3, <2>2
  <2>4. T \subseteq U
    BY <2>2
  <2> HIDE DEF T, U
  <2> QED
    BY <2>3, <2>4
<1>6. U = UsedAt(seg)
  BY <1>4, <1>5
<1> HIDE DEF U
<1>7. LiveExact <=> (DOMAIN live = U \cup Fallbacks)
  BY DEF LiveExact, Fallbacks, U
<1> QED
  BY <1>6, <1>7 DEF ExactUse

\* A fallback block is no used block.
LEMMA FallbackApart ==
    ASSUME IInv, Spare, NEW p \in UsedAt(seg)
    PROVE  p[1] \notin DOMAIN fallback /\ p \notin Fallbacks /\ p \in Cells \X Nat
<1>1. p[1] \notin DOMAIN fallback
  BY Placed DEF Spare
<1> QED
  BY <1>1 DEF Fallbacks, FallbackPtr, UsedAt

\* The segments of a heap stay, and new used blocks are in linked segments.
LEMMA SpareStays ==
    ASSUME Spare, \A g \in Heaps : Linked(g) \subseteq Linked(g)',
           \A p \in UsedAt(seg') : p \in UsedAt(seg) \/ \E g \in Heaps : p[1] \in Linked(g)'
    PROVE  Spare'
  BY DEF Spare

\* A step that leaves the memory of the segments and the lists alone.
LEMMA StillUse ==
    ASSUME Spare, UNCHANGED <<heap, seg, fallback, live>>
    PROVE  UseKinds /\ Spare'
<1>1. Spare'
  BY DEF Spare, Linked
<1>2. UseQuiet
  BY DEF UseQuiet, SameUseBut
<1> QED
  BY <1>1, <1>2 DEF UseKinds

\* A call that is entered touches no block.
LEMMA CallUse ==
    ASSUME IInv, Spare, NEW t \in Tasks, Call(t)
    PROVE  UseKinds /\ Spare'
<1>1. UNCHANGED <<heap, seg, fallback, live>>
  BY DEF Call, HeapAlloc, HeapFree, HeapRealloc, MallocTrim, fallbackVars
<1> QED
  BY <1>1, StillUse

\* Neither does a step between two critical sections that formats no segment.
LEMMA QuietUse ==
    ASSUME IInv, Spare, NEW t \in Tasks,
           CreateFails(t) \/ RawAlloc(t) \/ FindFallback(t)
              \/ TrimLock(t) \/ TrimNextHeap(t) \/ TrimUnlock(t)
    PROVE  UseKinds /\ Spare'
<1>1. UNCHANGED <<heap, seg, fallback, live>>
  BY DEF CreateFails, RawAlloc, FindFallback, TrimLock, TrimNextHeap, TrimUnlock, fallbackVars
<1> QED
  BY <1>1, StillUse

\* A heap that works on the segments it has keeps them.
LEMMA ListStays ==
    ASSUME IInv, NEW hp \in Heaps, NEW h, NEW s, HeapStep(heap[hp], seg, h, s),
           heap' = [heap EXCEPT ![hp] = h]
    PROVE  \A g \in Heaps : Linked(g)' = Linked(g)
<1>1. heap \in [Heaps -> AllocatorType] /\ h.segments = heap[hp].segments
  BY DEF IInv, TypeOK, MemoryType, HeapStep, SameList
<1>2. heap'[hp] = h /\ \A g \in Heaps \ {hp} : heap'[g] = heap[g]
  BY <1>1
<1> QED
  BY <1>1, <1>2 DEF Linked

\* heapAlloc's fast path gives out one block, or none.
LEMMA AllocFastUse ==
    ASSUME IInv, Spare, NEW t \in Tasks, AllocFast(t)
    PROVE  UseKinds /\ Spare'
<1> DEFINE hp == managedHeapForCaps(req[t].caps)
           n == req[t].size
           r == allocate(heap[hp], seg, n, req[t].caps)
           p == r.ptr
<1>0. /\ UNCHANGED <<fallbackVars, sys, held, trimVars>>
      /\ IF hp = NoHeap
         THEN Goto(t, "raw") /\ UNCHANGED <<heap, seg, req, live>>
         ELSE IF p # NoPtr
         THEN SetHeap(hp, r) /\ Deliver(t, p)
         ELSE /\ Goto(t, "create")
              /\ req' = [req EXCEPT ![t].heap = hp]
              /\ UNCHANGED <<heap, seg, live>>
  BY DEF AllocFast
<1>1. fallback' = fallback /\ n \in Nat
  BY <1>0, CallFacts DEF fallbackVars
<1>2. CASE hp = NoHeap \/ p = NoPtr
  <2>1. UNCHANGED <<heap, seg, fallback, live>>
    BY <1>0, <1>1, <1>2
  <2> QED
    BY <2>1, StillUse
<1>3. CASE hp # NoHeap /\ p # NoPtr
  <2>1. hp \in Heaps
    BY <1>3 DEF managedHeapForCaps, Heaps
  <2>2. Well(heap[hp], seg)
    BY <2>1, HeapsWell
  <2>3. /\ SameUseBut(seg, r.seg, {p}) /\ p \in UsedAt(r.seg) \ UsedAt(seg)
        /\ sizeAt(r.seg, p) \in Nat /\ sizeAt(r.seg, p) >= n
    BY <1>1, <1>3, <2>2, AllocateUse
  <2>4. HeapStep(heap[hp], seg, r.h, r.seg) /\ p[1] \in Listed(heap[hp])
    BY <1>1, <1>3, <2>2, AllocateStep
  <2>5. heap' = [heap EXCEPT ![hp] = r.h] /\ seg' = r.seg /\ live' = With(live, p, n)
    BY <1>0, <1>3 DEF SetHeap, Deliver
  <2> HIDE DEF hp, r, p, n
  <2>6. \A g \in Heaps : Linked(g)' = Linked(g)
    BY <2>1, <2>4, <2>5, ListStays
  <2>7. \E g \in Heaps : p[1] \in Linked(g)'
    BY <2>1, <2>4, <2>6, LinkedIsListed
  <2>8. Spare'
    <3>1. \A o \in UsedAt(seg') : o \in UsedAt(seg) \/ o = p
      BY <2>3, <2>5 DEF SameUseBut
    <3> QED
      BY <2>6, <2>7, <3>1, SpareStays
  <2>9. UseGiven(p, n)
    BY <1>1, <2>3, <2>5 DEF UseGiven
  <2> QED
    BY <1>1, <2>8, <2>9 DEF UseKinds
<1> QED
  BY <1>2, <1>3

\* The heap that owns a pointer of a call.
LEMMA OwnerIs ==
    ASSUME IInv, NEW p \in PtrType, owningManagedHeap(p) # NoHeap
    PROVE  /\ owningManagedHeap(p) \in Heaps
           /\ owns(heap[owningManagedHeap(p)], seg, p)
           /\ p[1] \in Linked(owningManagedHeap(p))
           /\ p \in Cells \X Nat
<1>1. /\ owningManagedHeap(p) \in Heaps
      /\ owns(heap[owningManagedHeap(p)], seg, p)
  BY DEF owningManagedHeap, Heaps
<1>2. p[1] \in Linked(owningManagedHeap(p))
  BY <1>1 DEF owns, Linked
<1>3. p[1] \in Cells
  BY <1>1, <1>2, HeapsWell
<1> QED
  BY <1>1, <1>2, <1>3 DEF PtrType

\* heapFree gives up one block of a segment, or none.
LEMMA FreeManagedUse ==
    ASSUME IInv, Spare, NEW t \in Tasks, FreeManaged(t)
    PROVE  UseKinds /\ Spare'
<1> DEFINE p == req[t].ptr
           hp == owningManagedHeap(p)
           r == deallocate(heap[hp], seg, p)
<1>0. /\ UNCHANGED <<fallbackVars, sys, held, trimVars>>
      /\ IF hp # NoHeap /\ r.ok
         THEN SetHeap(hp, r) /\ live' = Without(p) /\ Return(t)
         ELSE Goto(t, "freeFallback") /\ UNCHANGED <<heap, seg, req, live>>
  BY DEF FreeManaged
<1>1. fallback' = fallback
  BY <1>0 DEF fallbackVars
<1>2. CASE ~(hp # NoHeap /\ r.ok)
  <2>1. UNCHANGED <<heap, seg, fallback, live>>
    BY <1>0, <1>1, <1>2
  <2> QED
    BY <2>1, StillUse
<1>3. CASE hp # NoHeap /\ r.ok
  <2>1. hp \in Heaps /\ p \in Cells \X Nat
    BY <1>3, CallFacts, OwnerIs
  <2>2. Well(heap[hp], seg)
    BY <2>1, HeapsWell
  <2>3. p \in UsedAt(seg) /\ SameUseBut(seg, r.seg, {p}) /\ p \notin UsedAt(r.seg)
    <3>1. /\ r.ok = (p \in UsedAt(seg) /\ p[1] \in Listed(heap[hp]))
          /\ r.ok => SameUseBut(seg, r.seg, {p}) /\ p \notin UsedAt(r.seg)
      BY <2>1, <2>2, DeallocateUse
    <3> HIDE DEF hp, r, p
    <3> QED
      BY <1>3, <3>1, Zenon
  <2>4. HeapStep(heap[hp], seg, r.h, r.seg)
    BY <2>2, DeallocateStep
  <2>5. heap' = [heap EXCEPT ![hp] = r.h] /\ seg' = r.seg /\ live' = Without(p)
    BY <1>0, <1>3 DEF SetHeap
  <2> HIDE DEF hp, r, p
  <2>6. \A g \in Heaps : Linked(g)' = Linked(g)
    BY <2>1, <2>4, <2>5, ListStays
  <2>7. Spare'
    <3>1. UsedAt(seg') \subseteq UsedAt(seg)
      BY <2>3, <2>5 DEF SameUseBut
    <3> QED
      BY <2>6, <3>1, SpareStays
  <2>8. UseDropped(p)
    BY <1>1, <2>3, <2>5 DEF UseDropped
  <2> QED
    BY <2>7, <2>8 DEF UseKinds
<1> QED
  BY <1>2, <1>3

\* reallocate, on the segments there are: the new block is in one of them.
LEMMA MovedSpare ==
    ASSUME Spare, \A g \in Heaps : Linked(g) \subseteq Linked(g)', NEW p, NEW q, NEW n,
           ReallocatedUse(seg, seg', p, q, n), \E g \in Heaps : q[1] \in Linked(g)'
    PROVE  Spare'
<1>1. \A o \in UsedAt(seg') : o \in UsedAt(seg) \/ o = q
  BY DEF ReallocatedUse, SameUseBut
<1> QED
  BY <1>1, SpareStays

\* heapRealloc's fast path resizes or moves one block, or touches none.
LEMMA ReallocFastUse ==
    ASSUME IInv, Spare, NEW t \in Tasks, ReallocFast(t)
    PROVE  UseKinds /\ Spare'
<1> DEFINE p == req[t].ptr
           hp == owningManagedHeap(p)
           n == req[t].size
           q == reallocate(heap[hp], seg, p, n, heap[hp].requiredCaps)
           r == IF hp = NoHeap THEN [status |-> "NotOwned"] ELSE q
           l == IF r.status = "NeedsGrowth" THEN "growCreate" ELSE "find"
<1>0. /\ UNCHANGED <<fallbackVars, sys, held, trimVars>>
      /\ IF r.status = "Done"
         THEN SetHeap(hp, r) /\ Reallocated(t, r.ptr)
         ELSE /\ Goto(t, l)
              /\ req' = [req EXCEPT ![t].heap = hp]
              /\ UNCHANGED <<heap, seg, live>>
  BY DEF ReallocFast
<1>1. fallback' = fallback /\ n \in Nat /\ p \in PtrType
  BY <1>0, CallFacts DEF fallbackVars
<1>2. CASE r.status # "Done"
  <2>1. UNCHANGED <<heap, seg, fallback, live>>
    BY <1>0, <1>1, <1>2
  <2> QED
    BY <2>1, StillUse
<1>3. CASE r.status = "Done"
  <2>0. hp # NoHeap /\ r = q
    <3>1. hp = NoHeap => r.status = "NotOwned"
      OBVIOUS
    <3> QED
      BY <1>3, <3>1
  <2>1. hp \in Heaps /\ p \in Cells \X Nat
    BY <1>1, <2>0, OwnerIs
  <2>2. Well(heap[hp], seg)
    BY <2>1, HeapsWell
  <2>3. q.status = "Done"
    BY <1>3, <2>0
  <2>4. ReallocatedUse(seg, q.seg, p, q.ptr, n)
    BY <1>1, <2>1, <2>2, <2>3, ReallocateUse
  <2>5. HeapStep(heap[hp], seg, q.h, q.seg) /\ q.ptr[1] \in Listed(heap[hp])
    BY <1>1, <2>1, <2>2, <2>3, ReallocateStep
  <2>6. /\ heap' = [heap EXCEPT ![hp] = q.h] /\ seg' = q.seg
        /\ live' = With(Without(p), q.ptr, n)
    BY <1>0, <1>3, <2>0 DEF SetHeap, Reallocated
  <2> HIDE DEF hp, r, p, q, n
  <2>7. \A g \in Heaps : Linked(g)' = Linked(g)
    BY <2>1, <2>5, <2>6, ListStays
  <2>8. \E g \in Heaps : q.ptr[1] \in Linked(g)'
    BY <2>1, <2>5, <2>7, LinkedIsListed
  <2>9. Spare'
    BY <2>4, <2>6, <2>7, <2>8, MovedSpare
  <2>10. UseMoved(p, q.ptr, n)
    BY <1>1, <2>4, <2>6 DEF UseMoved
  <2> QED
    BY <1>1, <2>9, <2>10 DEF UseKinds
<1> QED
  BY <1>2, <1>3

\* The heap a task links its cell to and then works on lists that cell, too.
LEMMA ListGrows ==
    ASSUME IInv, NEW t \in Tasks, pc[t] \in {"link", "growLink"}, NEW c \in held[t],
           NEW h, NEW s, HeapStep(linkSegment(heap[req[t].heap], seg, c), seg, h, s),
           heap' = [heap EXCEPT ![req[t].heap] = h]
    PROVE  /\ \A g \in Heaps : Linked(g) \subseteq Linked(g)'
           /\ \A d \in Listed(linkSegment(heap[req[t].heap], seg, c)) :
                \E g \in Heaps : d \in Linked(g)'
<1>1. PICK hp \in Heaps : hp = req[t].heap
  BY CallFacts, AtFacts DEF HandsMatch
<1> DEFINE linked == linkSegment(heap[hp], seg, c)
<1>2. c \in Cells /\ seg[c] # NoSegment /\ c \notin Linked(hp)
  BY <1>1, CallFacts, Placed DEF HandsMatch
<1>3. Well(heap[hp], seg) /\ SoundSegment(seg[c]) /\ c \notin Listed(heap[hp])
  BY <1>1, <1>2, HeapsWell, LinkedIsListed DEF IInv, BlocksTile, SoundSegment
<1>4. Listed(linked) = Listed(heap[hp]) \cup {c}
  BY <1>2, <1>3, LinkFacts
<1>5. h.segments = linked.segments /\ heap \in [Heaps -> AllocatorType]
  BY <1>1 DEF HeapStep, SameList, IInv, TypeOK, MemoryType
<1> HIDE DEF linked
<1>6. heap'[hp] = h /\ \A g \in Heaps \ {hp} : heap'[g] = heap[g]
  BY <1>1, <1>5
<1>7. Linked(hp)' = Listed(linked) /\ \A g \in Heaps \ {hp} : Linked(g)' = Linked(g)
  BY <1>5, <1>6 DEF Linked, Listed
<1>8. \A g \in Heaps : Linked(g) \subseteq Linked(g)'
  BY <1>4, <1>7, LinkedIsListed
<1>9. \A d \in Listed(linked) : \E g \in Heaps : d \in Linked(g)'
  BY <1>7
<1> QED
  BY <1>1, <1>8, <1>9 DEF linked

\* heapAlloc after a growth gives out one block, or none.
LEMMA LinkSegmentUse ==
    ASSUME IInv, Spare, NEW t \in Tasks, LinkSegment(t)
    PROVE  UseKinds /\ Spare'
<1> DEFINE hp == req[t].heap
           c == CHOOSE c \in held[t] : TRUE
           n == req[t].size
           linked == linkSegment(heap[hp], seg, c)
           r == allocate(linked, seg, n, req[t].caps)
           p == r.ptr
<1>0. /\ pc[t] = "link" /\ UNCHANGED <<fallbackVars, sys, trimVars>>
      /\ heap' = [heap EXCEPT ![hp] = r.h] /\ seg' = r.seg
      /\ IF p # NoPtr THEN Deliver(t, p) ELSE Goto(t, "raw") /\ UNCHANGED <<req, live>>
  BY DEF LinkSegment, SetHeap
<1>1. c \in held[t] /\ n \in Nat /\ fallback' = fallback
  BY <1>0, CallFacts DEF HandsMatch, fallbackVars
<1>2. Well(linked, seg)
  BY <1>0, <1>1, LinkedWell
<1>3. /\ p = NoPtr => r.seg = seg
      /\ p # NoPtr => /\ SameUseBut(seg, r.seg, {p}) /\ p \in UsedAt(r.seg) \ UsedAt(seg)
                      /\ sizeAt(r.seg, p) \in Nat /\ sizeAt(r.seg, p) >= n
  <2> HIDE DEF linked, n
  <2> QED
    BY <1>1, <1>2, AllocateUse
<1>4. HeapStep(linked, seg, r.h, r.seg) /\ (p # NoPtr => p[1] \in Listed(linked))
  BY <1>1, <1>2, AllocateStep
<1>5. /\ \A g \in Heaps : Linked(g) \subseteq Linked(g)'
      /\ \A d \in Listed(linked) : \E g \in Heaps : d \in Linked(g)'
  <2> HIDE DEF c, r
  <2> QED
    BY <1>0, <1>1, <1>4, ListGrows
<1> HIDE DEF hp, c, n, linked, r, p
<1>6. CASE p = NoPtr
  <2>1. seg' = seg /\ live' = live
    BY <1>0, <1>3, <1>6
  <2>2. Spare'
    BY <1>5, <2>1, SpareStays
  <2>3. UseQuiet
    BY <1>1, <2>1 DEF UseQuiet, SameUseBut
  <2> QED
    BY <2>2, <2>3 DEF UseKinds
<1>7. CASE p # NoPtr
  <2>1. live' = With(live, p, n)
    BY <1>0, <1>7 DEF Deliver, n
  <2>2. \A o \in UsedAt(seg') : o \in UsedAt(seg) \/ o = p
    BY <1>0, <1>3, <1>7 DEF SameUseBut
  <2>3. Spare'
    BY <1>4, <1>5, <1>7, <2>2, SpareStays
  <2>4. UseGiven(p, n)
    BY <1>0, <1>1, <1>3, <1>7, <2>1 DEF UseGiven
  <2> QED
    BY <1>1, <2>3, <2>4 DEF UseKinds
<1> QED
  BY <1>6, <1>7

\* heapRealloc after a growth moves or resizes one block, or touches none.
LEMMA GrowLinkUse ==
    ASSUME IInv, Spare, NEW t \in Tasks, GrowLink(t)
    PROVE  UseKinds /\ Spare'
<1> DEFINE hp == req[t].heap
           c == CHOOSE c \in held[t] : TRUE
           p == req[t].ptr
           n == req[t].size
           linked == linkSegment(heap[hp], seg, c)
           r == reallocate(linked, seg, p, n, heap[hp].requiredCaps)
<1>0. /\ pc[t] = "growLink" /\ UNCHANGED <<fallbackVars, sys, trimVars>>
      /\ heap' = [heap EXCEPT ![hp] = r.h] /\ seg' = r.seg
      /\ IF r.status = "Done" THEN Reallocated(t, r.ptr) ELSE Return(t) /\ UNCHANGED live
  BY DEF GrowLink, SetHeap
<1>1. c \in held[t] /\ n \in Nat /\ fallback' = fallback /\ p \in PtrType
  BY <1>0, CallFacts DEF HandsMatch, fallbackVars
<1>2. Well(linked, seg)
  BY <1>0, <1>1, LinkedWell
<1>3. /\ r.status # "Done" => r.seg = seg
      /\ r.status = "Done" => ReallocatedUse(seg, r.seg, p, r.ptr, n)
  <2>1. p[1] \in Cells => p \in Cells \X Nat
    BY <1>1 DEF PtrType
  <2> QED
    BY <1>1, <1>2, <2>1, ReallocateUse
<1>4. /\ HeapStep(linked, seg, r.h, r.seg)
      /\ r.status = "Done" => r.ptr[1] \in Listed(linked)
  <2>1. p \in (Cells \cup {NoCell, ForeignCell}) \X Nat
    BY <1>1 DEF PtrType
  <2> QED
    BY <1>1, <1>2, <2>1, ReallocateStep
<1>5. /\ \A g \in Heaps : Linked(g) \subseteq Linked(g)'
      /\ \A d \in Listed(linked) : \E g \in Heaps : d \in Linked(g)'
  <2> HIDE DEF c, r
  <2> QED
    BY <1>0, <1>1, <1>4, ListGrows
<1> HIDE DEF hp, c, linked, r
<1>6. CASE r.status # "Done"
  <2>1. seg' = seg /\ live' = live
    BY <1>0, <1>3, <1>6
  <2>2. Spare'
    BY <1>5, <2>1, SpareStays
  <2>3. UseQuiet
    BY <1>1, <2>1 DEF UseQuiet, SameUseBut
  <2> QED
    BY <2>2, <2>3 DEF UseKinds
<1>7. CASE r.status = "Done"
  <2>1. live' = With(Without(p), r.ptr, n)
    BY <1>0, <1>7 DEF Reallocated
  <2>2. ReallocatedUse(seg, seg', p, r.ptr, n)
    BY <1>0, <1>3, <1>7
  <2>3. Spare'
    BY <1>4, <1>5, <1>7, <2>2, MovedSpare
  <2>4. UseMoved(p, r.ptr, n)
    BY <1>1, <2>1, <2>2 DEF UseMoved
  <2> QED
    BY <1>1, <2>3, <2>4 DEF UseKinds
<1> QED
  BY <1>6, <1>7

\* A cell that is in no list is rewritten without a used block.
LEMMA FormatUse ==
    ASSUME IInv, Spare, NEW c \in Cells, \A g \in Heaps : c \notin Linked(g), NEW s,
           Used(s.blk) = {}, seg' = [seg EXCEPT ![c] = s],
           UNCHANGED <<heap, fallback, live>>
    PROVE  UseKinds /\ Spare'
<1>1. DOMAIN seg = Cells
  BY DEF IInv, TypeOK, MemoryType
<1>2. seg'[c] = s /\ \A d \in Cells \ {c} : seg'[d] = seg[d]
  BY <1>1
<1>3. \A p \in UsedAt(seg) : p[1] \in Cells \ {c}
  BY DEF Spare, UsedAt
<1>4. \A p \in UsedAt(seg') : p[1] \in Cells \ {c} /\ p \in UsedAt(seg)
  BY <1>2 DEF UsedAt
<1>5. UsedAt(seg') = UsedAt(seg)
  <2>1. \A p \in UsedAt(seg) : p \in UsedAt(seg')
    BY <1>2, <1>3 DEF UsedAt
  <2> QED
    BY <1>4, <2>1
<1>6. UseQuiet
  BY <1>2, <1>3, <1>5 DEF UseQuiet, SameUseBut, sizeAt
<1>7. Spare'
  <2>1. \A g \in Heaps : Linked(g) = Linked(g)'
    BY DEF Linked
  <2> QED
    BY <1>5, <2>1, SpareStays
<1> QED
  BY <1>6, <1>7 DEF UseKinds

\* createSegment writes one free block, in a cell nobody had.
LEMMA CreateSegmentUse ==
    ASSUME IInv, Spare, NEW t \in Tasks, CreateSegment(t)
    PROVE  UseKinds /\ Spare'
<1>1. PICK c \in sys, payload \in segmentPayloads(req[t].size) :
        seg' = [seg EXCEPT ![c] = newSegment(payload, growthCaps(t))]
  BY DEF CreateSegment
<1>2. UNCHANGED <<heap, fallback, live>>
  BY DEF CreateSegment, fallbackVars
<1>3. c \in Cells /\ \A g \in Heaps : c \notin Linked(g)
  BY Placed
<1> DEFINE s == newSegment(payload, growthCaps(t))
<1>4. Used(s.blk) = {}
  BY DEF newSegment, Used
<1>5. seg' = [seg EXCEPT ![c] = s]
  BY <1>1
<1> HIDE DEF s
<1> QED
  BY <1>2, <1>3, <1>4, <1>5, FormatUse

\* pgc_free takes a cell that no list names.
LEMMA ReleaseUse ==
    ASSUME IInv, Spare, NEW t \in Tasks, Release(t)
    PROVE  UseKinds /\ Spare'
<1>1. PICK c \in held[t] : seg' = [seg EXCEPT ![c] = NoSegment]
  BY DEF Release
<1>2. UNCHANGED <<heap, fallback, live>>
  BY DEF Release, fallbackVars
<1>3. c \in Cells /\ \A g \in Heaps : c \notin Linked(g)
  BY Placed
<1>4. Used(NoSegment.blk) = {}
  BY DEF NoSegment, Used
<1> QED
  BY <1>1, <1>2, <1>3, <1>4, FormatUse

\* What a trim detaches has no used block.
LEMMA TrimVisitUse ==
    ASSUME IInv, Spare, NEW t \in Tasks, TrimVisit(t)
    PROVE  UseKinds /\ Spare'
<1> DEFINE hp == scan.heap
           h == heap[hp]
           c == h.segments[scan.at]
<1>0. /\ pc[t] = "scan" /\ Scanning /\ UNCHANGED <<seg, fallback, live>>
      /\ IF isTrimmable(seg, c, scan.releasable, req[t].size)
         THEN heap' = [heap EXCEPT ![hp] = unlinkSegment(h, seg, scan.at)]
         ELSE UNCHANGED heap
  BY DEF TrimVisit, fallbackVars
<1>1. CASE ~isTrimmable(seg, c, scan.releasable, req[t].size)
  BY <1>0, <1>1, StillUse
<1>2. CASE isTrimmable(seg, c, scan.releasable, req[t].size)
  <2>1. hp \in Heaps /\ scan.at \in Nat \ {0} /\ scan.at <= Len(h.segments)
    BY <1>0, ScanTypes DEF Scanning
  <2>2. Well(h, seg) /\ h.segments \in Seq(Cells)
    BY <2>1, HeapsWell, ListedFacts DEF Well
  <2>3. scan.at \in DOMAIN h.segments
    BY <2>1, <2>2
  <2>4. PICK g \in Heaps : g = hp
    BY <2>1
  <2>5. c \in Listed(h) /\ c \in Cells
    BY <2>2, <2>3, ListedFacts DEF Well
  <2>6. Used(seg[c].blk) = {}
    <3>1. SoundSegment(seg[c]) /\ seg[c].total \in Nat /\ segmentIsCompletelyFree(seg, c)
      BY <1>2, <2>2, <2>5 DEF Well, SegmentsType, isTrimmable
    <3> QED
      BY <3>1, FreeSegmentUse
  <2> DEFINE new == unlinkSegment(h, seg, scan.at)
  <2>7. Listed(new) = Listed(h) \ {c}
    BY <2>2, <2>3, UnlinkFacts
  <2>8. heap' = [heap EXCEPT ![g] = new] /\ h = heap[g]
    BY <1>0, <1>2, <2>4
  <2> HIDE DEF new, h, hp, c
  <2>9. heap'[g] = new /\ \A f \in Heaps \ {g} : heap'[f] = heap[f]
    BY <2>8 DEF IInv, TypeOK, MemoryType
  <2>10. Linked(g)' = Linked(g) \ {c} /\ \A f \in Heaps \ {g} : Linked(f)' = Linked(f)
    BY <2>7, <2>8, <2>9 DEF Linked, Listed
  <2>11. \A p \in UsedAt(seg) : p[1] # c
    BY <2>6 DEF UsedAt
  <2>12. Spare'
    <3> SUFFICES ASSUME NEW p \in UsedAt(seg) PROVE \E f \in Heaps : p[1] \in Linked(f)'
      BY <1>0 DEF Spare
    <3>1. PICK f \in Heaps : p[1] \in Linked(f)
      BY DEF Spare
    <3> QED
      BY <2>10, <2>11, <3>1
  <2>13. UseQuiet
    BY <1>0 DEF UseQuiet, SameUseBut
  <2> QED
    BY <2>12, <2>13 DEF UseKinds
<1> QED
  BY <1>1, <1>2

\* The fallback gives out a block of its own.
LEMMA RawLinkUse ==
    ASSUME IInv, Spare, NEW t \in Tasks, RawLink(t)
    PROVE  UseKinds /\ Spare'
<1> DEFINE c == CHOOSE c \in held[t] : TRUE
           n == req[t].size
<1>0. /\ pc[t] = "rawLink" /\ UNCHANGED <<heap, seg>>
      /\ fallback' = With(fallback, c, [size |-> n, caps |-> req[t].caps])
      /\ live' = With(live, FallbackPtr(c), n)
  BY DEF RawLink, Deliver
<1>1. c \in Cells \ DOMAIN fallback /\ n \in Nat
  BY <1>0, CallFacts, Placed DEF HandsMatch
<1> HIDE DEF c, n
<1>2. RawGiven(c, n)
  BY <1>0, <1>1 DEF RawGiven
<1>3. Spare'
  BY <1>0 DEF Spare, Linked
<1> QED
  BY <1>1, <1>2, <1>3 DEF UseKinds

\* heapFree of a fallback block gives up that block.
LEMMA FreeFallbackUse ==
    ASSUME IInv, Spare, NEW t \in Tasks, FreeFallback(t)
    PROVE  UseKinds /\ Spare'
<1> DEFINE found == findFallbackHeader(req[t].ptr)
           c == CHOOSE c \in found : TRUE
<1>0. /\ pc[t] = "freeFallback" /\ UNCHANGED <<heap, seg>>
      /\ IF found = {}
         THEN UNCHANGED <<fallback, live>>
         ELSE /\ fallback' = [d \in DOMAIN fallback \ {c} |-> fallback[d]]
              /\ live' = Without(req[t].ptr)
  BY DEF FreeFallback, fallbackVars
<1>1. CASE found = {}
  BY <1>0, <1>1, StillUse
<1>2. CASE found # {}
  <2>1. c \in DOMAIN fallback /\ req[t].ptr = FallbackPtr(c)
    BY <1>2 DEF findFallbackHeader
  <2>2. RawDropped(c)
    BY <1>0, <1>2, <2>1 DEF RawDropped
  <2>3. Spare'
    BY <1>0 DEF Spare, Linked
  <2> QED
    BY <2>2, <2>3 DEF UseKinds
<1> QED
  BY <1>1, <1>2

\* Every step does one of these things to the used blocks.
LEMMA Uses ==
    ASSUME IInv, Spare, [Next]_vars
    PROVE  UseKinds /\ Spare'
<1>1. CASE UNCHANGED vars
  BY <1>1, StillUse DEF vars
<1>2. ASSUME NEW t \in Tasks, Call(t) PROVE UseKinds /\ Spare'
  BY <1>2, CallUse
<1>3. ASSUME NEW t \in Tasks, Step(t) PROVE UseKinds /\ Spare'
  BY <1>3, AllocFastUse, CreateSegmentUse, QuietUse, LinkSegmentUse, RawLinkUse,
     FreeManagedUse, FreeFallbackUse, ReallocFastUse, GrowLinkUse, TrimVisitUse,
     ReleaseUse DEF Step
<1> QED
  BY <1>1, <1>2, <1>3 DEF Next

-----------------------------------------------------------------------------
(* What that means for the callers.                                        *)

ApartUse == \A p \in UsedAt(seg) : /\ p[1] \notin DOMAIN fallback /\ p \notin Fallbacks
                                   /\ p \in Cells \X Nat

SameBytes(P) == \A p \in P : bytesAt(seg', fallback', p) = bytesAt(seg, fallback, p)

LiveQuiet == live' = live /\ SameBytes(DOMAIN live)

LiveGiven(p, n) ==
    /\ p \notin DOMAIN live /\ live' = With(live, p, n) /\ SameBytes(DOMAIN live)
    /\ bytesAt(seg', fallback', p) \in Nat /\ n <= bytesAt(seg', fallback', p)

LiveDropped(p) ==
    p \in DOMAIN live /\ live' = Without(p) /\ SameBytes(DOMAIN live \ {p})

LiveMoved(p, q, n) ==
    /\ p \in DOMAIN live /\ live' = With(Without(p), q, n) /\ SameBytes(DOMAIN live \ {p})
    /\ bytesAt(seg', fallback', q) \in Nat /\ n <= bytesAt(seg', fallback', q)
    /\ p # q => /\ q \notin DOMAIN live
                /\ q[1] = p[1] => \/ p[2] + bytesAt(seg, fallback, p) <= q[2]
                                  \/ q[2] + bytesAt(seg', fallback', q) <= p[2]

LiveKinds ==
    \/ LiveQuiet
    \/ \E p, n : n \in Nat /\ LiveGiven(p, n)
    \/ \E p : LiveDropped(p)
    \/ \E p, q, n : n \in Nat /\ LiveMoved(p, q, n)

\* Used blocks and fallback blocks are in different cells, in every state.
LEMMA ApartUseNext ==
    /\ IInv /\ Spare => ApartUse
    /\ IInv' /\ Spare' => ApartUse'
<1>1. IInv /\ Spare => ApartUse
  BY FallbackApart DEF ApartUse
<1> QED
  BY <1>1, PTL

\* A block of a segment is given out: its pointer is new.
LEMMA GivenOwn ==
    ASSUME ApartUse, ApartUse', ExactUse, NEW p, NEW n, n \in Nat, UseGiven(p, n)
    PROVE  LiveGiven(p, n) /\ ExactUse'
<1>1. /\ p \in UsedAt(seg') \ UsedAt(seg) /\ SameUseBut(seg, seg', {p})
      /\ sizeAt(seg', p) \in Nat /\ sizeAt(seg', p) >= n
      /\ live' = With(live, p, n) /\ fallback' = fallback
  BY DEF UseGiven
<1>2. Fallbacks' = Fallbacks
  BY <1>1 DEF Fallbacks
<1>3. p[1] \notin DOMAIN fallback /\ p \notin Fallbacks
  BY <1>1, <1>2 DEF ApartUse
<1>4. bytesAt(seg', fallback', p) = sizeAt(seg', p)
  BY <1>1, <1>3 DEF bytesAt
<1>5. p \notin DOMAIN live /\ UsedAt(seg') = UsedAt(seg) \cup {p}
  BY <1>1, <1>3 DEF ExactUse, SameUseBut
<1>6. SameBytes(DOMAIN live)
  BY <1>1, <1>5 DEF SameBytes, bytesAt, ExactUse, SameUseBut, ApartUse, Fallbacks, FallbackPtr
<1>7. ExactUse'
  BY <1>1, <1>2, <1>5 DEF ExactUse, With
<1> QED
  BY <1>1, <1>4, <1>5, <1>6, <1>7 DEF LiveGiven

\* A block of a segment is given up: its pointer was live.
LEMMA DroppedOwn ==
    ASSUME ApartUse, ApartUse', ExactUse, NEW p, UseDropped(p)
    PROVE  LiveDropped(p) /\ ExactUse'
<1>1. /\ p \in UsedAt(seg) \ UsedAt(seg') /\ SameUseBut(seg, seg', {p})
      /\ live' = Without(p) /\ fallback' = fallback
  BY DEF UseDropped
<1>2. Fallbacks' = Fallbacks
  BY <1>1 DEF Fallbacks
<1>3. p \notin Fallbacks /\ p \in DOMAIN live /\ UsedAt(seg') = UsedAt(seg) \ {p}
  BY <1>1 DEF ApartUse, ExactUse, SameUseBut
<1>4. SameBytes(DOMAIN live \ {p})
  BY <1>1 DEF SameBytes, bytesAt, ExactUse, SameUseBut, ApartUse, Fallbacks, FallbackPtr
<1>5. ExactUse'
  BY <1>1, <1>2, <1>3 DEF ExactUse, Without
<1> QED
  BY <1>1, <1>3, <1>4, <1>5 DEF LiveDropped

\* A block of a segment is resized or moved: the old pointer was live, and a
\* new one was not.
LEMMA MovedOwn ==
    ASSUME ApartUse, ApartUse', ExactUse, NEW p, NEW q, NEW n, n \in Nat, UseMoved(p, q, n)
    PROVE  LiveMoved(p, q, n) /\ ExactUse'
<1>1. /\ SameUseBut(seg, seg', {p, q}) /\ p \in UsedAt(seg) /\ q \in UsedAt(seg')
      /\ sizeAt(seg', q) \in Nat /\ sizeAt(seg', q) >= n
      /\ p # q => /\ p \notin UsedAt(seg') /\ q \notin UsedAt(seg)
                  /\ q[1] = p[1] => \/ p[2] + sizeAt(seg, p) <= q[2]
                                    \/ q[2] + sizeAt(seg', q) <= p[2]
      /\ live' = With(Without(p), q, n) /\ fallback' = fallback
  BY DEF UseMoved, ReallocatedUse
<1>2. Fallbacks' = Fallbacks
  BY <1>1 DEF Fallbacks
<1>3. /\ p \notin Fallbacks /\ p[1] \notin DOMAIN fallback /\ p \in DOMAIN live
      /\ q \notin Fallbacks /\ q[1] \notin DOMAIN fallback
  BY <1>1, <1>2 DEF ApartUse, ExactUse
<1>4. UsedAt(seg') = (UsedAt(seg) \ {p}) \cup {q}
  BY <1>1 DEF SameUseBut
<1>5. /\ bytesAt(seg', fallback', q) = sizeAt(seg', q)
      /\ bytesAt(seg, fallback, p) = sizeAt(seg, p)
  BY <1>1, <1>3 DEF bytesAt
<1>6. p # q => q \notin DOMAIN live
  BY <1>1, <1>3 DEF ExactUse
<1>7. SameBytes(DOMAIN live \ {p})
  BY <1>1, <1>6 DEF SameBytes, bytesAt, ExactUse, SameUseBut, ApartUse, Fallbacks, FallbackPtr
<1>8. ExactUse'
  BY <1>1, <1>2, <1>3, <1>4 DEF ExactUse, With, Without
<1> QED
  BY <1>1, <1>3, <1>5, <1>6, <1>7, <1>8 DEF LiveMoved

\* A fallback block is given out: its pointer is new.
LEMMA RawGivenOwn ==
    ASSUME ApartUse, ApartUse', ExactUse, NEW c, NEW n, n \in Nat, RawGiven(c, n)
    PROVE  LiveGiven(FallbackPtr(c), n) /\ ExactUse'
<1> DEFINE p == FallbackPtr(c)
<1>1. /\ c \in Cells \ DOMAIN fallback /\ seg' = seg /\ live' = With(live, p, n)
  BY DEF RawGiven
<1>2. PICK caps : fallback' = With(fallback, c, [size |-> n, caps |-> caps])
  BY DEF RawGiven
<1> DEFINE entry == [size |-> n, caps |-> caps]
<1>3. /\ DOMAIN fallback' = DOMAIN fallback \cup {c} /\ fallback'[c] = entry /\ entry.size = n
      /\ \A d \in DOMAIN fallback : fallback'[d] = fallback[d]
  BY <1>1, <1>2 DEF With
<1> HIDE DEF entry
<1>4. Fallbacks' = Fallbacks \cup {p}
  BY <1>3 DEF Fallbacks
<1>5. p[1] = c /\ p \notin Fallbacks /\ p \notin UsedAt(seg)
  BY <1>1, <1>3 DEF Fallbacks, FallbackPtr, ApartUse
<1>6. bytesAt(seg', fallback', p) = n
  BY <1>3, <1>5 DEF bytesAt
<1>7. SameBytes(DOMAIN live)
  <2> SUFFICES ASSUME NEW o \in DOMAIN live
               PROVE  bytesAt(seg', fallback', o) = bytesAt(seg, fallback, o)
    BY DEF SameBytes
  <2>1. o[1] # c
    <3>1. CASE o \in UsedAt(seg)
      BY <1>1, <1>3, <3>1 DEF ApartUse
    <3>2. CASE o \in Fallbacks
      BY <1>1, <3>2 DEF Fallbacks, FallbackPtr
    <3> QED
      BY <3>1, <3>2 DEF ExactUse
  <2> QED
    BY <1>1, <1>3, <2>1 DEF bytesAt
<1>8. ExactUse'
  BY <1>1, <1>4 DEF ExactUse, With
<1> QED
  BY <1>1, <1>5, <1>6, <1>7, <1>8 DEF LiveGiven, ExactUse

\* A fallback block is given up: its pointer was live.
LEMMA RawDroppedOwn ==
    ASSUME ApartUse, ApartUse', ExactUse, NEW c, RawDropped(c)
    PROVE  LiveDropped(FallbackPtr(c)) /\ ExactUse'
<1> DEFINE p == FallbackPtr(c)
<1>1. /\ c \in DOMAIN fallback /\ seg' = seg /\ live' = Without(p)
      /\ DOMAIN fallback' = DOMAIN fallback \ {c}
      /\ \A d \in DOMAIN fallback \ {c} : fallback'[d] = fallback[d]
  BY DEF RawDropped
<1>2. p \in Fallbacks /\ p \in DOMAIN live /\ p \notin UsedAt(seg)
  BY <1>1 DEF Fallbacks, ExactUse, ApartUse
<1>3. Fallbacks' = Fallbacks \ {p}
  BY <1>1 DEF Fallbacks, FallbackPtr
<1>4. SameBytes(DOMAIN live \ {p})
  <2> SUFFICES ASSUME NEW o \in DOMAIN live \ {p}
               PROVE  bytesAt(seg', fallback', o) = bytesAt(seg, fallback, o)
    BY DEF SameBytes
  <2>1. o[1] # c
    BY <1>1 DEF ApartUse, ExactUse, Fallbacks, FallbackPtr
  <2> QED
    BY <1>1, <2>1 DEF bytesAt
<1>5. ExactUse'
  BY <1>1, <1>2, <1>3 DEF ExactUse, Without
<1> QED
  BY <1>1, <1>2, <1>4, <1>5 DEF LiveDropped

\* A step gives out a pointer that was not live, takes back one that was, or
\* exchanges one for another; and the used blocks stay the live pointers'.
LEMMA LiveStep ==
    ASSUME ApartUse, ApartUse', ExactUse, UseKinds
    PROVE  LiveKinds /\ ExactUse'
<1>1. CASE UseQuiet
  <2>1. Fallbacks' = Fallbacks /\ UsedAt(seg') = UsedAt(seg)
    BY <1>1 DEF UseQuiet, Fallbacks, SameUseBut
  <2>2. ExactUse'
    BY <1>1, <2>1 DEF UseQuiet, ExactUse
  <2>3. LiveQuiet
    BY <1>1 DEF UseQuiet, LiveQuiet, SameBytes, bytesAt, ExactUse, SameUseBut, ApartUse,
                Fallbacks, FallbackPtr
  <2> QED
    BY <2>2, <2>3 DEF LiveKinds
<1>2. ASSUME NEW p, NEW n, n \in Nat, UseGiven(p, n) PROVE LiveKinds /\ ExactUse'
  BY <1>2, GivenOwn DEF LiveKinds
<1>3. ASSUME NEW p, UseDropped(p) PROVE LiveKinds /\ ExactUse'
  BY <1>3, DroppedOwn DEF LiveKinds
<1>4. ASSUME NEW p, NEW q, NEW n, n \in Nat, UseMoved(p, q, n) PROVE LiveKinds /\ ExactUse'
  BY <1>4, MovedOwn DEF LiveKinds
<1>5. ASSUME NEW c, NEW n, n \in Nat, RawGiven(c, n) PROVE LiveKinds /\ ExactUse'
  BY <1>5, RawGivenOwn DEF LiveKinds
<1>6. ASSUME NEW c, RawDropped(c) PROVE LiveKinds /\ ExactUse'
  BY <1>6, RawDroppedOwn DEF LiveKinds
<1> QED
  BY <1>1, <1>2, <1>3, <1>4, <1>5, <1>6 DEF UseKinds

\* And every live pointer keeps the bytes that were asked for.
LEMMA SizedStep ==
    ASSUME Sized, LiveKinds
    PROVE  Sized'
<1>1. CASE LiveQuiet
  BY <1>1 DEF LiveQuiet, SameBytes, Sized
<1>2. ASSUME NEW p, NEW n, n \in Nat, LiveGiven(p, n) PROVE Sized'
  BY <1>2 DEF LiveGiven, SameBytes, Sized, With
<1>3. ASSUME NEW p, LiveDropped(p) PROVE Sized'
  BY <1>3 DEF LiveDropped, SameBytes, Sized, Without
<1>4. ASSUME NEW p, NEW q, NEW n, n \in Nat, LiveMoved(p, q, n) PROVE Sized'
  BY <1>4 DEF LiveMoved, SameBytes, Sized, With, Without
<1> QED
  BY <1>1, <1>2, <1>3, <1>4 DEF LiveKinds

\* Who owns what is an invariant, together with the one before.
LEMMA OwnInductive == Spec => [](IInv /\ Own)
<1>1. Init => Own
  <2>1. SUFFICES ASSUME Init PROVE Own
    OBVIOUS
  <2>2. UsedAt(seg) = {}
    BY <2>1 DEF Init, UsedAt, Used, NoSegment
  <2>3. DOMAIN live = {} /\ Fallbacks = {}
    BY <2>1 DEF Init, Fallbacks
  <2> QED
    BY <2>2, <2>3 DEF Own, Spare, ExactUse, Sized
<1>2. IInv /\ IInv' /\ Own /\ [Next]_vars => Own'
  BY Uses, ApartUseNext, LiveStep, SizedStep DEF Own
<1> QED
  BY <1>1, <1>2, Inductive, PTL DEF Spec

\* The callers own exactly the used blocks of the linked segments and the
\* fallback blocks, whatever fails half way (ProtoGC.h:362-487, 993-1027).
THEOREM LiveIsExact == Spec => []LiveExact
<1>1. IInv /\ Own => LiveExact
  BY ExactForm DEF Own
<1> QED
  BY <1>1, OwnInductive, PTL

-----------------------------------------------------------------------------
(* The promise to the callers.                                             *)

rangeOf(p, n) == [cell |-> p[1], lo |-> p[2], hi |-> p[2] + n]

\* The range of a live pointer is that of the bytes behind it.
LEMMA ExtentIs ==
    ASSUME ExactUse, NEW p \in DOMAIN live
    PROVE  extentOf(p) = rangeOf(p, bytesAt(seg, fallback, p))
<1>1. p[1] \in DOMAIN fallback \/ p[2] \in Blocks(p[1])
  BY DEF ExactUse, Fallbacks, FallbackPtr, UsedAt, Used, Blocks
<1> QED
  BY <1>1 DEF extentOf, rangeOf, bytesAt, sizeAt, Blocks

ranges == [p \in DOMAIN live |-> rangeOf(p, bytesAt(seg, fallback, p))]

AsRanges == [p \in DOMAIN live |-> extentOf(p)] = ranges

\* The extents of the refinement mapping are these ranges, in every state.
LEMMA RangesAre ==
    /\ ExactUse => AsRanges
    /\ ExactUse' => AsRanges'
<1>1. ExactUse => AsRanges
  BY ExtentIs DEF ranges, AsRanges
<1> QED
  BY <1>1, PTL

\* No two live pointers share memory.
LEMMA RangesApart ==
    ASSUME IInv, Own, NEW p \in DOMAIN live, NEW q \in DOMAIN live, p # q
    PROVE  Contract!Disjoint(ranges[p], ranges[q])
<1>1. CASE p[1] # q[1]
  BY <1>1 DEF Contract!Disjoint, ranges, rangeOf
<1>2. CASE p[1] = q[1]
  <2>1. ApartUse /\ ExactUse
    BY ApartUseNext DEF Own
  <2>2. p \in UsedAt(seg) /\ q \in UsedAt(seg)
    BY <1>2, <2>1 DEF ExactUse, ApartUse, Fallbacks, FallbackPtr
  <2>3. PICK hp \in Heaps : p[1] \in Linked(hp)
    BY <2>2 DEF Own, Spare
  <2>4. Well(heap[hp], seg) /\ p[1] \in Listed(heap[hp])
    BY <2>3, HeapsWell, LinkedIsListed
  <2>5. \/ p[2] + sizeAt(seg, p) <= q[2]
        \/ q[2] + sizeAt(seg, q) <= p[2]
    BY <1>2, <2>2, <2>4, UsedApart
  <2>6. /\ bytesAt(seg, fallback, p) = sizeAt(seg, p)
        /\ bytesAt(seg, fallback, q) = sizeAt(seg, q)
    BY <2>1, <2>2 DEF bytesAt, ApartUse
  <2> QED
    BY <2>5, <2>6 DEF Contract!Disjoint, ranges, rangeOf
<1> QED
  BY <1>1, <1>2

Separated == \A p, q \in DOMAIN live : p # q => Contract!Disjoint(ranges[p], ranges[q])

\* The same, of the state after a step.
LEMMA SeparatedNext == IInv' /\ Own' => Separated'
<1>1. IInv /\ Own => Separated
  BY RangesApart DEF Separated
<1> QED
  BY <1>1, PTL

\* Every step is one of the contract, or none.
LEMMA ContractStep ==
    ASSUME IInv, IInv', Own, Own', LiveKinds
    PROVE  [Contract!ContractNext]_(Contract!cvars)
<1> DEFINE E == [p \in DOMAIN live |-> extentOf(p)]
           F == [p \in DOMAIN live' |-> rangeOf(p, bytesAt(seg', fallback', p))]
<1>1. E = ranges /\ E' = F /\ ranges' = F
  <2>1. E = ranges
    BY RangesAre DEF Own, AsRanges
  <2>2. E' = ranges'
    BY RangesAre DEF Own, AsRanges
  <2>3. ranges' = F
    BY DEF ranges, rangeOf, bytesAt, sizeAt
  <2> QED
    BY <2>1, <2>2, <2>3
<1>2. /\ DOMAIN E = DOMAIN live
      /\ \A p \in DOMAIN live : E[p] = rangeOf(p, bytesAt(seg, fallback, p))
  BY <1>1 DEF ranges
<1>3. \A p, q \in DOMAIN live' : p # q => Contract!Disjoint(F[p], F[q])
  <2>1. \A p, q \in DOMAIN live' : p # q => Contract!Disjoint(ranges'[p], ranges'[q])
    BY SeparatedNext DEF Separated, Contract!Disjoint
  <2> HIDE DEF F
  <2> QED
    BY <1>1, <2>1
<1>4. E = [p \in DOMAIN live |-> E[p]]
  BY <1>2
<1> HIDE DEF E, F
<1>5. ASSUME NEW P, SameBytes(P), NEW o \in P, o \in DOMAIN live, o \in DOMAIN live'
      PROVE  F[o] = E[o]
  BY <1>2, <1>5 DEF SameBytes, F
<1>6. \A o \in DOMAIN live' :
        Contract!Holds(F[o], live'[o])
  <2> TAKE o \in DOMAIN live'
  <2>1. bytesAt(seg', fallback', o) \in Nat /\ live'[o] <= bytesAt(seg', fallback', o)
    BY DEF Own, Sized, bytesAt, sizeAt
  <2>2. o[2] \in Nat /\ live'[o] \in Nat
    BY DEF IInv, TypeOK, CallType
  <2> QED
    BY <2>1, <2>2 DEF F, rangeOf, Contract!Holds
<1>7. /\ DOMAIN F = DOMAIN live' /\ F = [o \in DOMAIN live' |-> F[o]]
      /\ \A o \in DOMAIN live' : F[o] = rangeOf(o, bytesAt(seg', fallback', o))
  BY DEF F
<1>8. CASE LiveQuiet
  <2>1. live' = live /\ \A o \in DOMAIN live : F[o] = E[o]
    BY <1>5, <1>8 DEF LiveQuiet
  <2>2. F = E
    BY <1>2, <1>4, <1>7, <2>1
  <2> QED
    BY <1>1, <2>1, <2>2 DEF Contract!cvars, E
<1>9. ASSUME NEW p, NEW n, n \in Nat, LiveGiven(p, n)
      PROVE  Contract!ContractNext
  <2>1. /\ p \notin DOMAIN live /\ live' = With(live, p, n) /\ SameBytes(DOMAIN live)
        /\ DOMAIN live' = DOMAIN live \cup {p} /\ live'[p] = n
    BY <1>9 DEF LiveGiven, With
  <2>2. \A o \in DOMAIN live : F[o] = E[o]
    BY <1>5, <2>1
  <2>3. live' = Contract!Put(live, p, n)
    BY <2>1 DEF With, Contract!Put
  <2>4. F = Contract!Put(E, p, F[p])
    BY <1>2, <1>7, <2>1, <2>2 DEF Contract!Put
  <2>5. \A o \in DOMAIN E : Contract!Disjoint(E[o], F[p])
    BY <1>2, <1>3, <2>1, <2>2
  <2>6. Contract!Alloc(p, live'[p], F[p])
    BY <1>1, <1>6, <2>1, <2>3, <2>4, <2>5 DEF Contract!Alloc, Contract!Give, E
  <2> QED
    BY <1>1, <2>1, <2>6 DEF Contract!ContractNext, E
<1>10. ASSUME NEW p, LiveDropped(p)
       PROVE  Contract!ContractNext
  <2>1. /\ p \in DOMAIN live /\ live' = Without(p) /\ SameBytes(DOMAIN live \ {p})
        /\ DOMAIN live' = DOMAIN live \ {p}
    BY <1>10 DEF LiveDropped, Without
  <2>2. \A o \in DOMAIN live \ {p} : F[o] = E[o]
    BY <1>5, <2>1
  <2>3. live' = Contract!Drop(live, p)
    BY <2>1 DEF Without, Contract!Drop
  <2>4. F = Contract!Drop(E, p)
    BY <1>2, <1>7, <2>1, <2>2 DEF Contract!Drop
  <2>5. Contract!Free(p)
    BY <1>1, <2>1, <2>3, <2>4 DEF Contract!Free, E
  <2> QED
    BY <2>1, <2>5 DEF Contract!ContractNext
<1>11. ASSUME NEW p, NEW q, NEW n, n \in Nat, LiveMoved(p, q, n)
       PROVE  Contract!ContractNext
  <2>1. /\ p \in DOMAIN live /\ live' = With(Without(p), q, n) /\ SameBytes(DOMAIN live \ {p})
        /\ DOMAIN live' = (DOMAIN live \ {p}) \cup {q} /\ live'[q] = n
        /\ p # q => q \notin DOMAIN live
    BY <1>11 DEF LiveMoved, With, Without
  <2>2. \A o \in DOMAIN live \ {p} : F[o] = E[o]
    BY <1>5, <2>1
  <2>3. \A o \in DOMAIN live \ {p} : Contract!Disjoint(E[o], F[q])
    BY <1>3, <2>1, <2>2
  <2>4. CASE p = q
    <3>1. live' = Contract!Put(live, p, n)
      BY <2>1, <2>4 DEF With, Without, Contract!Put
    <3>2. F = Contract!Put(Contract!Drop(E, p), p, F[p])
      BY <1>2, <1>7, <2>1, <2>2, <2>4 DEF Contract!Put, Contract!Drop
    <3>3. \A o \in DOMAIN Contract!Drop(E, p) : Contract!Disjoint(Contract!Drop(E, p)[o], F[p])
      BY <1>2, <2>3, <2>4 DEF Contract!Drop
    <3>4. F[p].cell = E[p].cell /\ F[p].lo = E[p].lo
      <4>1. F[p] = rangeOf(p, bytesAt(seg', fallback', p)) /\ E[p] = rangeOf(p, bytesAt(seg, fallback, p))
        BY <1>2, <1>7, <2>1, <2>4
      <4>2. \A m : rangeOf(p, m).cell = p[1] /\ rangeOf(p, m).lo = p[2]
        BY DEF rangeOf
      <4> QED
        BY <4>1, <4>2
    <3>5. Contract!Resize(p, live'[p], F[p])
      BY <1>1, <1>6, <2>1, <2>4, <3>1, <3>2, <3>3, <3>4 DEF Contract!Resize, Contract!Give, E
    <3> QED
      BY <1>1, <2>1, <2>4, <3>5 DEF Contract!ContractNext, E
  <2>5. CASE p # q
    <3>1. live' = Contract!Put(Contract!Drop(live, p), q, n)
      BY <2>1 DEF With, Without, Contract!Put, Contract!Drop
    <3>2. F = Contract!Put(Contract!Drop(E, p), q, F[q])
      BY <1>2, <1>7, <2>1, <2>2 DEF Contract!Put, Contract!Drop
    <3>3. Contract!Disjoint(E[p], F[q])
      <4>1. q[1] = p[1] => \/ p[2] + bytesAt(seg, fallback, p) <= q[2]
                           \/ q[2] + bytesAt(seg', fallback', q) <= p[2]
        BY <1>11, <2>5 DEF LiveMoved
      <4>2. F[q] = rangeOf(q, bytesAt(seg', fallback', q)) /\ E[p] = rangeOf(p, bytesAt(seg, fallback, p))
        BY <1>2, <1>7, <2>1
      <4> HIDE DEF E
      <4> QED
        BY <4>1, <4>2 DEF Contract!Disjoint, rangeOf
    <3>4. \A o \in DOMAIN E : Contract!Disjoint(E[o], F[q])
      BY <1>2, <2>3, <3>3
    <3>5. Contract!Move(p, q, live'[q], F[q])
      BY <1>1, <1>6, <2>1, <2>5, <3>1, <3>2, <3>4 DEF Contract!Move, E
    <3> QED
      BY <1>1, <2>1, <3>5 DEF Contract!ContractNext, E
  <2> QED
    BY <2>4, <2>5
<1> QED
  BY <1>8, <1>9, <1>10, <1>11 DEF LiveKinds

\* heapAlloc, heapFree, heapRealloc and mallocTrim keep the promise every caller
\* relies on: a live pointer has the memory that was asked for and nobody
\* else's, and it moves only when its owner reallocates it, whatever the other
\* tasks grow, merge, split or trim meanwhile (ProtoGC.h:362-487, 645-704).
THEOREM HeapKeepsContract == Spec => KeepsContract
<1>1. Init => Contract!ContractInit
  BY DEF Init, Contract!ContractInit
<1>2. IInv /\ IInv' /\ Own /\ Own' /\ [Next]_vars => [Contract!ContractNext]_(Contract!cvars)
  BY Uses, ApartUseNext, LiveStep, ContractStep DEF Own
<1> QED
  BY <1>1, <1>2, OwnInductive, PTL DEF Spec, KeepsContract, Contract!ContractSpec

-----------------------------------------------------------------------------
(* What a trim takes, and what it leaves.                                  *)

\* The running trim has stepped over segment c of heap hp for a reason.
Needed(hp, c) == ~isTrimmable(seg, c, heap[hp].freeBytes, req[lock].size)

\* The releasable bytes of trimUnlink are up to date, and a trim that has
\* detached nothing yet needed every segment it has passed.
Scanned ==
    lock # NoTask =>
        /\ scan.releasable = heap[scan.heap].freeBytes
        /\ scan.count = 0 =>
             /\ \A i \in DOMAIN heap[scan.heap].segments :
                  i < scan.at => Needed(scan.heap, heap[scan.heap].segments[i])
             /\ scan.heap = "internal" => \A c \in Linked("psram") : Needed("psram", c)

\* The fast paths of a critical section work on the segments of one heap, or on none.
LEMMA Works ==
    ASSUME IInv, NEW t \in Tasks, AllocFast(t) \/ FreeManaged(t) \/ ReallocFast(t)
    PROVE  \/ UNCHANGED <<heap, seg>>
           \/ \E hp \in Heaps : \E h : /\ HeapStep(heap[hp], seg, h, seg')
                                       /\ heap' = [heap EXCEPT ![hp] = h]
<1>1. CASE AllocFast(t)
  <2> DEFINE hp == managedHeapForCaps(req[t].caps)
             r == allocate(heap[hp], seg, req[t].size, req[t].caps)
  <2>1. IF hp = NoHeap THEN UNCHANGED <<heap, seg>>
        ELSE IF r.ptr # NoPtr THEN SetHeap(hp, r) ELSE UNCHANGED <<heap, seg>>
    BY <1>1 DEF AllocFast
  <2>2. ASSUME hp # NoHeap PROVE hp \in Heaps /\ HeapStep(heap[hp], seg, r.h, r.seg)
    <3>1. hp \in Heaps
      BY <2>2 DEF managedHeapForCaps, Heaps
    <3> QED
      BY <3>1, CallFacts, HeapsWell, AllocateStep
  <2> HIDE DEF r, hp
  <2> QED
    BY <2>1, <2>2 DEF SetHeap
<1>2. CASE FreeManaged(t)
  <2> DEFINE p == req[t].ptr
             hp == owningManagedHeap(p)
             r == deallocate(heap[hp], seg, p)
  <2>1. IF hp # NoHeap /\ r.ok THEN SetHeap(hp, r) ELSE UNCHANGED <<heap, seg>>
    BY <1>2 DEF FreeManaged
  <2>2. ASSUME hp # NoHeap PROVE hp \in Heaps /\ HeapStep(heap[hp], seg, r.h, r.seg)
    <3>1. hp \in Heaps
      BY <2>2 DEF owningManagedHeap, Heaps
    <3> QED
      BY <3>1, HeapsWell, DeallocateStep
  <2> HIDE DEF r, hp
  <2> QED
    BY <2>1, <2>2 DEF SetHeap
<1>3. CASE ReallocFast(t)
  <2> DEFINE p == req[t].ptr
             hp == owningManagedHeap(p)
             r == reallocate(heap[hp], seg, p, req[t].size, heap[hp].requiredCaps)
             q == IF hp = NoHeap THEN [status |-> "NotOwned"] ELSE r
  <2>1. IF q.status = "Done" THEN SetHeap(hp, q) ELSE UNCHANGED <<heap, seg>>
    BY <1>3 DEF ReallocFast
  <2>2. ASSUME hp # NoHeap PROVE hp \in Heaps /\ HeapStep(heap[hp], seg, r.h, r.seg)
    <3>1. hp \in Heaps /\ p \in Cells \X Nat
      BY <2>2, CallFacts, OwnerIs
    <3>2. Well(heap[hp], seg) /\ req[t].size \in Nat
      BY <3>1, CallFacts, HeapsWell
    <3> HIDE DEF p, hp
    <3> QED
      BY <3>1, <3>2, ReallocateStep
  <2>3. hp = NoHeap => q.status # "Done"
    OBVIOUS
  <2>4. hp # NoHeap => q = r
    OBVIOUS
  <2> HIDE DEF r, hp, q
  <2> QED
    BY <2>1, <2>2, <2>3, <2>4 DEF SetHeap
<1> QED
  BY <1>1, <1>2, <1>3

\* After a growth one heap works on its segments and the new one.
LEMMA Links ==
    ASSUME IInv, NEW t \in Tasks, LinkSegment(t) \/ GrowLink(t)
    PROVE  /\ pc[t] \in {"link", "growLink"} /\ req[t].heap \in Heaps
           /\ \E c \in held[t] : \E h :
                /\ HeapStep(linkSegment(heap[req[t].heap], seg, c), seg, h, seg')
                /\ heap' = [heap EXCEPT ![req[t].heap] = h]
<1> DEFINE hp == req[t].heap
           c == CHOOSE c \in held[t] : TRUE
           linked == linkSegment(heap[hp], seg, c)
<1>1. pc[t] \in {"link", "growLink"}
  BY DEF LinkSegment, GrowLink
<1>2. c \in held[t] /\ hp \in Heaps /\ req[t].size \in Nat
      /\ req[t].ptr \in (Cells \cup {NoCell, ForeignCell}) \X Nat
  BY <1>1, CallFacts DEF HandsMatch, PtrType
<1>3. Well(linked, seg)
  BY <1>1, <1>2, LinkedWell
<1>4. CASE LinkSegment(t)
  <2> DEFINE r == allocate(linked, seg, req[t].size, req[t].caps)
  <2>1. heap' = [heap EXCEPT ![hp] = r.h] /\ seg' = r.seg
    BY <1>4 DEF LinkSegment, SetHeap
  <2>2. HeapStep(linked, seg, r.h, r.seg)
    BY <1>2, <1>3, AllocateStep
  <2> HIDE DEF c, r
  <2> QED
    BY <1>1, <1>2, <2>1, <2>2
<1>5. CASE GrowLink(t)
  <2> DEFINE r == reallocate(linked, seg, req[t].ptr, req[t].size, heap[hp].requiredCaps)
  <2>1. heap' = [heap EXCEPT ![hp] = r.h] /\ seg' = r.seg
    BY <1>5 DEF GrowLink, SetHeap
  <2>2. HeapStep(linked, seg, r.h, r.seg)
    BY <1>2, <1>3, ReallocateStep
  <2> HIDE DEF c, r
  <2> QED
    BY <1>1, <1>2, <2>1, <2>2
<1> QED
  BY <1>4, <1>5

\* A task inside a critical section of its own keeps the lists, or adds to one.
LEMMA ListsGrow ==
    ASSUME IInv, NEW t \in Tasks,
           \/ AllocFast(t) \/ FreeManaged(t) \/ ReallocFast(t)
           \/ LinkSegment(t) \/ GrowLink(t)
    PROVE  \A g \in Heaps : Linked(g) \subseteq Linked(g)'
<1>1. CASE AllocFast(t) \/ FreeManaged(t) \/ ReallocFast(t)
  <2>1. CASE UNCHANGED heap
    BY <2>1 DEF Linked
  <2>2. CASE \E hp \in Heaps : \E h : /\ HeapStep(heap[hp], seg, h, seg')
                                  /\ heap' = [heap EXCEPT ![hp] = h]
    BY <2>2, ListStays
  <2> QED
    BY <1>1, <2>1, <2>2, Works
<1>2. CASE LinkSegment(t) \/ GrowLink(t)
  BY <1>2, Links, ListGrows
<1> QED
  BY <1>1, <1>2

\* While a trim holds the critical section the other tasks move no list, no
\* linked segment and nothing of the trim.
LEMMA WhileLocked ==
    ASSUME IInv, NEW t \in Tasks, lock = t, [Next]_vars
    PROVE  \/ TrimVisit(t) \/ TrimNextHeap(t) \/ TrimUnlock(t)
           \/ /\ UNCHANGED <<heap, lock, scan>> /\ req'[t] = req[t] /\ pc'[t] = pc[t]
              /\ \A g \in Heaps : \A c \in Linked(g) : seg'[c] = seg[c]
<1> DEFINE Aside == /\ UNCHANGED <<heap, lock, scan>> /\ req'[t] = req[t] /\ pc'[t] = pc[t]
                    /\ \A g \in Heaps : \A c \in Linked(g) : seg'[c] = seg[c]
<1>1. pc[t] = "scan" /\ t # NoTask /\ ~Unlocked
  BY NoTaskAssumption, CallFacts DEF HandsMatch, Unlocked
<1>2. CASE UNCHANGED vars
  BY <1>2 DEF vars
<1>3. ASSUME NEW u \in Tasks, NEW l \in PcLabels, u # t, Goto(u, l) PROVE pc'[t] = pc[t]
  BY <1>3, Goes
<1>4. ASSUME NEW u \in Tasks, NEW r, u # t, req' = [req EXCEPT ![u] = r] PROVE req'[t] = req[t]
  BY <1>4, CallFacts
<1>5. ASSUME NEW u \in Tasks, u # t, Return(u) PROVE pc'[t] = pc[t] /\ req'[t] = req[t]
  BY <1>5, Returns
<1>6. ASSUME NEW u \in Tasks, Call(u) PROVE Aside
  <2>1. pc[u] = "idle" /\ UNCHANGED <<heap, seg, lock, scan>>
    BY <1>6 DEF Call, HeapAlloc, HeapFree, HeapRealloc, MallocTrim, trimVars
  <2>2. u # t
    BY <1>1, <2>1
  <2>3. \E l \in PcLabels : Goto(u, l)
    BY <1>6 DEF Call, HeapAlloc, HeapFree, HeapRealloc, MallocTrim, PcLabels
  <2>4. \E r : req' = [req EXCEPT ![u] = r]
    BY <1>6 DEF Call, HeapAlloc, HeapFree, HeapRealloc, MallocTrim
  <2> QED
    BY <1>3, <1>4, <2>1, <2>2, <2>3, <2>4
<1>7. ASSUME NEW u \in Tasks, Step(u) PROVE TrimVisit(t) \/ TrimNextHeap(t) \/ TrimUnlock(t) \/ Aside
  <2>1. CASE CreateSegment(u)
    <3>1. /\ pc[u] \in {"create", "growCreate"} /\ UNCHANGED <<heap, lock, scan, req>>
          /\ \E l \in {"link", "growLink"} : Goto(u, l)
          /\ \E c \in sys : \E s : seg' = [seg EXCEPT ![c] = s]
      BY <2>1 DEF CreateSegment, trimVars
    <3>2. u # t
      BY <1>1, <3>1
    <3>a. PICK c \in sys : \E s : seg' = [seg EXCEPT ![c] = s]
      BY <3>1
    <3>3. PICK s : seg' = [seg EXCEPT ![c] = s]
      BY <3>a
    <3>4. \A g \in Heaps : \A d \in Linked(g) : seg'[d] = seg[d]
      BY <3>3, Placed DEF IInv, TypeOK, MemoryType
    <3> QED
      BY <1>3, <3>1, <3>2, <3>4 DEF PcLabels
  <2>2. CASE CreateFails(u) \/ RawAlloc(u)
    <3>1. /\ pc[u] \in {"create", "growCreate", "raw"} /\ UNCHANGED <<heap, seg, lock, scan>>
          /\ (\E l \in {"raw", "rawLink"} : Goto(u, l) /\ UNCHANGED req) \/ Return(u)
      BY <2>2 DEF CreateFails, RawAlloc, trimVars
    <3>2. u # t
      BY <1>1, <3>1
    <3> QED
      BY <1>3, <1>5, <3>1, <3>2 DEF PcLabels
  <2>3. CASE Release(u)
    <3>1. /\ pc[u] \in {"release", "trimRelease"} /\ UNCHANGED <<heap, lock, scan>>
          /\ UNCHANGED <<pc, req>> \/ (Goto(u, "trim") /\ UNCHANGED req) \/ Return(u)
          /\ \E c \in held[u] : seg' = [seg EXCEPT ![c] = NoSegment]
      BY <2>3 DEF Release, trimVars
    <3>2. u # t
      BY <1>1, <3>1
    <3>3. PICK c \in held[u] : seg' = [seg EXCEPT ![c] = NoSegment]
      BY <3>1
    <3>4. \A g \in Heaps : \A d \in Linked(g) : seg'[d] = seg[d]
      BY <3>3, Placed DEF IInv, TypeOK, MemoryType
    <3> QED
      BY <1>3, <1>5, <3>1, <3>2, <3>4 DEF PcLabels
  <2>4. CASE TrimVisit(u) \/ TrimNextHeap(u) \/ TrimUnlock(u)
    <3>1. u = t
      BY <2>4, Scanner DEF TrimVisit, TrimNextHeap, TrimUnlock
    <3> QED
      BY <2>4, <3>1
  <2> QED
    BY <1>1, <1>7, <2>1, <2>2, <2>3, <2>4
       DEF Step, AllocFast, LinkSegment, RawLink, FreeManaged, FreeFallback, ReallocFast,
           GrowLink, FindFallback, TrimLock
<1> QED
  BY <1>2, <1>6, <1>7 DEF Next

\* What is needed stays needed while nothing of it changes.
LEMMA StillNeeded ==
    ASSUME NEW hp, NEW c, Needed(hp, c), heap'[hp] = heap[hp], seg'[c] = seg[c],
           lock' = lock, req'[lock] = req[lock]
    PROVE  Needed(hp, c)'
  BY DEF Needed, isTrimmable, segmentIsCompletelyFree

\* The free bytes after a segment that trimUnlink takes are what it computed.
LEMMA UnlinkFree ==
    ASSUME NEW h \in AllocatorType, NEW s, NEW i, NEW pad \in Nat,
           s[h.segments[i]].blk[FirstBlock].size \in Nat,
           isTrimmable(s, h.segments[i], h.freeBytes, pad)
    PROVE  /\ unlinkSegment(h, s, i).freeBytes
                = h.freeBytes - s[h.segments[i]].blk[FirstBlock].size
           /\ unlinkSegment(h, s, i).freeBytes >= pad
<1> DEFINE payload == s[h.segments[i]].blk[FirstBlock].size
<1>1. h.freeBytes \in Int /\ payload \in Nat /\ h.freeBytes - payload >= pad
  BY DEF AllocatorType, isTrimmable
<1>2. unlinkSegment(h, s, i).freeBytes = IF h.freeBytes >= payload THEN h.freeBytes - payload
                                                                   ELSE h.freeBytes
  BY DEF unlinkSegment, AllocatorType
<1> HIDE DEF payload
<1>3. h.freeBytes >= payload
  BY <1>1
<1> QED
  BY <1>1, <1>2, <1>3 DEF payload

\* One turn of the trim loop, at segment c of heap g: detach it or step over it.
VisitAt(t, g, c) ==
    /\ g = scan.heap /\ lock = t
    /\ scan.at \in DOMAIN heap[g].segments /\ c = heap[g].segments[scan.at]
    /\ UNCHANGED <<seg, fallback, lock, pc, req, live>>
    /\ \/ /\ isTrimmable(seg, c, scan.releasable, req[t].size)
          /\ heap'[g] = unlinkSegment(heap[g], seg, scan.at)
          /\ \A f \in Heaps \ {g} : heap'[f] = heap[f]
          /\ scan'.heap = g /\ scan'.count # 0
          /\ scan'.releasable = scan.releasable - seg[c].blk[FirstBlock].size
       \/ /\ ~isTrimmable(seg, c, scan.releasable, req[t].size)
          /\ UNCHANGED heap
          /\ scan'.heap = g /\ scan'.count = scan.count /\ scan'.releasable = scan.releasable
          /\ scan'.at = scan.at + 1

\* That is what TrimVisit does.
LEMMA VisitIs ==
    ASSUME IInv, NEW t \in Tasks, TrimVisit(t)
    PROVE  \E g \in Heaps : \E c \in Linked(g) : VisitAt(t, g, c)
<1> DEFINE hp == scan.heap
           h == heap[hp]
           c == h.segments[scan.at]
           payload == seg[c].blk[FirstBlock].size
<1>0. /\ pc[t] = "scan" /\ Scanning /\ UNCHANGED <<seg, fallback, lock, pc, req, live>>
      /\ IF isTrimmable(seg, c, scan.releasable, req[t].size)
         THEN /\ heap' = [heap EXCEPT ![hp] = unlinkSegment(h, seg, scan.at)]
              /\ scan' = [scan EXCEPT !.count = @ + 1, !.releasable = @ - payload]
         ELSE /\ scan' = [scan EXCEPT !.at = @ + 1]
              /\ UNCHANGED heap
  BY DEF TrimVisit, fallbackVars
<1>1. hp \in Heaps /\ scan.at \in Nat \ {0} /\ scan.at <= Len(h.segments) /\ scan \in ScanType
      /\ scan.count \in Nat
  BY <1>0, CallFacts, ScanTypes DEF Scanning
<1>2. h.segments \in Seq(Cells) /\ heap \in [Heaps -> AllocatorType]
  BY <1>1, HeapsWell, ListedFacts DEF Well, IInv, TypeOK, MemoryType
<1>3. scan.at \in DOMAIN h.segments
  BY <1>1, <1>2
<1>4. c \in Linked(hp)
  BY <1>3 DEF Linked
<1>5. lock = t
  BY <1>0, Scanner
<1> DEFINE new == unlinkSegment(h, seg, scan.at)
           count == scan.count + 1
           left == scan.releasable - payload
<1>6. CASE isTrimmable(seg, c, scan.releasable, req[t].size)
  <2>1. /\ heap' = [heap EXCEPT ![hp] = new]
        /\ scan' = [scan EXCEPT !.count = count, !.releasable = left]
    BY <1>0, <1>6
  <2>2. count # 0
    BY <1>1
  <2> HIDE DEF new, count, left
  <2>3. /\ heap'[hp] = new /\ \A f \in Heaps \ {hp} : heap'[f] = heap[f]
        /\ scan'.heap = hp /\ scan'.count = count /\ scan'.releasable = left
    BY <1>1, <1>2, <2>1 DEF ScanType
  <2>4. VisitAt(t, hp, c)
    <3>1. /\ heap'[hp] = unlinkSegment(heap[hp], seg, scan.at)
          /\ scan'.releasable = scan.releasable - seg[c].blk[FirstBlock].size
      BY <2>3 DEF new, left
    <3> HIDE DEF c
    <3> QED
      BY <1>0, <1>3, <1>5, <1>6, <2>2, <2>3, <3>1 DEF VisitAt, c
  <2> QED
    BY <1>1, <1>4, <2>4
<1>7. CASE ~isTrimmable(seg, c, scan.releasable, req[t].size)
  <2>1. UNCHANGED heap /\ scan' = [scan EXCEPT !.at = scan.at + 1]
    BY <1>0, <1>7
  <2>2. /\ scan'.heap = hp /\ scan'.count = scan.count /\ scan'.releasable = scan.releasable
        /\ scan'.at = scan.at + 1
    BY <1>1, <2>1 DEF ScanType
  <2>3. VisitAt(t, hp, c)
    BY <1>0, <1>3, <1>5, <1>7, <2>1, <2>2 DEF VisitAt
  <2> QED
    BY <1>1, <1>4, <2>3
<1> QED
  BY <1>6, <1>7

\* A listed segment starts with a block.
LEMMA FirstOf ==
    ASSUME IInv, NEW g \in Heaps, NEW c \in Linked(g)
    PROVE  /\ seg[c].blk[FirstBlock].size \in Nat /\ c \in Cells
           /\ SoundSegment(seg[c]) /\ seg[c].total \in Nat
<1>1. c \in Cells /\ Well(heap[g], seg) /\ c \in Listed(heap[g])
  BY HeapsWell, LinkedIsListed
<1>2. SoundSegment(seg[c]) /\ seg[c].total \in Nat
  BY <1>1 DEF Well, SegmentsType
<1>3. FirstBlock \in DOMAIN seg[c].blk /\ \A o \in DOMAIN seg[c].blk : seg[c].blk[o].size \in Nat
  BY <1>2, TilesFacts DEF SoundSegment
<1> QED
  BY <1>1, <1>2, <1>3

\* A segment is detached only if the pad stays free.
LEMMA DetachFree ==
    ASSUME IInv, NEW t \in Tasks, NEW g \in Heaps, NEW c \in Linked(g), VisitAt(t, g, c),
           isTrimmable(seg, c, scan.releasable, req[t].size),
           scan.releasable = heap[g].freeBytes
    PROVE  /\ heap'[g].freeBytes = heap[g].freeBytes - seg[c].blk[FirstBlock].size
           /\ heap'[g].freeBytes >= req[t].size
<1> DEFINE i == scan.at
           h == heap[g]
           pad == req[t].size
<1>1. h \in AllocatorType /\ pad \in Nat /\ seg[c].blk[FirstBlock].size \in Nat
  BY CallFacts, HeapsWell, FirstOf DEF Well
<1>2. heap'[g] = unlinkSegment(h, seg, i) /\ c = h.segments[i]
  BY DEF VisitAt
<1>3. isTrimmable(seg, h.segments[i], h.freeBytes, pad)
  BY <1>2
<1>4. seg[h.segments[i]].blk[FirstBlock].size \in Nat
  BY <1>1, <1>2
<1> HIDE DEF h, i, pad
<1>5. /\ unlinkSegment(h, seg, i).freeBytes
           = h.freeBytes - seg[h.segments[i]].blk[FirstBlock].size
      /\ unlinkSegment(h, seg, i).freeBytes >= pad
  BY <1>1, <1>3, <1>4, UnlinkFree
<1> QED
  BY <1>2, <1>5 DEF h, pad

\* Every step keeps the trim's view of the heaps up to date.
LEMMA ScannedStep ==
    ASSUME IInv, IInv', Scanned, [Next]_vars
    PROVE  Scanned'
<1>1. CASE lock = NoTask
  <2>1. SUFFICES ASSUME lock' # NoTask PROVE Scanned'
    BY DEF Scanned
  <2>2. PICK t \in Tasks : TrimLock(t)
    <3>1. \A t \in Tasks : ~TrimVisit(t) /\ ~TrimNextHeap(t) /\ ~TrimUnlock(t)
      BY <1>1, NoTaskAssumption, Scanner DEF TrimVisit, TrimNextHeap, TrimUnlock
    <3> QED
      BY <1>1, <2>1, <3>1 DEF vars, Next, Call, HeapAlloc, HeapFree, HeapRealloc, MallocTrim,
         Step, AllocFast, CreateSegment, CreateFails, LinkSegment, RawAlloc, RawLink,
         FreeManaged, FreeFallback, ReallocFast, GrowLink, FindFallback, Release, trimVars
  <2>3. scan' = ScanOf("psram", 0) /\ UNCHANGED heap
    BY <2>2 DEF TrimLock
  <2>4. scan'.heap = "psram" /\ scan'.at = 1 /\ scan'.releasable = heap["psram"].freeBytes
    BY <2>3 DEF ScanOf
  <2>5. \A i \in DOMAIN heap["psram"].segments : ~(i < 1)
    BY HeapsWell, ListedFacts DEF Well, Heaps
  <2> QED
    BY <2>3, <2>4, <2>5 DEF Scanned
<1>2. CASE lock # NoTask
  <2>1. PICK t \in Tasks : lock = t
    BY <1>2 DEF IInv, TypeOK, CallType
  <2>2. \A f \in Heaps : heap[f].segments \in Seq(Cells) /\ heap[f] \in AllocatorType
    BY HeapsWell, ListedFacts DEF Well
  <2>3. scan.at \in Nat \ {0} /\ scan.heap \in Heaps
    BY ScanTypes
  <2>4. CASE TrimVisit(t)
    <3>1. PICK g \in Heaps : \E c \in Linked(g) : VisitAt(t, g, c)
      BY <2>4, VisitIs
    <3>2. PICK c \in Linked(g) : VisitAt(t, g, c)
      BY <3>1
    <3>3. CASE isTrimmable(seg, c, scan.releasable, req[t].size)
      <4>1. /\ scan'.heap = g /\ scan'.count # 0
            /\ scan'.releasable = scan.releasable - seg[c].blk[FirstBlock].size
            /\ heap'[g] = unlinkSegment(heap[g], seg, scan.at)
            /\ c = heap[g].segments[scan.at] /\ scan.releasable = heap[g].freeBytes
        BY <1>2, <3>2, <3>3 DEF VisitAt, Scanned
      <4>2. heap'[g].freeBytes = heap[g].freeBytes - seg[c].blk[FirstBlock].size
        BY <3>2, <3>3, <4>1, DetachFree
      <4> QED
        BY <4>1, <4>2 DEF Scanned
    <3>4. CASE ~isTrimmable(seg, c, scan.releasable, req[t].size)
      <4>1. /\ UNCHANGED <<heap, seg, lock, req>> /\ g = scan.heap
            /\ scan'.heap = g /\ scan'.count = scan.count /\ scan'.releasable = scan.releasable
            /\ scan'.at = scan.at + 1 /\ c = heap[g].segments[scan.at]
            /\ scan.releasable = heap[g].freeBytes
        BY <1>2, <3>2, <3>4 DEF VisitAt, Scanned
      <4>2. Needed(g, c)
        BY <2>1, <3>4, <4>1 DEF Needed
      <4>3. ASSUME scan.count = 0, NEW i \in DOMAIN heap[g].segments, i < scan.at + 1
            PROVE  Needed(g, heap[g].segments[i])
        <5>1. i \in Nat /\ (i < scan.at \/ i = scan.at)
          BY <2>2, <2>3, <4>3
        <5> QED
          BY <1>2, <4>1, <4>2, <4>3, <5>1 DEF Scanned
      <4>4. scan.count = 0 /\ g = "internal" => \A d \in Linked("psram") : Needed("psram", d)
        BY <1>2, <4>1 DEF Scanned
      <4>5. /\ \A f, d : Needed(f, d) => Needed(f, d)'
            /\ Linked("psram")' = Linked("psram")
        BY <4>1 DEF Needed, Linked
      <4> QED
        BY <4>1, <4>3, <4>4, <4>5 DEF Scanned
    <3> QED
      BY <3>3, <3>4
  <2>5. CASE TrimNextHeap(t)
    <3>1. /\ UNCHANGED <<heap, seg, lock, req>> /\ scan' = ScanOf("internal", scan.count)
          /\ ~Scanning /\ scan.heap = "psram"
      BY <2>5 DEF TrimNextHeap
    <3>2. /\ scan'.heap = "internal" /\ scan'.at = 1 /\ scan'.count = scan.count
          /\ scan'.releasable = heap["internal"].freeBytes
      BY <3>1 DEF ScanOf
    <3>3. \A i \in DOMAIN heap["internal"].segments : ~(i < 1)
      BY <2>2 DEF Heaps
    <3>4. ASSUME scan.count = 0, NEW d \in Linked("psram") PROVE Needed("psram", d)
      <4>1. PICK i \in DOMAIN heap["psram"].segments : d = heap["psram"].segments[i]
        BY <3>4 DEF Linked
      <4>2. scan.at > Len(heap["psram"].segments)
        BY <2>2, <2>3, <3>1, <3>4, ScanTypes DEF Scanning
      <4>3. i < scan.at
        BY <2>2, <2>3, <3>1, <4>2
      <4> QED
        BY <1>2, <3>1, <3>4, <4>1, <4>3 DEF Scanned
    <3>5. /\ \A f, d : Needed(f, d) => Needed(f, d)'
          /\ Linked("psram")' = Linked("psram")
      BY <3>1 DEF Needed, Linked
    <3> QED
      BY <3>1, <3>2, <3>3, <3>4, <3>5 DEF Scanned
  <2>6. CASE TrimUnlock(t)
    BY <2>6 DEF TrimUnlock, Scanned
  <2>7. CASE /\ UNCHANGED <<heap, lock, scan>> /\ req'[t] = req[t]
             /\ \A g \in Heaps : \A c \in Linked(g) : seg'[c] = seg[c]
    <3>1. ASSUME NEW g \in Heaps, NEW c \in Linked(g), Needed(g, c) PROVE Needed(g, c)'
      BY <2>1, <2>7, <3>1, StillNeeded
    <3>2. \A g \in Heaps : \A i \in DOMAIN heap[g].segments : heap[g].segments[i] \in Linked(g)
      BY DEF Linked
    <3>3. Linked("psram")' = Linked("psram") /\ "psram" \in Heaps
      BY <2>7 DEF Linked, Heaps
    <3> QED
      BY <1>2, <2>3, <2>7, <3>1, <3>2, <3>3 DEF Scanned
  <2> QED
    BY <2>1, <2>4, <2>5, <2>6, <2>7, WhileLocked
<1> QED
  BY <1>1, <1>2

\* The trim's view of the heaps is an invariant.
LEMMA ScannedInductive == Spec => [](IInv /\ Own /\ Scanned)
<1>1. Init => Scanned
  BY DEF Init, Scanned
<1>2. IInv /\ IInv' /\ Scanned /\ [Next]_vars => Scanned'
  BY ScannedStep
<1> QED
  BY <1>1, <1>2, OwnInductive, PTL DEF Spec

\* A segment that leaves a list has no live pointer and was not needed for the pad.
LEMMA TrimTakes ==
    ASSUME IInv, Own, Scanned, [Next]_vars,
           NEW hp \in Heaps, NEW c \in Cells, c \in Linked(hp), c \notin Linked(hp)'
    PROVE  /\ heap'[hp].freeBytes >= req[lock].size
           /\ \A p \in DOMAIN live : p[1] # c
<1>1. PICK t \in Tasks : TrimVisit(t)
  <2>1. ~UNCHANGED heap
    BY DEF Linked
  <2>2. \A t \in Tasks : \/ ~(AllocFast(t) \/ FreeManaged(t) \/ ReallocFast(t))
                         \/ \A g \in Heaps : Linked(g) \subseteq Linked(g)'
    BY ListsGrow
  <2>3. \A t \in Tasks : \/ ~(LinkSegment(t) \/ GrowLink(t))
                         \/ \A g \in Heaps : Linked(g) \subseteq Linked(g)'
    BY ListsGrow
  <2> QED
    BY <2>1, <2>2, <2>3
       DEF vars, Next, Call, HeapAlloc, HeapFree, HeapRealloc, MallocTrim, Step,
           CreateSegment, CreateFails, RawAlloc, RawLink, FreeFallback, FindFallback,
           TrimLock, TrimNextHeap, TrimUnlock, Release
<1>2. PICK g \in Heaps : \E d \in Linked(g) : VisitAt(t, g, d)
  BY <1>1, VisitIs
<1>3. PICK d \in Linked(g) : VisitAt(t, g, d)
  BY <1>2
<1>4. /\ isTrimmable(seg, d, scan.releasable, req[t].size) /\ lock = t
      /\ heap'[g] = unlinkSegment(heap[g], seg, scan.at)
      /\ \A f \in Heaps \ {g} : heap'[f] = heap[f]
      /\ scan.at \in DOMAIN heap[g].segments /\ d = heap[g].segments[scan.at]
      /\ scan.releasable = heap[g].freeBytes
  <2>1. ~UNCHANGED heap /\ t # NoTask
    BY NoTaskAssumption DEF Linked
  <2> QED
    BY <1>3, <2>1 DEF VisitAt, Scanned
<1>5. Listed(unlinkSegment(heap[g], seg, scan.at)) = Listed(heap[g]) \ {d}
  BY <1>4, HeapsWell, UnlinkFacts
<1>6. hp = g /\ c = d
  BY <1>4, <1>5 DEF Linked, Listed
<1>7. heap'[hp].freeBytes >= req[lock].size
  BY <1>3, <1>4, <1>6, DetachFree
<1>8. Used(seg[c].blk) = {}
  <2>1. SoundSegment(seg[c]) /\ seg[c].total \in Nat
    BY FirstOf
  <2> QED
    BY <1>4, <1>6, <2>1, FreeSegmentUse DEF isTrimmable
<1>9. ASSUME NEW p \in DOMAIN live PROVE p[1] # c
  <2>1. p \in UsedAt(seg) \/ p \in Fallbacks
    BY DEF Own, ExactUse
  <2>2. c \notin DOMAIN fallback
    BY Placed
  <2> QED
    BY <1>8, <2>1, <2>2 DEF UsedAt, Fallbacks, FallbackPtr
<1> QED
  BY <1>7, <1>9

\* mallocTrim leaves padBytes free in every heap it takes segments from, and
\* never detaches a segment that holds a live pointer, whatever the other tasks
\* do between its passes (ProtoGC.h:645-704).
THEOREM TrimIsSafe == Spec => TrimSafe
<1> DEFINE Safe == \A hp \in Heaps, c \in Cells :
                     c \in Linked(hp) /\ c \notin Linked(hp)' =>
                       /\ heap'[hp].freeBytes >= req[lock].size
                       /\ \A p \in DOMAIN live : p[1] # c
<1>1. ASSUME IInv, Own, Scanned, [Next]_vars PROVE Safe
  BY <1>1, TrimTakes
<1>2. IInv /\ Own /\ Scanned /\ [Next]_vars => [Safe]_vars
  BY <1>1
<1> QED
  BY <1>2, ScannedInductive, PTL DEF Spec, TrimSafe

\* A trim that returns has left no segment it could have released: it has seen
\* every segment of both heaps, though its loop forgets the ones it took and
\* comes back for more (HeapAllocator.h:243-270, ProtoGC.h:660-690).
THEOREM TrimIsThorough == Spec => TrimThorough
<1> DEFINE Thorough ==
             lock # NoTask /\ lock' = NoTask /\ pc'[lock] = "idle" =>
               \A hp \in Heaps : \A c \in Linked(hp) :
                 ~isTrimmable(seg, c, heap[hp].freeBytes, req[lock].size)
<1>1. ASSUME IInv, Own, Scanned, [Next]_vars PROVE Thorough
  <2> SUFFICES ASSUME lock # NoTask, lock' = NoTask, pc'[lock] = "idle",
                      NEW hp \in Heaps, NEW c \in Linked(hp)
               PROVE  Needed(hp, c)
    BY DEF Needed
  <2>1. PICK t \in Tasks : lock = t
    BY <1>1 DEF IInv, TypeOK, CallType
  <2>2. TrimUnlock(t)
    <3>1. ~TrimVisit(t) /\ ~TrimNextHeap(t) /\ ~UNCHANGED lock
      BY DEF TrimVisit, TrimNextHeap
    <3> QED
      BY <1>1, <2>1, <3>1, WhileLocked
  <2>3. ~Scanning /\ scan.heap = "internal" /\ scan.count = 0
    <3>1. /\ ~Scanning /\ scan.heap = "internal"
          /\ scan.count = 0 \/ Goto(t, "trimRelease")
      BY <2>2 DEF TrimUnlock
    <3>2. ~Goto(t, "trimRelease")
      BY <1>1, <2>1, Goes DEF PcLabels
    <3> QED
      BY <3>1, <3>2
  <2>4. CASE hp = "psram"
    BY <1>1, <2>1, <2>3, <2>4 DEF Scanned
  <2>5. CASE hp = "internal"
    <3>1. PICK i \in DOMAIN heap[hp].segments : c = heap[hp].segments[i]
      BY DEF Linked
    <3>2. heap[hp].segments \in Seq(Cells)
      BY <1>1, HeapsWell, ListedFacts DEF Well
    <3>3. i < scan.at
      BY <1>1, <2>3, <2>5, <3>1, <3>2, ScanTypes DEF Scanning
    <3> QED
      BY <1>1, <2>1, <2>3, <2>5, <3>1, <3>3 DEF Scanned
  <2> QED
    BY <2>4, <2>5, HeapsAreTwo
<1>2. IInv /\ Own /\ Scanned /\ [Next]_vars => [Thorough]_vars
  BY <1>1
<1> QED
  BY <1>2, ScannedInductive, PTL DEF Spec, TrimThorough

-----------------------------------------------------------------------------
(* A growth serves the request it was made for.                            *)

\* The capabilities of begin never change.
CapsFixed ==
    \A hp \in Heaps : /\ heap[hp].requiredCaps = requiredCaps(hp)
                      /\ heap[hp].forbiddenCaps = forbiddenCaps(hp)

\* No two tasks work on the same pointer: the callers own what they pass.
ClaimsApart ==
    \A t, u \in Tasks :
        t # u /\ req[t].ptr = req[u].ptr => req[t].ptr \in {NoPtr, ForeignPtr}

\* Where heapRealloc grows a heap, the block it moves is a live one of that heap.
GrowingAt(t) ==
    pc[t] \in {"growCreate", "growLink"} =>
        /\ req[t].ptr \in DOMAIN live
        /\ req[t].heap \in Heaps /\ req[t].ptr[1] \in Linked(req[t].heap)

Serves(c, t, caps) ==
    /\ fits(seg, c, alignUp(req[t].size)) # {}
    /\ caps \subseteq seg[c].caps

\* The segment in the hands of a task that grows a heap serves its request.
ReadyAt(t) ==
    /\ pc[t] \in {"alloc", "create", "link", "realloc", "growCreate", "growLink", "find"}
          => req[t].size # 0
    /\ pc[t] = "link" => \A c \in held[t] : Serves(c, t, req[t].caps)
    /\ pc[t] = "growLink" => \A c \in held[t] : Serves(c, t, requiredCaps(req[t].heap))

Growth == CapsFixed /\ ClaimsApart /\ \A t \in Tasks : GrowingAt(t) /\ ReadyAt(t)

\* Linking a cell that a task holds adds it to the list.
LEMMA HeldLinks ==
    ASSUME IInv, NEW t \in Tasks, pc[t] \in {"link", "growLink"}, NEW c \in held[t],
           NEW hp \in Heaps
    PROVE  /\ Well(linkSegment(heap[hp], seg, c), seg)
           /\ Listed(linkSegment(heap[hp], seg, c)) = Listed(heap[hp]) \cup {c}
<1>1. c \in Cells /\ seg[c] # NoSegment /\ c \notin Linked(hp)
  BY CallFacts, Placed DEF HandsMatch
<1>2. Well(heap[hp], seg) /\ SoundSegment(seg[c]) /\ c \notin Listed(heap[hp])
  BY <1>1, HeapsWell, LinkedIsListed DEF IInv, BlocksTile, SoundSegment
<1> QED
  BY <1>1, <1>2, LinkFacts

\* The steps of one task leave the others, and what they hold, alone.
LEMMA Others ==
    ASSUME IInv, NEW u \in Tasks, Call(u) \/ Step(u), NEW t \in Tasks \ {u}
    PROVE  /\ pc'[t] = pc[t] /\ req'[t] = req[t] /\ held'[t] = held[t]
           /\ \A c \in held[t] : seg'[c] = seg[c]
<1>1. /\ pc \in [Tasks -> PcLabels] /\ req \in [Tasks -> ReqType]
      /\ held \in [Tasks -> SUBSET Cells] /\ DOMAIN seg = Cells
  BY CallFacts DEF IInv, TypeOK, MemoryType
<1>2. pc'[t] = pc[t]
  <2>1. ASSUME NEW l, Goto(u, l) PROVE pc'[t] = pc[t]
    BY <1>1, <2>1 DEF Goto
  <2>2. Return(u) => pc'[t] = pc[t]
    BY <2>1 DEF Return
  <2>3. \A p : Deliver(u, p) => pc'[t] = pc[t]
    BY <2>1, <2>2 DEF Deliver
  <2>4. Call(u) => pc'[t] = pc[t]
    BY <2>1 DEF Call, HeapAlloc, HeapFree, HeapRealloc, MallocTrim
  <2>5. ASSUME Step(u) PROVE pc'[t] = pc[t]
    <3>1. CASE AllocFast(u) \/ CreateSegment(u) \/ CreateFails(u) \/ LinkSegment(u)
      BY <2>1, <2>2, <2>3, <3>1 DEF AllocFast, CreateSegment, CreateFails, LinkSegment
    <3>2. CASE RawAlloc(u) \/ RawLink(u) \/ FreeManaged(u) \/ FreeFallback(u)
      BY <2>1, <2>2, <2>3, <3>2 DEF RawAlloc, RawLink, FreeManaged, FreeFallback
    <3>3. CASE ReallocFast(u) \/ GrowLink(u) \/ FindFallback(u) \/ Release(u)
      BY <2>1, <2>2, <3>3 DEF ReallocFast, GrowLink, FindFallback, Release, Reallocated
    <3>4. CASE TrimLock(u) \/ TrimVisit(u) \/ TrimNextHeap(u) \/ TrimUnlock(u)
      BY <2>1, <2>2, <3>4 DEF TrimLock, TrimVisit, TrimNextHeap, TrimUnlock
    <3> QED
      BY <2>5, <3>1, <3>2, <3>3, <3>4 DEF Step
  <2> QED
    BY <2>4, <2>5
<1>3. req'[t] = req[t]
  <2>1. ASSUME NEW r, req' = [req EXCEPT ![u] = r] PROVE req'[t] = req[t]
    BY <1>1, <2>1
  <2>2. Return(u) => req'[t] = req[t]
    BY <2>1 DEF Return
  <2>3. ASSUME NEW p, Deliver(u, p) PROVE req'[t] = req[t]
    <3>1. Return(u) \/ req' = [req EXCEPT ![u].to = p]
      BY <2>3 DEF Deliver
    <3> QED
      BY <1>1, <2>2, <3>1
  <2>4. Call(u) => req'[t] = req[t]
    BY <1>1 DEF Call, HeapAlloc, HeapFree, HeapRealloc, MallocTrim
  <2>5. ASSUME Step(u) PROVE req'[t] = req[t]
    <3>1. CASE AllocFast(u) \/ LinkSegment(u)
      <4>1. (\E p : Deliver(u, p)) \/ UNCHANGED req
              \/ (\E hp : req' = [req EXCEPT ![u].heap = hp])
        BY <3>1 DEF AllocFast, LinkSegment
      <4> QED
        BY <1>1, <2>3, <4>1
    <3>2. CASE RawAlloc(u) \/ RawLink(u) \/ FreeManaged(u) \/ FreeFallback(u)
                 \/ CreateSegment(u) \/ CreateFails(u)
      BY <2>2, <2>3, <3>2
         DEF RawAlloc, RawLink, FreeManaged, FreeFallback, CreateSegment, CreateFails
    <3>3. CASE ReallocFast(u) \/ FindFallback(u)
      <4>1. Return(u) \/ (\E hp : req' = [req EXCEPT ![u].heap = hp])
              \/ (\E caps : req' = [req EXCEPT ![u].caps = caps])
        BY <3>3 DEF ReallocFast, FindFallback, Reallocated
      <4> QED
        BY <1>1, <2>2, <4>1
    <3>4. CASE GrowLink(u) \/ Release(u)
      BY <2>2, <3>4 DEF GrowLink, Release, Reallocated
    <3>5. CASE TrimLock(u) \/ TrimVisit(u) \/ TrimNextHeap(u) \/ TrimUnlock(u)
      BY <2>2, <3>5 DEF TrimLock, TrimVisit, TrimNextHeap, TrimUnlock
    <3> QED
      BY <2>5, <3>1, <3>2, <3>3, <3>4, <3>5 DEF Step
  <2> QED
    BY <2>4, <2>5
<1>4. held'[t] = held[t]
  <2>1. ASSUME NEW cs, held' = [held EXCEPT ![u] = cs] PROVE held'[t] = held[t]
    BY <1>1, <2>1
  <2>2. Call(u) => held' = held
    BY DEF Call, HeapAlloc, HeapFree, HeapRealloc, MallocTrim
  <2>3. Step(u) => held' = held \/ \E cs : held' = [held EXCEPT ![u] = cs]
    <3>1. TrimVisit(u) => held' = held \/ \E cs : held' = [held EXCEPT ![u] = cs]
      BY <1>1 DEF TrimVisit
    <3>2. Release(u) => \E cs : held' = [held EXCEPT ![u] = cs]
      BY <1>1 DEF Release
    <3> QED
      BY <3>1, <3>2 DEF Step, AllocFast, CreateSegment, CreateFails, LinkSegment, RawAlloc,
         RawLink, FreeManaged, FreeFallback, ReallocFast, GrowLink, FindFallback, TrimLock,
         TrimNextHeap, TrimUnlock
  <2> QED
    BY <2>1, <2>2, <2>3
<1>5. ASSUME NEW c \in held[t] PROVE seg'[c] = seg[c]
  <2>1. /\ c \in Cells /\ c \notin sys /\ c \notin held[u]
        /\ \A hp \in Heaps : c \notin Listed(heap[hp])
    BY <1>1, Placed, LinkedIsListed
  <2>2. ASSUME NEW d, NEW s, d # c, seg' = [seg EXCEPT ![d] = s] PROVE seg'[c] = seg[c]
    BY <1>1, <2>1, <2>2
  <2>3. CASE AllocFast(u) \/ FreeManaged(u) \/ ReallocFast(u)
    <3>1. CASE UNCHANGED seg
      BY <3>1
    <3>2. CASE \E hp \in Heaps : \E h : /\ HeapStep(heap[hp], seg, h, seg')
                                    /\ heap' = [heap EXCEPT ![hp] = h]
      BY <2>1, <3>2 DEF HeapStep, OnlyListed
    <3> QED
      BY <2>3, <3>1, <3>2, Works
  <2>4. CASE LinkSegment(u) \/ GrowLink(u)
    <3>a. PICK d \in held[u] : \E h : HeapStep(linkSegment(heap[req[u].heap], seg, d), seg, h, seg')
      BY <2>4, Links
    <3>1. PICK h : HeapStep(linkSegment(heap[req[u].heap], seg, d), seg, h, seg')
      BY <3>a
    <3>2. PICK hp \in Heaps : hp = req[u].heap
      BY <2>4, Links
    <3>3. Listed(linkSegment(heap[hp], seg, d)) = Listed(heap[hp]) \cup {d}
      BY <2>4, <3>1, <3>2, Links, HeldLinks
    <3> QED
      BY <2>1, <3>1, <3>2, <3>3 DEF HeapStep, OnlyListed
  <2>5. CASE CreateSegment(u)
    <3>1. \E d \in sys : \E s : seg' = [seg EXCEPT ![d] = s]
      BY <2>5 DEF CreateSegment
    <3> QED
      BY <2>1, <2>2, <3>1
  <2>6. CASE Release(u)
    <3>1. \E d \in held[u] : seg' = [seg EXCEPT ![d] = NoSegment]
      BY <2>6 DEF Release
    <3> QED
      BY <2>1, <2>2, <3>1
  <2> QED
    BY <2>3, <2>4, <2>5, <2>6 DEF Call, HeapAlloc, HeapFree, HeapRealloc, MallocTrim,
       Step, CreateFails, RawAlloc, RawLink, FreeFallback, FindFallback, TrimLock, TrimVisit,
       TrimNextHeap, TrimUnlock
<1> QED
  BY <1>2, <1>3, <1>4, <1>5

\* A step takes from the callers at most the pointer it was called for.
LEMMA Loses ==
    ASSUME IInv, NEW u \in Tasks, Call(u) \/ Step(u), NEW p \in DOMAIN live
    PROVE  p \in DOMAIN live' \/ p = req[u].ptr
<1>1. \A q, n : live' = With(live, q, n) => p \in DOMAIN live'
  BY DEF With
<1>2. \A n, q : live' = With(Without(req[u].ptr), q, n) => p \in DOMAIN live' \/ p = req[u].ptr
  BY DEF With, Without
<1>3. live' = Without(req[u].ptr) => p \in DOMAIN live' \/ p = req[u].ptr
  BY DEF Without
<1>4. CASE Call(u)
  BY <1>4 DEF Call, HeapAlloc, HeapFree, HeapRealloc, MallocTrim
<1>5. CASE AllocFast(u) \/ LinkSegment(u) \/ RawLink(u)
  BY <1>1, <1>5 DEF AllocFast, LinkSegment, RawLink, Deliver
<1>6. CASE FreeManaged(u) \/ FreeFallback(u)
  BY <1>3, <1>6 DEF FreeManaged, FreeFallback
<1>7. CASE ReallocFast(u) \/ GrowLink(u)
  BY <1>2, <1>7 DEF ReallocFast, GrowLink, Reallocated
<1> QED
  BY <1>4, <1>5, <1>6, <1>7 DEF Step, CreateSegment, CreateFails, RawAlloc, FindFallback,
     TrimLock, TrimVisit, TrimNextHeap, TrimUnlock, Release

\* A task works on the pointer it was called for until it returns.
LEMMA Claims ==
    ASSUME IInv, NEW u \in Tasks, Call(u) \/ Step(u)
    PROVE  req'[u].ptr \in {req[u].ptr, NoPtr, ForeignPtr} \cup Usable
<1>1. req \in [Tasks -> ReqType] /\ req[u] \in ReqType
  BY CallFacts
<1>2. Return(u) => req'[u].ptr = NoPtr
  BY <1>1 DEF Return, NoReq
<1>3. ASSUME NEW p, Deliver(u, p) PROVE req'[u].ptr \in {req[u].ptr, NoPtr}
  <2>1. Return(u) \/ req' = [req EXCEPT ![u].to = p]
    BY <1>3 DEF Deliver
  <2> QED
    BY <1>1, <1>2, <2>1 DEF ReqType
<1>4. ASSUME NEW hp, req' = [req EXCEPT ![u].heap = hp] PROVE req'[u].ptr = req[u].ptr
  BY <1>1, <1>4 DEF ReqType
<1>5. ASSUME NEW caps, req' = [req EXCEPT ![u].caps = caps] PROVE req'[u].ptr = req[u].ptr
  BY <1>1, <1>5 DEF ReqType
<1>6. CASE Call(u)
  <2>1. \/ \E n \in Sizes, caps \in RequestCaps : HeapAlloc(u, n, caps)
        \/ \E pad \in Pads : MallocTrim(u, pad)
        \/ \E p \in Usable \cup {ForeignPtr} : HeapFree(u, p) \/ \E n \in Sizes : HeapRealloc(u, p, n)
    BY <1>6 DEF Call
  <2>2. ASSUME NEW n \in Sizes, NEW caps, HeapAlloc(u, n, caps) PROVE req'[u].ptr = NoPtr
    BY <1>1, <2>2 DEF HeapAlloc, NoReq
  <2>3. ASSUME NEW pad, MallocTrim(u, pad) PROVE req'[u].ptr = NoPtr
    BY <1>1, <2>3 DEF MallocTrim, NoReq
  <2>4. ASSUME NEW p, HeapFree(u, p) PROVE req'[u].ptr = p
    BY <1>1, <2>4 DEF HeapFree, NoReq
  <2>5. ASSUME NEW p, NEW n, HeapRealloc(u, p, n) PROVE req'[u].ptr = p
    BY <1>1, <2>5 DEF HeapRealloc, NoReq
  <2> QED
    BY <2>1, <2>2, <2>3, <2>4, <2>5
<1>7. CASE AllocFast(u) \/ LinkSegment(u) \/ RawLink(u)
  <2>1. \/ \E p : Deliver(u, p)
        \/ UNCHANGED req
        \/ \E hp : req' = [req EXCEPT ![u].heap = hp]
    BY <1>7 DEF AllocFast, LinkSegment, RawLink
  <2> QED
    BY <1>3, <1>4, <2>1
<1>8. CASE ReallocFast(u) \/ FindFallback(u)
  <2>1. \/ Return(u) \/ \E hp : req' = [req EXCEPT ![u].heap = hp]
        \/ \E caps : req' = [req EXCEPT ![u].caps = caps]
    BY <1>8 DEF ReallocFast, FindFallback, Reallocated
  <2> QED
    BY <1>2, <1>4, <1>5, <2>1
<1>9. CASE /\ Step(u)
           /\ ~(AllocFast(u) \/ LinkSegment(u) \/ RawLink(u) \/ ReallocFast(u) \/ FindFallback(u))
  <2>1. Return(u) \/ UNCHANGED req
    BY <1>9 DEF Step, CreateSegment, CreateFails, RawAlloc, FreeManaged, FreeFallback, GrowLink,
       Reallocated, TrimLock, TrimVisit, TrimNextHeap, TrimUnlock, Release
  <2> QED
    BY <1>2, <2>1
<1> QED
  BY <1>6, <1>7, <1>8, <1>9

\* Nothing changes what the heaps accept.
LEMMA CapsStep ==
    ASSUME IInv, CapsFixed, [Next]_vars
    PROVE  CapsFixed'
<1>1. heap \in [Heaps -> AllocatorType]
  BY DEF IInv, TypeOK, MemoryType
<1>2. CASE UNCHANGED heap
  BY <1>2 DEF CapsFixed
<1>3. ASSUME NEW hp \in Heaps, NEW h, heap' = [heap EXCEPT ![hp] = h],
             h.requiredCaps = heap[hp].requiredCaps, h.forbiddenCaps = heap[hp].forbiddenCaps
      PROVE  CapsFixed'
  BY <1>1, <1>3 DEF CapsFixed
<1>4. ASSUME NEW u \in Tasks, AllocFast(u) \/ FreeManaged(u) \/ ReallocFast(u) PROVE CapsFixed'
  <2>1. CASE \E hp \in Heaps : \E h : /\ HeapStep(heap[hp], seg, h, seg')
                                  /\ heap' = [heap EXCEPT ![hp] = h]
    BY <1>3, <2>1 DEF HeapStep, SameList
  <2> QED
    BY <1>2, <1>4, <2>1, Works
<1>5. ASSUME NEW u \in Tasks, LinkSegment(u) \/ GrowLink(u) PROVE CapsFixed'
  <2>1. PICK hp \in Heaps : hp = req[u].heap
    BY <1>5, Links
  <2>a. PICK c \in held[u] :
          \E h : /\ HeapStep(linkSegment(heap[hp], seg, c), seg, h, seg')
                 /\ heap' = [heap EXCEPT ![hp] = h]
    BY <1>5, <2>1, Links
  <2>2. PICK h : /\ HeapStep(linkSegment(heap[hp], seg, c), seg, h, seg')
                 /\ heap' = [heap EXCEPT ![hp] = h]
    BY <2>a
  <2>3. /\ linkSegment(heap[hp], seg, c).requiredCaps = heap[hp].requiredCaps
        /\ linkSegment(heap[hp], seg, c).forbiddenCaps = heap[hp].forbiddenCaps
    BY <1>1 DEF linkSegment, AllocatorType
  <2> QED
    BY <1>3, <2>2, <2>3 DEF HeapStep, SameList
<1>6. ASSUME NEW u \in Tasks, TrimVisit(u) PROVE CapsFixed'
  <2>1. PICK g \in Heaps : \E c \in Linked(g) : VisitAt(u, g, c)
    BY <1>6, VisitIs
  <2>2. CASE /\ heap'[g] = unlinkSegment(heap[g], seg, scan.at)
             /\ \A f \in Heaps \ {g} : heap'[f] = heap[f]
    <3>1. /\ heap'[g].requiredCaps = heap[g].requiredCaps
          /\ heap'[g].forbiddenCaps = heap[g].forbiddenCaps
      BY <1>1, <2>2 DEF unlinkSegment, AllocatorType
    <3> QED
      BY <2>2, <3>1 DEF CapsFixed
  <2> QED
    BY <1>2, <2>1, <2>2 DEF VisitAt
<1> QED
  BY <1>2, <1>4, <1>5, <1>6
     DEF vars, Next, Call, HeapAlloc, HeapFree, HeapRealloc, MallocTrim, Step,
         CreateSegment, CreateFails, RawAlloc, RawLink, FreeFallback, FindFallback,
         TrimLock, TrimNextHeap, TrimUnlock, Release

\* No task takes up a pointer that another one works on.
LEMMA ClaimsStep ==
    ASSUME IInv, ClaimsApart, NEW u \in Tasks, Call(u) \/ Step(u)
    PROVE  ClaimsApart'
<1>1. \A t \in Tasks \ {u} : req'[t] = req[t]
  BY Others
<1>2. req'[u].ptr \in {req[u].ptr, NoPtr, ForeignPtr} \cup Usable
  BY Claims
<1>3. \A p \in Usable : \A t \in Tasks : p # req[t].ptr
  BY DEF Usable
<1> QED
  BY <1>1, <1>2, <1>3 DEF ClaimsApart

\* The block that a growth is to move stays live and in its heap.
LEMMA GrowingOther ==
    ASSUME IInv, Own, Scanned, ClaimsApart, NEW u \in Tasks, Call(u) \/ Step(u),
           NEW t \in Tasks \ {u}, GrowingAt(t)
    PROVE  GrowingAt(t)'
<1>1. pc'[t] = pc[t] /\ req'[t] = req[t]
  BY Others
<1>2. SUFFICES ASSUME pc[t] \in {"growCreate", "growLink"} PROVE GrowingAt(t)'
  BY <1>1 DEF GrowingAt
<1> DEFINE p == req[t].ptr
<1>3. PICK hp \in Heaps : hp = req[t].heap /\ p[1] \in Linked(hp) /\ p \in DOMAIN live
  BY <1>2 DEF GrowingAt
<1>4. p # req[u].ptr
  <2>1. p \in Cells \X Nat
    BY <1>3, CallFacts
  <2>2. p \notin {NoPtr, ForeignPtr}
    BY <2>1, NoCellAssumption, ForeignAssumption DEF NoPtr, ForeignPtr
  <2> QED
    BY <2>2 DEF ClaimsApart
<1>5. p \in DOMAIN live'
  BY <1>3, <1>4, Loses
<1>6. p[1] \in Linked(hp)'
  <2>1. p[1] \in Cells
    BY <1>3, HeapsWell
  <2> QED
    BY <1>3, <2>1, TrimTakes DEF Next
<1> QED
  BY <1>1, <1>3, <1>5, <1>6 DEF GrowingAt

\* What a task holds for its growth stays as it is while the others run.
LEMMA ReadyOther ==
    ASSUME IInv, NEW u \in Tasks, Call(u) \/ Step(u), NEW t \in Tasks \ {u}, ReadyAt(t)
    PROVE  ReadyAt(t)'
<1>1. /\ pc'[t] = pc[t] /\ req'[t] = req[t] /\ held'[t] = held[t]
      /\ \A c \in held[t] : seg'[c] = seg[c]
  BY Others
<1>2. \A c \in held[t] : \A caps : Serves(c, t, caps) => Serves(c, t, caps)'
  BY <1>1 DEF Serves, fits
<1> QED
  BY <1>1, <1>2 DEF ReadyAt

Apart == {"idle", "raw", "rawLink", "free", "freeFallback", "release",
          "trim", "scan", "trimRelease"}

\* At these places a task grows no heap.
LEMMA ApartFrom ==
    ASSUME NEW t, pc'[t] \in Apart
    PROVE  GrowingAt(t)' /\ ReadyAt(t)'
  BY DEF Apart, GrowingAt, ReadyAt

\* A call starts with a size that is not zero, whatever was asked for.
LEMMA CallGrowth ==
    ASSUME IInv, NEW u \in Tasks, Call(u)
    PROVE  GrowingAt(u)' /\ ReadyAt(u)'
<1>1. pc \in [Tasks -> PcLabels] /\ req \in [Tasks -> ReqType]
  BY CallFacts
<1>2. \/ \E n \in Sizes, caps \in RequestCaps : HeapAlloc(u, n, caps)
      \/ \E p \in Usable \cup {ForeignPtr} : HeapFree(u, p) \/ \E n \in Sizes : HeapRealloc(u, p, n)
      \/ \E pad \in Pads : MallocTrim(u, pad)
  BY DEF Call
<1>3. ASSUME NEW n \in Sizes, NEW caps, HeapAlloc(u, n, caps) PROVE GrowingAt(u)' /\ ReadyAt(u)'
  <2>1. pc'[u] = "alloc" /\ req'[u].size = (IF n = 0 THEN 1 ELSE n)
    BY <1>1, <1>3 DEF HeapAlloc, Goto, NoReq
  <2> QED
    BY <2>1 DEF GrowingAt, ReadyAt
<1>4. ASSUME NEW p, NEW n \in Sizes, HeapRealloc(u, p, n) PROVE GrowingAt(u)' /\ ReadyAt(u)'
  <2>1. pc'[u] = "realloc" /\ req'[u].size = n /\ n > 0 /\ n \in Nat
    BY <1>1, <1>4, ArgumentAssumption DEF HeapRealloc, Goto, NoReq
  <2> QED
    BY <2>1 DEF GrowingAt, ReadyAt
<1>5. (\E p : HeapFree(u, p)) \/ (\E pad : MallocTrim(u, pad)) => pc'[u] \in Apart
  BY <1>1 DEF HeapFree, MallocTrim, Goto, Apart
<1> QED
  BY <1>2, <1>3, <1>4, <1>5, ApartFrom

\* createSegment makes a segment that serves the request (HeapAllocator.h:179-204).
LEMMA CreateGrowth ==
    ASSUME IInv, CapsFixed, NEW u \in Tasks, GrowingAt(u), ReadyAt(u), CreateSegment(u)
    PROVE  GrowingAt(u)' /\ ReadyAt(u)'
<1>1. /\ pc[u] \in {"create", "growCreate"} /\ UNCHANGED <<heap, req, live>>
      /\ pc' = [pc EXCEPT ![u] = IF pc[u] = "create" THEN "link" ELSE "growLink"]
      /\ \E c \in sys, payload \in segmentPayloads(req[u].size) :
           /\ seg' = [seg EXCEPT ![c] = newSegment(payload, growthCaps(u))]
           /\ held' = [held EXCEPT ![u] = {c}]
  BY DEF CreateSegment, Goto
<1>2. PICK c \in sys, payload \in segmentPayloads(req[u].size) :
           /\ seg' = [seg EXCEPT ![c] = newSegment(payload, growthCaps(u))]
           /\ held' = [held EXCEPT ![u] = {c}]
  BY <1>1
<1>3. c \in Cells /\ DOMAIN seg = Cells
  BY DEF IInv, TypeOK, MemoryType
<1>4. /\ pc'[u] = (IF pc[u] = "create" THEN "link" ELSE "growLink")
      /\ held'[u] = {c} /\ seg'[c] = newSegment(payload, growthCaps(u))
      /\ req'[u] = req[u] /\ req[u].size \in Nat /\ req[u].size # 0
      /\ req[u].heap \in Heaps \cup {NoHeap} /\ req[u].heap # NoHeap
  BY <1>1, <1>2, <1>3, CallFacts DEF ReadyAt, HandsMatch
<1>5. fits(seg', c, alignUp(req[u].size)) # {} /\ seg'[c].caps = growthCaps(u)
  BY <1>4, FreshServes
<1>6. growthCaps(u) = IF pc[u] = "create" THEN req[u].caps ELSE requiredCaps(req[u].heap)
  BY <1>4 DEF growthCaps, CapsFixed
<1>7. Linked(req[u].heap)' = Linked(req[u].heap) /\ live' = live
  BY <1>1 DEF Linked
<1>8. GrowingAt(u)'
  BY <1>1, <1>4, <1>7 DEF GrowingAt
<1>9. ReadyAt(u)'
  <2>1. PICK caps : caps = growthCaps(u)
    OBVIOUS
  <2>2. Serves(c, u, caps)'
    BY <1>4, <1>5, <2>1 DEF Serves, fits
  <2>3. CASE pc[u] = "create"
    <3>1. caps = req'[u].caps /\ pc'[u] = "link"
      BY <1>4, <1>6, <2>1, <2>3
    <3> QED
      BY <1>4, <2>2, <3>1 DEF ReadyAt
  <2>4. CASE pc[u] = "growCreate"
    <3>1. caps = requiredCaps(req'[u].heap) /\ pc'[u] = "growLink"
      BY <1>4, <1>6, <2>1, <2>4
    <3> QED
      BY <1>4, <2>2, <3>1 DEF ReadyAt
  <2> QED
    BY <1>1, <2>3, <2>4
<1> QED
  BY <1>8, <1>9

\* heapRealloc grows the heap that owns the block it could not resize.
LEMMA ReallocGrowth ==
    ASSUME IInv, Own, NEW u \in Tasks, ReadyAt(u), ReallocFast(u)
    PROVE  GrowingAt(u)' /\ ReadyAt(u)'
<1> DEFINE p == req[u].ptr
           hp == owningManagedHeap(p)
           n == req[u].size
           q == reallocate(heap[hp], seg, p, n, heap[hp].requiredCaps)
           r == IF hp = NoHeap THEN [status |-> "NotOwned"] ELSE q
           l == IF r.status = "NeedsGrowth" THEN "growCreate" ELSE "find"
<1>0. /\ pc[u] = "realloc"
      /\ IF r.status = "Done"
         THEN Return(u)
         ELSE /\ Goto(u, l)
              /\ req' = [req EXCEPT ![u].heap = hp]
              /\ UNCHANGED <<heap, seg, live>>
  BY DEF ReallocFast, Reallocated
<1>1. pc \in [Tasks -> PcLabels] /\ req \in [Tasks -> ReqType] /\ p \in PtrType /\ n \in Nat
      /\ n # 0
  BY <1>0, CallFacts DEF ReadyAt
<1>2. CASE r.status = "Done"
  <2>1. pc'[u] = "idle"
    BY <1>0, <1>1, <1>2 DEF Return, Goto
  <2> QED
    BY <2>1, ApartFrom DEF Apart
<1>3. CASE r.status # "Done"
  <2>1. Goto(u, l) /\ req' = [req EXCEPT ![u].heap = hp] /\ UNCHANGED <<heap, seg, live>>
    BY <1>0, <1>3
  <2>2. l \in {"growCreate", "find"}
    OBVIOUS
  <2>3. l = "growCreate" => hp \in Heaps /\ p[1] \in Linked(hp) /\ p \in DOMAIN live
    <3> SUFFICES ASSUME l = "growCreate" PROVE hp \in Heaps /\ p[1] \in Linked(hp) /\ p \in DOMAIN live
      OBVIOUS
    <3>1. r.status = "NeedsGrowth"
      OBVIOUS
    <3>2. hp # NoHeap /\ q.status = "NeedsGrowth"
      BY <3>1
    <3>3. hp \in Heaps /\ owns(heap[hp], seg, p) /\ p[1] \in Linked(hp) /\ p \in Cells \X Nat
      BY <1>1, <3>2, OwnerIs
    <3>4. ~seg[p[1]].blk[p[2]].free
      BY <3>2, <3>3 DEF reallocate
    <3>5. p \in UsedAt(seg)
      BY <3>3, <3>4 DEF owns, UsedAt, Used
    <3> QED
      BY <3>3, <3>5 DEF Own, ExactUse
  <2> HIDE DEF l, r, q, hp
  <2>4. /\ pc'[u] = l /\ req'[u].heap = hp /\ req'[u].size = n /\ req'[u].ptr = p
    BY <1>1, <2>1 DEF Goto, ReqType
  <2>5. GrowingAt(u)'
    <3> SUFFICES ASSUME l = "growCreate"
                 PROVE  p \in DOMAIN live' /\ hp \in Heaps /\ \E g \in Heaps : g = hp /\ p[1] \in Linked(g)'
      BY <2>2, <2>4 DEF GrowingAt
    <3>1. \A g \in Heaps : Linked(g)' = Linked(g)
      BY <2>1 DEF Linked
    <3> QED
      BY <2>1, <2>3, <3>1
  <2>6. ReadyAt(u)'
    BY <1>1, <2>2, <2>4 DEF ReadyAt
  <2> QED
    BY <2>5, <2>6
<1> QED
  BY <1>2, <1>3

\* The other steps of a task keep what its growth needs, or leave it.
LEMMA StepGrowth ==
    ASSUME IInv, Own, CapsFixed, NEW u \in Tasks, GrowingAt(u), ReadyAt(u), Step(u)
    PROVE  GrowingAt(u)' /\ ReadyAt(u)'
<1>1. pc \in [Tasks -> PcLabels] /\ req \in [Tasks -> ReqType]
  BY CallFacts
<1>2. \A l : Goto(u, l) => pc'[u] = l
  BY <1>1 DEF Goto
<1>3. Return(u) => pc'[u] = "idle"
  BY <1>2 DEF Return
<1>4. \A p : Deliver(u, p) => pc'[u] \in {"idle", "free"}
  BY <1>2, <1>3 DEF Deliver
<1>5. CASE AllocFast(u)
  <2>1. \/ pc'[u] \in Apart
        \/ \E hp : Goto(u, "create") /\ req' = [req EXCEPT ![u].heap = hp]
    BY <1>2, <1>4, <1>5 DEF AllocFast, Apart
  <2>2. ASSUME NEW hp, Goto(u, "create"), req' = [req EXCEPT ![u].heap = hp]
        PROVE  GrowingAt(u)' /\ ReadyAt(u)'
    <3>1. pc'[u] = "create" /\ req'[u].size = req[u].size
      BY <1>1, <1>2, <2>2 DEF ReqType
    <3>2. pc[u] = "alloc"
      BY <1>5 DEF AllocFast
    <3> QED
      BY <3>1, <3>2 DEF GrowingAt, ReadyAt
  <2> QED
    BY <2>1, <2>2, ApartFrom
<1>6. CASE FindFallback(u)
  <2>1. \/ pc'[u] \in Apart
        \/ \E caps : Goto(u, "alloc") /\ req' = [req EXCEPT ![u].caps = caps]
    BY <1>2, <1>3, <1>6 DEF FindFallback, Apart
  <2>2. ASSUME NEW caps, Goto(u, "alloc"), req' = [req EXCEPT ![u].caps = caps]
        PROVE  GrowingAt(u)' /\ ReadyAt(u)'
    <3>1. pc'[u] = "alloc" /\ req'[u].size = req[u].size
      BY <1>1, <1>2, <2>2 DEF ReqType
    <3>2. pc[u] = "find"
      BY <1>6 DEF FindFallback
    <3> QED
      BY <3>1, <3>2 DEF GrowingAt, ReadyAt
  <2> QED
    BY <2>1, <2>2, ApartFrom
<1>7. CASE CreateSegment(u) \/ ReallocFast(u)
  BY <1>7, CreateGrowth, ReallocGrowth
<1>8. CASE CreateFails(u) \/ LinkSegment(u) \/ RawAlloc(u) \/ RawLink(u) \/ FreeManaged(u)
             \/ FreeFallback(u) \/ GrowLink(u)
  <2>1. pc'[u] \in Apart
    BY <1>2, <1>3, <1>4, <1>8 DEF CreateFails, LinkSegment, RawAlloc, RawLink, FreeManaged,
       FreeFallback, GrowLink, Reallocated, Apart
  <2> QED
    BY <2>1, ApartFrom
<1>9. CASE TrimLock(u) \/ TrimVisit(u) \/ TrimNextHeap(u) \/ TrimUnlock(u) \/ Release(u)
  <2>1. pc'[u] \in Apart
    BY <1>2, <1>3, <1>9 DEF TrimLock, TrimVisit, TrimNextHeap, TrimUnlock, Release, Apart
  <2> QED
    BY <2>1, ApartFrom
<1> QED
  BY <1>5, <1>6, <1>7, <1>8, <1>9 DEF Step

\* What the growths need is an invariant.
LEMMA GrowthInductive == Spec => [](IInv /\ Own /\ Scanned /\ Growth)
<1>1. Init => Growth
  BY DEF Init, Growth, CapsFixed, NewAllocator, ClaimsApart, NoReq, GrowingAt, ReadyAt
<1>2. IInv /\ Own /\ Scanned /\ Growth /\ [Next]_vars => Growth'
  <2> SUFFICES ASSUME IInv, Own, Scanned, Growth, [Next]_vars PROVE Growth'
    OBVIOUS
  <2>1. CapsFixed'
    BY CapsStep DEF Growth
  <2>2. CASE UNCHANGED vars
    <3>1. \A hp, c, t, caps : /\ Linked(hp)' = Linked(hp)
                              /\ Serves(c, t, caps)' = Serves(c, t, caps)
      BY <2>2 DEF vars, Linked, Serves, fits
    <3> QED
      BY <2>1, <2>2, <3>1 DEF Growth, vars, ClaimsApart, GrowingAt, ReadyAt
  <2>3. ASSUME NEW u \in Tasks, Call(u) \/ Step(u) PROVE Growth'
    <3>1. ClaimsApart'
      BY <2>3, ClaimsStep DEF Growth
    <3>2. ASSUME NEW t \in Tasks \ {u} PROVE GrowingAt(t)' /\ ReadyAt(t)'
      BY <2>3, GrowingOther, ReadyOther DEF Growth
    <3>3. GrowingAt(u)' /\ ReadyAt(u)'
      BY <2>3, CallGrowth, StepGrowth DEF Growth
    <3> QED
      BY <2>1, <3>1, <3>2, <3>3 DEF Growth
  <2> QED
    BY <2>2, <2>3 DEF Next
<1> QED
  BY <1>1, <1>2, ScannedInductive, PTL DEF Spec

\* A linked heap accepts what the heap did.
LEMMA LinkedCaps ==
    ASSUME IInv, NEW hp \in Heaps, NEW c
    PROVE  /\ linkSegment(heap[hp], seg, c).requiredCaps = heap[hp].requiredCaps
           /\ linkSegment(heap[hp], seg, c).forbiddenCaps = heap[hp].forbiddenCaps
<1>1. heap[hp] \in AllocatorType
  BY DEF IInv, TypeOK, MemoryType
<1> QED
  BY <1>1 DEF linkSegment, AllocatorType

\* heapRealloc's retry on the fresh segment is Done.
LEMMA GrowLinkServes ==
    ASSUME IInv, Own, CapsFixed, NEW t \in Tasks, GrowingAt(t), ReadyAt(t), GrowLink(t)
    PROVE  req[t].ptr \notin DOMAIN live' \/ live'[req[t].ptr] = req[t].size
<1> DEFINE hp == req[t].heap
           c == CHOOSE c \in held[t] : TRUE
           p == req[t].ptr
           n == req[t].size
           caps == heap[hp].requiredCaps
           linked == linkSegment(heap[hp], seg, c)
           r == reallocate(linked, seg, p, n, caps)
<1>0. /\ pc[t] = "growLink"
      /\ IF r.status = "Done" THEN Reallocated(t, r.ptr) ELSE Return(t) /\ UNCHANGED live
  BY DEF GrowLink
<1>1. c \in held[t] /\ n \in Nat \ {0}
  BY <1>0, CallFacts DEF HandsMatch, ReadyAt
<1>2. hp \in Heaps /\ p[1] \in Linked(hp) /\ p \in DOMAIN live
  BY <1>0 DEF GrowingAt
<1>3. Well(linked, seg) /\ Listed(linked) = Listed(heap[hp]) \cup {c}
  BY <1>0, <1>1, <1>2, HeldLinks
<1>4. p \in UsedAt(seg) /\ p[1] \in Listed(linked)
  <2>1. p \in UsedAt(seg) \/ p \in Fallbacks
    BY <1>2 DEF Own, ExactUse
  <2>2. p[1] \notin DOMAIN fallback
    BY <1>2, Placed
  <2>3. p \notin Fallbacks
    BY <2>2 DEF Fallbacks, FallbackPtr
  <2> QED
    BY <1>2, <1>3, <2>1, <2>3, LinkedIsListed
<1>5. caps = requiredCaps(hp) /\ isEligibleCaps(linked, caps)
  <2>1. caps = requiredCaps(hp) /\ heap[hp].forbiddenCaps = forbiddenCaps(hp)
    BY <1>2 DEF CapsFixed
  <2>2. linked.requiredCaps = caps /\ linked.forbiddenCaps = forbiddenCaps(hp)
    BY <1>2, <2>1, LinkedCaps
  <2>3. requiredCaps(hp) \cap forbiddenCaps(hp) = {}
    BY DEF requiredCaps, forbiddenCaps
  <2> HIDE DEF linked, caps
  <2> QED
    BY <2>1, <2>2, <2>3 DEF isEligibleCaps
<1>6. fits(seg, c, alignUp(n)) # {} /\ caps \subseteq seg[c].caps /\ c \in Listed(linked)
  BY <1>0, <1>1, <1>3, <1>5 DEF ReadyAt, Serves
<1> HIDE DEF linked, caps, n, p, c
<1>7. r.status = "Done"
  BY <1>1, <1>3, <1>4, <1>5, <1>6, ReallocateServes
<1> HIDE DEF r
<1>8. live' = With(Without(p), r.ptr, n)
  BY <1>0, <1>7 DEF Reallocated, p, n
<1>9. p \notin DOMAIN live' \/ live'[p] = n
  BY <1>8 DEF With, Without
<1> QED
  BY <1>9 DEF p, n

\* heapAlloc's retry on the fresh segment returns a block.
LEMMA LinkServes ==
    ASSUME IInv, NEW t \in Tasks, ReadyAt(t), LinkSegment(t),
           isEligibleCaps(heap[req[t].heap], req[t].caps)
    PROVE  pc'[t] # "raw"
<1> DEFINE hp == req[t].heap
           c == CHOOSE c \in held[t] : TRUE
           n == req[t].size
           caps == req[t].caps
           linked == linkSegment(heap[hp], seg, c)
           r == allocate(linked, seg, n, caps)
<1>0. /\ pc[t] = "link"
      /\ IF r.ptr # NoPtr THEN Deliver(t, r.ptr) ELSE Goto(t, "raw") /\ UNCHANGED <<req, live>>
  BY DEF LinkSegment
<1>1. c \in held[t] /\ n \in Nat \ {0} /\ hp \in Heaps
  BY <1>0, CallFacts DEF HandsMatch, ReadyAt
<1>2. Well(linked, seg) /\ Listed(linked) = Listed(heap[hp]) \cup {c}
  BY <1>0, <1>1, HeldLinks
<1>3. isEligibleCaps(linked, caps)
  BY <1>1, LinkedCaps DEF isEligibleCaps
<1>4. fits(seg, c, alignUp(n)) # {} /\ caps \subseteq seg[c].caps /\ c \in Listed(linked)
  BY <1>0, <1>1, <1>2 DEF ReadyAt, Serves
<1> HIDE DEF linked, caps, n, c
<1>5. r.ptr # NoPtr
  BY <1>1, <1>2, <1>3, <1>4, AllocateServes
<1>6. r.ptr \in Cells \X Nat
  BY <1>1, <1>2, <1>5, AllocateStep
<1> HIDE DEF r
<1>7. pc'[t] \in {"idle", "free"}
  BY <1>0, <1>5, <1>6, Delivers
<1> QED
  BY <1>7

\* "Growth paths then succeed" (HeapAllocator.h:102): whatever the other tasks
\* free, trim and link between the unlocked createSegment and the critical
\* section that links its segment, the request it was created for is served.
THEOREM GrowthAlwaysServes == Spec => GrowthServes
<1> DEFINE Served == \A t \in Tasks :
             /\ pc[t] = "growLink" /\ pc'[t] # pc[t] =>
                  req[t].ptr \notin DOMAIN live' \/ live'[req[t].ptr] = req[t].size
             /\ pc[t] = "link" /\ isEligibleCaps(heap[req[t].heap], req[t].caps) => pc'[t] # "raw"
<1>1. ASSUME IInv, Own, Growth, [Next]_vars, NEW t \in Tasks,
             pc[t] \in {"link", "growLink"}, pc'[t] # pc[t]
      PROVE  LinkSegment(t) \/ GrowLink(t)
  <2>1. PICK u \in Tasks : Call(u) \/ Step(u)
    BY <1>1 DEF Next, vars
  <2>2. u = t
    BY <1>1, <2>1, Others
  <2>3. ~Call(t)
    BY <1>1 DEF Call, HeapAlloc, HeapFree, HeapRealloc, MallocTrim
  <2> QED
    BY <1>1, <2>1, <2>2, <2>3 DEF Step, AllocFast, CreateSegment, CreateFails, RawAlloc, RawLink,
       FreeManaged, FreeFallback, ReallocFast, FindFallback, TrimLock, TrimVisit, TrimNextHeap,
       TrimUnlock, Release
<1>2. ASSUME IInv, Own, Growth, [Next]_vars PROVE Served
  <2> SUFFICES ASSUME NEW t \in Tasks
      PROVE  /\ pc[t] = "growLink" /\ pc'[t] # pc[t] =>
                  req[t].ptr \notin DOMAIN live' \/ live'[req[t].ptr] = req[t].size
             /\ pc[t] = "link" /\ isEligibleCaps(heap[req[t].heap], req[t].caps) => pc'[t] # "raw"
    OBVIOUS
  <2>1. ASSUME pc[t] = "growLink", pc'[t] # pc[t]
        PROVE  req[t].ptr \notin DOMAIN live' \/ live'[req[t].ptr] = req[t].size
    <3>1. GrowLink(t)
      BY <1>1, <1>2, <2>1 DEF LinkSegment
    <3> QED
      BY <1>2, <3>1, GrowLinkServes DEF Growth
  <2>2. ASSUME pc[t] = "link", isEligibleCaps(heap[req[t].heap], req[t].caps), pc'[t] = "raw"
        PROVE  FALSE
    <3>1. LinkSegment(t)
      BY <1>1, <1>2, <2>2 DEF GrowLink
    <3> QED
      BY <1>2, <2>2, <3>1, LinkServes DEF Growth
  <2> QED
    BY <2>1, <2>2
<1>3. IInv /\ Own /\ Growth /\ [Next]_vars => [Served]_vars
  BY <1>2
<1> QED
  BY <1>3, GrowthInductive, PTL DEF Spec, GrowthServes

-----------------------------------------------------------------------------
(* Alignment, and what the search relies on it for.                        *)

\* Every step keeps the blocks of all cells aligned.
LEMMA AlignedStep ==
    ASSUME IInv, AlignedAll(seg), [Next]_vars
    PROVE  AlignedAll(seg')
<1>1. CASE UNCHANGED seg
  BY <1>1
<1>2. ASSUME NEW t \in Tasks, Call(t) PROVE UNCHANGED seg
  BY <1>2 DEF Call, HeapAlloc, HeapFree, HeapRealloc, MallocTrim
<1>3. ASSUME NEW t \in Tasks, AllocFast(t) PROVE AlignedAll(seg')
  <2> DEFINE hp == managedHeapForCaps(req[t].caps)
             r == allocate(heap[hp], seg, req[t].size, req[t].caps)
  <2>1. \/ UNCHANGED seg
        \/ hp # NoHeap /\ seg' = r.seg
    BY <1>3 DEF AllocFast, SetHeap
  <2>2. ASSUME hp # NoHeap PROVE AlignedAll(r.seg)
    <3>1. hp \in Heaps
      BY <2>2 DEF managedHeapForCaps, Heaps
    <3> QED
      BY <3>1, CallFacts, HeapsWell, AllocateAligned
  <2> HIDE DEF r, hp
  <2> QED
    BY <2>1, <2>2
<1>4. ASSUME NEW t \in Tasks, FreeManaged(t) PROVE AlignedAll(seg')
  <2> DEFINE p == req[t].ptr
             hp == owningManagedHeap(p)
             r == deallocate(heap[hp], seg, p)
  <2>1. \/ UNCHANGED seg
        \/ hp # NoHeap /\ seg' = r.seg
    BY <1>4 DEF FreeManaged, SetHeap
  <2>2. ASSUME hp # NoHeap PROVE AlignedAll(r.seg)
    <3>1. hp \in Heaps
      BY <2>2 DEF owningManagedHeap, Heaps
    <3> QED
      BY <3>1, HeapsWell, DeallocateAligned
  <2> HIDE DEF r, hp
  <2> QED
    BY <2>1, <2>2
<1>5. ASSUME NEW t \in Tasks, ReallocFast(t) PROVE AlignedAll(seg')
  <2> DEFINE p == req[t].ptr
             hp == owningManagedHeap(p)
             r == reallocate(heap[hp], seg, p, req[t].size, heap[hp].requiredCaps)
             q == IF hp = NoHeap THEN [status |-> "NotOwned"] ELSE r
  <2>1. IF q.status = "Done" THEN SetHeap(hp, q) ELSE UNCHANGED seg
    BY <1>5 DEF ReallocFast
  <2>2. ASSUME hp # NoHeap PROVE AlignedAll(r.seg)
    <3>1. hp \in Heaps
      BY <2>2 DEF owningManagedHeap, Heaps
    <3> HIDE DEF hp, p
    <3> QED
      BY <3>1, CallFacts, HeapsWell, ReallocateAligned
  <2>3. hp = NoHeap => q.status # "Done"
    OBVIOUS
  <2>4. hp # NoHeap => q = r
    OBVIOUS
  <2> HIDE DEF r, hp, q
  <2> QED
    BY <2>1, <2>2, <2>3, <2>4 DEF SetHeap
<1>6. ASSUME NEW t \in Tasks, LinkSegment(t) PROVE AlignedAll(seg')
  <2> DEFINE hp == req[t].heap
             c == CHOOSE c \in held[t] : TRUE
             linked == linkSegment(heap[hp], seg, c)
             r == allocate(linked, seg, req[t].size, req[t].caps)
  <2>1. pc[t] = "link" /\ seg' = r.seg
    BY <1>6 DEF LinkSegment, SetHeap
  <2>2. c \in held[t] /\ req[t].size \in Nat
    BY <2>1, CallFacts DEF HandsMatch
  <2>3. Well(linked, seg)
    BY <2>1, <2>2, LinkedWell
  <2> HIDE DEF linked, c
  <2> QED
    BY <2>1, <2>2, <2>3, AllocateAligned
<1>7. ASSUME NEW t \in Tasks, GrowLink(t) PROVE AlignedAll(seg')
  <2> DEFINE hp == req[t].heap
             c == CHOOSE c \in held[t] : TRUE
             linked == linkSegment(heap[hp], seg, c)
             r == reallocate(linked, seg, req[t].ptr, req[t].size, heap[hp].requiredCaps)
  <2>1. pc[t] = "growLink" /\ seg' = r.seg
    BY <1>7 DEF GrowLink, SetHeap
  <2>2. c \in held[t] /\ req[t].size \in Nat
    BY <2>1, CallFacts DEF HandsMatch
  <2>3. Well(linked, seg)
    BY <2>1, <2>2, LinkedWell
  <2> HIDE DEF linked, c
  <2> QED
    BY <2>1, <2>2, <2>3, ReallocateAligned
<1>8. ASSUME NEW t \in Tasks, CreateSegment(t) PROVE AlignedAll(seg')
  <2>1. PICK c \in sys, payload \in segmentPayloads(req[t].size) :
           seg' = [seg EXCEPT ![c] = newSegment(payload, growthCaps(t))]
    BY <1>8 DEF CreateSegment
  <2>2. AlignedBlocks(newSegment(payload, growthCaps(t)).blk)
    BY <2>1, CallFacts, FreshAligned
  <2>3. DOMAIN seg = Cells /\ c \in Cells
    BY Placed DEF IInv, TypeOK, MemoryType
  <2> DEFINE s == newSegment(payload, growthCaps(t))
  <2> HIDE DEF s
  <2>4. seg' = [seg EXCEPT ![c] = s] /\ AlignedBlocks(s.blk)
    BY <2>1, <2>2 DEF s
  <2>5. \A d \in Cells : seg'[d] = IF d = c THEN s ELSE seg[d]
    BY <2>3, <2>4
  <2> QED
    BY <2>4, <2>5 DEF AlignedAll
<1>9. ASSUME NEW t \in Tasks, Release(t) PROVE AlignedAll(seg')
  <2>1. PICK c \in held[t] : seg' = [seg EXCEPT ![c] = NoSegment]
    BY <1>9 DEF Release
  <2>2. DOMAIN seg = Cells /\ c \in Cells
    BY Placed DEF IInv, TypeOK, MemoryType
  <2>3. \A d \in Cells : seg'[d] = IF d = c THEN NoSegment ELSE seg[d]
    BY <2>1, <2>2
  <2>4. AlignedBlocks(NoSegment.blk)
    BY DEF AlignedBlocks, NoSegment
  <2> QED
    BY <2>3, <2>4 DEF AlignedAll
<1> QED
  BY <1>1, <1>2, <1>3, <1>4, <1>5, <1>6, <1>7, <1>8, <1>9
     DEF Next, vars, Step, CreateFails, RawAlloc, RawLink, FreeFallback, FindFallback,
         TrimLock, TrimVisit, TrimNextHeap, TrimUnlock

\* The alignment of all blocks is an invariant, with what the growths need.
LEMMA AlignedInductive == Spec => [](IInv /\ Own /\ Scanned /\ Growth /\ AlignedAll(seg))
<1>1. Init => AlignedAll(seg)
  BY DEF Init, AlignedAll, AlignedBlocks, NoSegment
<1>2. IInv /\ AlignedAll(seg) /\ [Next]_vars => AlignedAll(seg)'
  BY AlignedStep
<1> QED
  BY <1>1, <1>2, GrowthInductive, PTL DEF Spec

\* "Allocations are aligned" through every split, merge, resize and growth: each
\* block begins and ends where any type may (HeapAllocator.h:82, 123, 199, 209).
THEOREM AllBlocksAligned == Spec => []BlocksAligned
<1>1. AlignedAll(seg) => BlocksAligned
  BY DEF AlignedAll, AlignedBlocks, Aligned, BlocksAligned, Blocks
<1> QED
  BY <1>1, AlignedInductive, PTL

\* A task whose program counter moves from "alloc" was in allocate.
LEMMA LeavesAlloc ==
    ASSUME IInv, [Next]_vars, NEW t \in Tasks, pc[t] = "alloc", pc'[t] # pc[t]
    PROVE  AllocFast(t)
<1>1. PICK u \in Tasks : Call(u) \/ Step(u)
  BY DEF Next, vars
<1>2. u = t
  BY <1>1, Others
<1>3. ~Call(t)
  BY DEF Call, HeapAlloc, HeapFree, HeapRealloc, MallocTrim
<1> QED
  BY <1>1, <1>2, <1>3 DEF Step, CreateSegment, CreateFails, LinkSegment, RawAlloc, RawLink,
     FreeManaged, FreeFallback, ReallocFast, GrowLink, FindFallback, TrimLock, TrimVisit,
     TrimNextHeap, TrimUnlock, Release

\* allocate fails only when no free block of the requested kind is large enough.
LEMMA FastSearch ==
    ASSUME IInv, AlignedAll(seg), NEW t \in Tasks, ReadyAt(t), AllocFast(t), pc'[t] = "create",
           isEligibleCaps(heap[managedHeapForCaps(req[t].caps)], req[t].caps),
           NEW c \in Linked(managedHeapForCaps(req[t].caps)), NEW o \in Blocks(c),
           seg[c].blk[o].free, req[t].caps \subseteq seg[c].caps
    PROVE  seg[c].blk[o].size < req[t].size
<1> DEFINE hp == managedHeapForCaps(req[t].caps)
           n == req[t].size
           caps == req[t].caps
           r == allocate(heap[hp], seg, n, caps)
<1>1. /\ pc[t] = "alloc"
      /\ IF hp = NoHeap THEN Goto(t, "raw")
         ELSE IF r.ptr # NoPtr THEN Deliver(t, r.ptr) ELSE Goto(t, "create")
  BY DEF AllocFast
<1>2. n \in Nat \ {0}
  BY <1>1, CallFacts DEF ReadyAt
<1>3. hp # NoHeap /\ hp \in Heaps
  <2>1. Goto(t, "raw") => pc'[t] = "raw"
    BY Goes DEF PcLabels
  <2>2. hp # NoHeap
    BY <1>1, <2>1
  <2> QED
    BY <2>2 DEF managedHeapForCaps, Heaps
<1>4. Well(heap[hp], seg) /\ c \in Listed(heap[hp]) /\ c \in Cells
  BY <1>3, HeapsWell, LinkedIsListed
<1>5. r.ptr = NoPtr
  <2>1. SUFFICES ASSUME r.ptr # NoPtr PROVE FALSE
    OBVIOUS
  <2>2. r.ptr \in Cells \X Nat
    BY <1>2, <1>4, <2>1, AllocateStep
  <2>3. Deliver(t, r.ptr)
    BY <1>1, <1>3, <2>1
  <2> HIDE DEF r
  <2>4. pc'[t] \in {"idle", "free"}
    BY <1>1, <2>1, <2>2, <2>3, Delivers
  <2> QED
    BY <2>4
<1>6. /\ seg[c].blk[o].size \in Nat
      /\ Aligned(seg[c].blk[o].size) /\ o \in DOMAIN seg[c].blk
  BY <1>4 DEF AlignedAll, AlignedBlocks, Aligned, Blocks
<1>7. SUFFICES ASSUME n <= seg[c].blk[o].size PROVE FALSE
  BY <1>2, <1>6
<1>8. alignUp(n) <= seg[c].blk[o].size
  BY <1>2, <1>6, <1>7, AlignedSizes
<1>9. o \in fits(seg, c, alignUp(n))
  <2>1. alignUp(n) \in Nat
    BY <1>2, AlignUpBound
  <2> QED
    BY <1>6, <1>8, <2>1 DEF fits
<1> HIDE DEF n, caps
<1>10. r.ptr # NoPtr
  BY <1>2, <1>4, <1>9, AllocateServes DEF caps
<1> QED
  BY <1>5, <1>10

\* The roving search misses no free block, wherever the hint stands, and the
\* rounding of the size loses none: a heap grows only when it has to.
THEOREM SearchIsComplete == Spec => SearchComplete
<1> DEFINE Missed(t) ==
             LET hp == managedHeapForCaps(req[t].caps)
             IN  pc[t] = "alloc" /\ pc'[t] = "create" /\ isEligibleCaps(heap[hp], req[t].caps) =>
                   \A c \in Linked(hp) : \A o \in Blocks(c) :
                       seg[c].blk[o].free /\ req[t].caps \subseteq seg[c].caps
                          => seg[c].blk[o].size < req[t].size
<1>1. IInv /\ Own /\ Scanned /\ Growth /\ AlignedAll(seg) /\ [Next]_vars
         => [\A t \in Tasks : Missed(t)]_vars
  BY LeavesAlloc, FastSearch DEF Growth
<1> QED
  BY <1>1, AlignedInductive, PTL DEF Spec, SearchComplete

-----------------------------------------------------------------------------
(* What the counters say.                                                  *)

\* The segment a task is about to link is one free block.
BareAt(t) == pc[t] \in {"link", "growLink"} => \A c \in held[t] : Bare(seg[c].blk)

HeapsExact == \A hp \in Heaps : Exact(heap[hp], seg)

FallbackExact ==
    /\ IsFiniteSet(DOMAIN fallback)
    /\ fallbackBlocks = Cardinality(DOMAIN fallback)
    /\ fallbackBytes = SumOf(fallbackSizes, DOMAIN fallback)

Counted == HeapsExact /\ FallbackExact /\ \A t \in Tasks : BareAt(t)

\* The counters see nothing but the listed segments.
LEMMA ExactElsewhere ==
    ASSUME NEW h, NEW s, Well(h, s), Exact(h, s), NEW new,
           \A c \in Listed(h) : new[c] = s[c]
    PROVE  Exact(h, new)
<1>1. Sums(h, new)
  BY SumsElsewhere DEF Exact
<1>2. ListedUse(h, new) = ListedUse(h, s)
  BY DEF ListedUse, UsedAt
<1> QED
  BY <1>1, <1>2, CountsSame DEF Exact

\* A critical section counts one heap right; the other sees none of it.
LEMMA OneHeapExact ==
    ASSUME IInv, HeapsExact, NEW hp \in Heaps, NEW h, Exact(h, seg'),
           heap' = [heap EXCEPT ![hp] = h],
           \A g \in Heaps \ {hp} : \A c \in Linked(g) : seg'[c] = seg[c]
    PROVE  HeapsExact'
<1>1. heap \in [Heaps -> AllocatorType]
  BY DEF IInv, TypeOK, MemoryType
<1>2. heap'[hp] = h /\ \A g \in Heaps \ {hp} : heap'[g] = heap[g]
  BY <1>1
<1>3. ASSUME NEW g \in Heaps \ {hp} PROVE Exact(heap[g], seg')
  <2>1. Well(heap[g], seg) /\ Exact(heap[g], seg) /\ \A c \in Listed(heap[g]) : seg'[c] = seg[c]
    BY HeapsWell, LinkedIsListed DEF HeapsExact
  <2> QED
    BY <2>1, ExactElsewhere
<1> QED
  BY <1>2, <1>3 DEF HeapsExact

\* A step that leaves the lists and what they list alone keeps the counters.
LEMMA OutsideExact ==
    ASSUME IInv, HeapsExact, heap' = heap, \A g \in Heaps : \A c \in Linked(g) : seg'[c] = seg[c]
    PROVE  HeapsExact'
<1>1. ASSUME NEW g \in Heaps PROVE Exact(heap[g], seg')
  <2>1. Well(heap[g], seg) /\ Exact(heap[g], seg) /\ \A c \in Listed(heap[g]) : seg'[c] = seg[c]
    BY HeapsWell, LinkedIsListed DEF HeapsExact
  <2> QED
    BY <2>1, ExactElsewhere
<1> QED
  BY <1>1 DEF HeapsExact

\* A heap that works on its own segments keeps the counters of both.
LEMMA WorkExact ==
    ASSUME IInv, HeapsExact, NEW hp \in Heaps, NEW h,
           HeapStep(heap[hp], seg, h, seg'), Exact(h, seg'), heap' = [heap EXCEPT ![hp] = h]
    PROVE  HeapsExact'
<1>1. \A g \in Heaps \ {hp} : \A c \in Linked(g) : c \in Cells /\ c \notin Linked(hp)
  BY Placed
<1>2. \A g \in Heaps \ {hp} : \A c \in Linked(g) : seg'[c] = seg[c]
  BY <1>1, LinkedIsListed DEF HeapStep, OnlyListed
<1> QED
  BY <1>2, OneHeapExact

\* heapAlloc's fast path keeps the counters (ProtoGC.h:370-373).
LEMMA AllocFastExact ==
    ASSUME IInv, HeapsExact, NEW t \in Tasks, AllocFast(t)
    PROVE  HeapsExact'
<1> DEFINE hp == managedHeapForCaps(req[t].caps)
           r == allocate(heap[hp], seg, req[t].size, req[t].caps)
<1>1. IF hp = NoHeap THEN UNCHANGED <<heap, seg>>
      ELSE IF r.ptr # NoPtr THEN SetHeap(hp, r) ELSE UNCHANGED <<heap, seg>>
  BY DEF AllocFast
<1>2. ASSUME hp # NoHeap
      PROVE  hp \in Heaps /\ HeapStep(heap[hp], seg, r.h, r.seg) /\ Exact(r.h, r.seg)
  <2>1. hp \in Heaps
    BY <1>2 DEF managedHeapForCaps, Heaps
  <2>2. Well(heap[hp], seg) /\ Exact(heap[hp], seg) /\ req[t].size \in Nat
    BY <2>1, CallFacts, HeapsWell DEF HeapsExact
  <2> HIDE DEF hp
  <2> QED
    BY <2>1, <2>2, AllocateStep, AllocateExact
<1> HIDE DEF hp, r
<1>3. CASE UNCHANGED <<heap, seg>>
  BY <1>3, OutsideExact
<1>4. CASE hp # NoHeap /\ SetHeap(hp, r)
  BY <1>2, <1>4, WorkExact DEF SetHeap
<1> QED
  BY <1>1, <1>3, <1>4

\* heapFree keeps the counters of the heap that owned the block (ProtoGC.h:996-1003).
LEMMA FreeManagedExact ==
    ASSUME IInv, HeapsExact, NEW t \in Tasks, FreeManaged(t)
    PROVE  HeapsExact'
<1> DEFINE p == req[t].ptr
           hp == owningManagedHeap(p)
           r == deallocate(heap[hp], seg, p)
<1>1. IF hp # NoHeap /\ r.ok THEN SetHeap(hp, r) ELSE UNCHANGED <<heap, seg>>
  BY DEF FreeManaged
<1>2. ASSUME hp # NoHeap
      PROVE  hp \in Heaps /\ HeapStep(heap[hp], seg, r.h, r.seg) /\ Exact(r.h, r.seg)
  <2>1. hp \in Heaps /\ p \in Cells \X Nat
    BY <1>2, CallFacts, OwnerIs
  <2>2. Well(heap[hp], seg) /\ Exact(heap[hp], seg)
    BY <2>1, HeapsWell DEF HeapsExact
  <2> HIDE DEF hp, p
  <2> QED
    BY <2>1, <2>2, DeallocateStep, DeallocateExact
<1> HIDE DEF hp, r
<1>3. CASE UNCHANGED <<heap, seg>>
  BY <1>3, OutsideExact
<1>4. CASE hp # NoHeap /\ SetHeap(hp, r)
  BY <1>2, <1>4, WorkExact DEF SetHeap
<1> QED
  BY <1>1, <1>3, <1>4

\* heapRealloc in the heap that owns the block keeps the counters (ProtoGC.h:442-448).
LEMMA ReallocFastExact ==
    ASSUME IInv, HeapsExact, NEW t \in Tasks, ReallocFast(t)
    PROVE  HeapsExact'
<1> DEFINE p == req[t].ptr
           hp == owningManagedHeap(p)
           q == reallocate(heap[hp], seg, p, req[t].size, heap[hp].requiredCaps)
           r == IF hp = NoHeap THEN [status |-> "NotOwned"] ELSE q
<1>1. IF r.status = "Done" THEN SetHeap(hp, r) ELSE UNCHANGED <<heap, seg>>
  BY DEF ReallocFast
<1>2. ASSUME hp # NoHeap
      PROVE  hp \in Heaps /\ HeapStep(heap[hp], seg, q.h, q.seg) /\ Exact(q.h, q.seg)
  <2>1. hp \in Heaps /\ p \in Cells \X Nat
    BY <1>2, CallFacts, OwnerIs
  <2>2. Well(heap[hp], seg) /\ Exact(heap[hp], seg) /\ req[t].size \in Nat
    BY <2>1, CallFacts, HeapsWell DEF HeapsExact
  <2> HIDE DEF hp, p
  <2> QED
    BY <2>1, <2>2, ReallocateStep, ReallocateExact
<1>3. hp = NoHeap => r.status # "Done"
  OBVIOUS
<1>4. hp # NoHeap => r = q
  OBVIOUS
<1> HIDE DEF hp, q, r
<1>5. CASE UNCHANGED <<heap, seg>>
  BY <1>5, OutsideExact
<1>6. CASE hp # NoHeap /\ SetHeap(hp, q)
  BY <1>2, <1>6, WorkExact DEF SetHeap
<1> QED
  BY <1>1, <1>3, <1>4, <1>5, <1>6

\* Linking a fresh segment keeps the counters, and so does working on it.
LEMMA LinkedExact ==
    ASSUME IInv, HeapsExact, NEW t \in Tasks, pc[t] \in {"link", "growLink"}, BareAt(t),
           NEW c \in held[t], NEW hp \in Heaps, hp = req[t].heap
    PROVE  Exact(linkSegment(heap[hp], seg, c), seg)
<1>1. c \in Cells /\ seg[c] # NoSegment /\ c \notin Listed(heap[hp])
  BY CallFacts, Placed, LinkedIsListed DEF HandsMatch
<1>2. SoundSegment(seg[c]) /\ Bare(seg[c].blk)
  BY <1>1 DEF IInv, BlocksTile, SoundSegment, BareAt
<1>3. Well(heap[hp], seg) /\ Exact(heap[hp], seg)
  BY HeapsWell DEF HeapsExact
<1> QED
  BY <1>1, <1>2, <1>3, LinkExact

\* The other heap sees nothing of a growth.
LEMMA GrownExact ==
    ASSUME IInv, HeapsExact, NEW t \in Tasks, NEW c \in held[t], NEW hp \in Heaps,
           pc[t] \in {"link", "growLink"}, NEW h,
           HeapStep(linkSegment(heap[hp], seg, c), seg, h, seg'), Exact(h, seg'),
           heap' = [heap EXCEPT ![hp] = h]
    PROVE  HeapsExact'
<1>1. Listed(linkSegment(heap[hp], seg, c)) = Listed(heap[hp]) \cup {c}
  BY HeldLinks
<1>2. \A g \in Heaps \ {hp} : \A d \in Linked(g) :
         d \in Cells /\ d \notin Listed(heap[hp]) /\ d # c
  BY Placed, LinkedIsListed
<1>3. \A g \in Heaps \ {hp} : \A d \in Linked(g) : seg'[d] = seg[d]
  BY <1>1, <1>2 DEF HeapStep, OnlyListed
<1> QED
  BY <1>3, OneHeapExact

\* heapAlloc after a growth keeps the counters (ProtoGC.h:383-386).
LEMMA LinkSegmentExact ==
    ASSUME IInv, HeapsExact, NEW t \in Tasks, BareAt(t), LinkSegment(t)
    PROVE  HeapsExact'
<1> DEFINE hp == req[t].heap
           c == CHOOSE c \in held[t] : TRUE
           linked == linkSegment(heap[hp], seg, c)
           r == allocate(linked, seg, req[t].size, req[t].caps)
<1>1. pc[t] = "link" /\ heap' = [heap EXCEPT ![hp] = r.h] /\ seg' = r.seg
  BY DEF LinkSegment, SetHeap
<1>2. c \in held[t] /\ hp \in Heaps /\ req[t].size \in Nat
  BY <1>1, CallFacts DEF HandsMatch
<1>3. Well(linked, seg) /\ Exact(linked, seg)
  BY <1>1, <1>2, LinkedWell, LinkedExact
<1> HIDE DEF linked
<1>4. HeapStep(linked, seg, r.h, r.seg) /\ Exact(r.h, r.seg)
  BY <1>2, <1>3, AllocateStep, AllocateExact
<1> HIDE DEF r, c, hp
<1> QED
  BY <1>1, <1>2, <1>4, GrownExact DEF linked

\* So does heapRealloc (ProtoGC.h:456-460).
LEMMA GrowLinkExact ==
    ASSUME IInv, HeapsExact, NEW t \in Tasks, BareAt(t), GrowLink(t)
    PROVE  HeapsExact'
<1> DEFINE hp == req[t].heap
           c == CHOOSE c \in held[t] : TRUE
           linked == linkSegment(heap[hp], seg, c)
           p == req[t].ptr
           r == reallocate(linked, seg, p, req[t].size, heap[hp].requiredCaps)
<1>1. pc[t] = "growLink" /\ heap' = [heap EXCEPT ![hp] = r.h] /\ seg' = r.seg
  BY DEF GrowLink, SetHeap
<1>2. /\ c \in held[t] /\ hp \in Heaps /\ req[t].size \in Nat
      /\ p \in (Cells \cup {NoCell, ForeignCell}) \X Nat
  BY <1>1, CallFacts DEF HandsMatch, PtrType
<1>3. Well(linked, seg) /\ Exact(linked, seg)
  BY <1>1, <1>2, LinkedWell, LinkedExact
<1> HIDE DEF linked, p
<1>4. HeapStep(linked, seg, r.h, r.seg) /\ Exact(r.h, r.seg)
  BY <1>2, <1>3, ReallocateStep, ReallocateExact
<1> HIDE DEF r, c, hp
<1> QED
  BY <1>1, <1>2, <1>4, GrownExact DEF linked

\* What a trim detaches leaves the counters, with its bytes (ProtoGC.h:663-676).
LEMMA TrimVisitExact ==
    ASSUME IInv, HeapsExact, NEW t \in Tasks, TrimVisit(t)
    PROVE  HeapsExact'
<1>1. PICK g \in Heaps : \E c \in Linked(g) : VisitAt(t, g, c)
  BY VisitIs
<1>2. PICK c \in Linked(g) : VisitAt(t, g, c)
  BY <1>1
<1>3. CASE UNCHANGED <<heap, seg>>
  BY <1>3, OutsideExact
<1>4. CASE ~UNCHANGED <<heap, seg>>
  <2> DEFINE i == scan.at
             new == unlinkSegment(heap[g], seg, i)
  <2>1. /\ i \in DOMAIN heap[g].segments /\ c = heap[g].segments[i] /\ seg' = seg
        /\ isTrimmable(seg, c, scan.releasable, req[t].size)
        /\ heap'[g] = new /\ \A f \in Heaps \ {g} : heap'[f] = heap[f]
    BY <1>2, <1>4 DEF VisitAt
  <2>2. SoundSegment(seg[c]) /\ seg[c].total \in Nat /\ segmentIsCompletelyFree(seg, c)
    BY <2>1, FirstOf DEF isTrimmable
  <2>3. Bare(seg[c].blk)
    BY <2>2, FreeSegmentUse DEF Bare, segmentIsCompletelyFree
  <2>4. Well(heap[g], seg) /\ Exact(heap[g], seg)
    BY HeapsWell DEF HeapsExact
  <2>5. Exact(new, seg)
    BY <2>1, <2>3, <2>4, UnlinkExact
  <2> HIDE DEF new
  <2> QED
    BY <2>1, <2>5 DEF HeapsExact
<1> QED
  BY <1>3, <1>4

\* The counters of the heaps are exact after every step.
LEMMA HeapsExactStep ==
    ASSUME IInv, HeapsExact, \A t \in Tasks : BareAt(t), [Next]_vars
    PROVE  HeapsExact'
<1>1. CASE UNCHANGED <<heap, seg>>
  BY <1>1, OutsideExact
<1>2. ASSUME NEW t \in Tasks, CreateSegment(t) \/ Release(t) PROVE HeapsExact'
  <2>1. heap' = heap /\ \E c \in sys \cup held[t] : \E s : seg' = [seg EXCEPT ![c] = s]
    BY <1>2 DEF CreateSegment, Release
  <2>2. PICK c \in sys \cup held[t] : \E s : seg' = [seg EXCEPT ![c] = s]
    BY <2>1
  <2>3. \A g \in Heaps : \A d \in Linked(g) : d \in Cells /\ d # c
    BY Placed
  <2>4. \A g \in Heaps : \A d \in Linked(g) : seg'[d] = seg[d]
    BY <2>2, <2>3 DEF IInv, TypeOK, MemoryType
  <2> QED
    BY <2>1, <2>4, OutsideExact
<1>3. ASSUME NEW t \in Tasks, Call(t) PROVE UNCHANGED <<heap, seg>>
  BY <1>3 DEF Call, HeapAlloc, HeapFree, HeapRealloc, MallocTrim
<1> QED
  BY <1>1, <1>2, <1>3, AllocFastExact, FreeManagedExact, ReallocFastExact, LinkSegmentExact,
     GrowLinkExact, TrimVisitExact
     DEF Next, vars, Step, CreateFails, RawAlloc, RawLink, FreeFallback, FindFallback,
         TrimLock, TrimNextHeap, TrimUnlock

\* createSegment hands over a segment that is one free block; nobody else
\* touches it before it is linked.
LEMMA BareStep ==
    ASSUME IInv, \A t \in Tasks : BareAt(t), [Next]_vars, NEW t \in Tasks
    PROVE  BareAt(t)'
<1>1. CASE UNCHANGED vars
  BY <1>1 DEF vars, BareAt
<1>2. ASSUME NEW u \in Tasks \ {t}, Call(u) \/ Step(u) PROVE BareAt(t)'
  BY <1>2, Others DEF BareAt
<1>3. ASSUME CreateSegment(t) PROVE BareAt(t)'
  <2>1. PICK c \in sys, payload \in segmentPayloads(req[t].size) :
           /\ seg' = [seg EXCEPT ![c] = newSegment(payload, growthCaps(t))]
           /\ held' = [held EXCEPT ![t] = {c}]
    BY <1>3 DEF CreateSegment
  <2>2. c \in Cells /\ DOMAIN seg = Cells /\ held \in [Tasks -> SUBSET Cells]
    BY DEF IInv, TypeOK, MemoryType
  <2>3. held'[t] = {c} /\ seg'[c] = newSegment(payload, growthCaps(t))
    BY <2>1, <2>2
  <2>4. Bare(newSegment(payload, growthCaps(t)).blk)
    BY DEF Bare, Used, newSegment
  <2> QED
    BY <2>3, <2>4 DEF BareAt
<1>4. ASSUME Call(t) \/ (Step(t) /\ ~CreateSegment(t)) PROVE pc'[t] \notin {"link", "growLink"}
  <2>1. pc \in [Tasks -> PcLabels]
    BY CallFacts
  <2>2. \A l : Goto(t, l) => pc'[t] = l
    BY <2>1 DEF Goto
  <2>3. Return(t) => pc'[t] = "idle"
    BY <2>2 DEF Return
  <2>4. \A p : Deliver(t, p) => pc'[t] \in {"idle", "free"}
    BY <2>2, <2>3 DEF Deliver
  <2>5. CASE Call(t)
    BY <2>2, <2>5 DEF Call, HeapAlloc, HeapFree, HeapRealloc, MallocTrim
  <2>6. CASE AllocFast(t) \/ CreateFails(t) \/ LinkSegment(t) \/ RawAlloc(t) \/ RawLink(t)
               \/ FreeManaged(t) \/ FreeFallback(t)
    BY <2>2, <2>3, <2>4, <2>6 DEF AllocFast, CreateFails, LinkSegment, RawAlloc, RawLink,
       FreeManaged, FreeFallback
  <2>7. CASE ReallocFast(t) \/ GrowLink(t) \/ FindFallback(t)
    BY <2>2, <2>3, <2>7 DEF ReallocFast, GrowLink, FindFallback, Reallocated
  <2>8. CASE TrimLock(t) \/ TrimVisit(t) \/ TrimNextHeap(t) \/ TrimUnlock(t) \/ Release(t)
    BY <2>2, <2>3, <2>8 DEF TrimLock, TrimVisit, TrimNextHeap, TrimUnlock, Release
  <2> QED
    BY <1>4, <2>5, <2>6, <2>7, <2>8 DEF Step
<1> QED
  BY <1>1, <1>2, <1>3, <1>4 DEF Next, BareAt

\* A block pushed on the fallback list is counted (ProtoGC.h:403-410).
LEMMA RawLinkExact ==
    ASSUME IInv, FallbackExact, NEW t \in Tasks, RawLink(t)
    PROVE  FallbackExact'
<1> DEFINE c == CHOOSE c \in held[t] : TRUE
           n == req[t].size
           D == DOMAIN fallback
           f == fallbackSizes
           g == fallbackSizes'
<1>1. /\ pc[t] = "rawLink"
      /\ fallback' = With(fallback, c, [size |-> n, caps |-> req[t].caps])
      /\ fallbackBlocks' = fallbackBlocks + 1 /\ fallbackBytes' = fallbackBytes + n
  BY DEF RawLink
<1>2. c \notin D /\ n \in Nat
  BY <1>1, CallFacts, Placed DEF HandsMatch
<1>3. /\ IsFiniteSet(D) /\ fallbackBlocks = Cardinality(D) /\ fallbackBytes = SumOf(f, D)
      /\ \A d \in D : fallback[d].size \in Nat
  BY DEF FallbackExact, IInv, TypeOK, MemoryType
<1> HIDE DEF c, n
<1>4. /\ DOMAIN fallback' = D \cup {c}
      /\ fallback'[c].size = n /\ \A d \in D : fallback'[d] = fallback[d]
  BY <1>1, <1>2 DEF With
<1>5. /\ g[c] = n /\ \A d \in D : f[d] = g[d] /\ g[d] \in Int
  BY <1>3, <1>4 DEF fallbackSizes
<1> HIDE DEF f, g, D
<1>6. SumOf(g, D \cup {c}) = SumOf(g, D) + n /\ SumOf(f, D) = SumOf(g, D)
  <2>1. \A d \in D \cup {c} : g[d] \in Int
    BY <1>2, <1>5
  <2>2. SumOf(g, D \cup {c}) = SumOf(g, D) + g[c]
    BY <1>2, <1>3, <2>1, SumPut
  <2>3. SumOf(f, D) = SumOf(g, D)
    BY <1>3, <1>5, SumSame
  <2> QED
    BY <1>5, <2>2, <2>3
<1>7. IsFiniteSet(D \cup {c}) /\ Cardinality(D \cup {c}) = Cardinality(D) + 1
  BY <1>2, <1>3, FS_AddElement
<1> QED
  BY <1>1, <1>3, <1>4, <1>6, <1>7 DEF FallbackExact, g

\* A block taken off the list is counted out, and the counters never saturate
\* (ProtoGC.h:1005-1019).
LEMMA FreeFallbackExact ==
    ASSUME IInv, FallbackExact, NEW t \in Tasks, FreeFallback(t)
    PROVE  FallbackExact'
<1> DEFINE found == findFallbackHeader(req[t].ptr)
           c == CHOOSE c \in found : TRUE
           D == DOMAIN fallback
           f == fallbackSizes
           g == fallbackSizes'
<1>1. IF found = {}
      THEN UNCHANGED fallbackVars
      ELSE /\ fallback' = [d \in D \ {c} |-> fallback[d]]
           /\ fallbackBlocks' = saturating(fallbackBlocks, 1)
           /\ fallbackBytes' = saturating(fallbackBytes, fallback[c].size)
  BY DEF FreeFallback
<1>2. CASE found = {}
  BY <1>1, <1>2 DEF fallbackVars, FallbackExact, fallbackSizes
<1>3. CASE found # {}
  <2>1. c \in D
    BY <1>3 DEF findFallbackHeader
  <2>2. /\ IsFiniteSet(D) /\ fallbackBlocks = Cardinality(D) /\ fallbackBytes = SumOf(f, D)
        /\ \A d \in D : fallback[d].size \in Nat
    BY DEF FallbackExact, IInv, TypeOK, MemoryType
  <2>3. /\ fallback' = [d \in D \ {c} |-> fallback[d]]
        /\ fallbackBlocks' = saturating(fallbackBlocks, 1)
        /\ fallbackBytes' = saturating(fallbackBytes, fallback[c].size)
    BY <1>1, <1>3
  <2> HIDE DEF c, found
  <2>4. DOMAIN fallback' = D \ {c} /\ \A d \in D \ {c} : fallback'[d] = fallback[d]
    BY <2>3
  <2>5. /\ f[c] = fallback[c].size
        /\ \A d \in D : f[d] \in Nat /\ f[d] \in Int
        /\ \A d \in D \ {c} : f[d] = g[d]
    BY <2>1, <2>2, <2>4 DEF fallbackSizes
  <2> HIDE DEF f, g, D
  <2>6. /\ IsFiniteSet(D \ {c}) /\ Cardinality(D \ {c}) = Cardinality(D) - 1
        /\ Cardinality(D) \in Nat /\ Cardinality(D \ {c}) \in Nat
    BY <2>1, <2>2, FS_RemoveElement, FS_CardinalityType
  <2>7. SumOf(f, D) = f[c] + SumOf(f, D \ {c})
    BY <2>1, <2>2, <2>5, SumAdds
  <2>8. SumOf(f, D \ {c}) \in Nat /\ f[c] \in Nat
    BY <2>1, <2>5, <2>6, SumNat
  <2>9. SumOf(f, D \ {c}) = SumOf(g, D \ {c})
    BY <2>5, <2>6, SumSame
  <2>10. fallbackBlocks' = Cardinality(D \ {c})
    BY <2>2, <2>3, <2>6 DEF saturating
  <2>11. fallbackBytes' = SumOf(g, D \ {c})
    BY <2>2, <2>3, <2>5, <2>7, <2>8, <2>9 DEF saturating
  <2> QED
    BY <2>4, <2>6, <2>10, <2>11 DEF FallbackExact, g
<1> QED
  BY <1>2, <1>3

\* The counters of the list are exact after every step.
LEMMA FallbackStep ==
    ASSUME IInv, FallbackExact, [Next]_vars
    PROVE  FallbackExact'
<1>1. CASE UNCHANGED fallbackVars
  BY <1>1 DEF fallbackVars, FallbackExact, fallbackSizes
<1>2. ASSUME NEW t \in Tasks, Call(t) PROVE UNCHANGED fallbackVars
  BY <1>2 DEF Call, HeapAlloc, HeapFree, HeapRealloc, MallocTrim
<1>3. UNCHANGED vars => UNCHANGED fallbackVars
  BY DEF vars, fallbackVars
<1> QED
  BY <1>1, <1>2, <1>3, RawLinkExact, FreeFallbackExact
     DEF Next, Step, AllocFast, CreateSegment, CreateFails, LinkSegment, RawAlloc,
         FreeManaged, ReallocFast, GrowLink, FindFallback, TrimLock, TrimVisit, TrimNextHeap,
         TrimUnlock, Release

\* Nothing is counted at first.
LEMMA NothingCounted == Init => Counted
<1> SUFFICES ASSUME Init PROVE Counted
  OBVIOUS
<1>1. IsFiniteSet({}) /\ Cardinality({}) = 0
  BY FS_EmptySet
<1>2. FallbackExact
  <2>1. DOMAIN fallback = {}
    BY DEF Init
  <2> QED
    BY <1>1, <2>1, SumEmpty DEF Init, FallbackExact
<1>3. ASSUME NEW hp \in Heaps PROVE Exact(heap[hp], seg)
  <2>1. heap[hp] = NewAllocator(requiredCaps(hp), forbiddenCaps(hp))
    BY DEF Init
  <2>2. /\ heap[hp].segments = << >> /\ heap[hp].segmentCount = 0 /\ heap[hp].segmentBytes = 0
        /\ heap[hp].usedBytes = 0 /\ heap[hp].freeBytes = 0 /\ heap[hp].allocationCount = 0
    BY <2>1 DEF NewAllocator
  <2>3. Listed(heap[hp]) = {}
    BY <2>2 DEF Listed
  <2>4. ListedUse(heap[hp], seg) = {}
    BY <2>3 DEF ListedUse
  <2>5. Sums(heap[hp], seg)
    BY <1>1, <2>2, <2>3, SumEmpty DEF Sums
  <2> QED
    BY <1>1, <2>2, <2>4, <2>5 DEF Exact, Counts
<1>4. \A t \in Tasks : BareAt(t)
  BY DEF Init, BareAt
<1> QED
  BY <1>2, <1>3, <1>4 DEF Counted, HeapsExact

\* What is counted is an invariant, with what the segments are.
LEMMA CountedInductive == Spec => [](IInv /\ Own /\ Counted)
<1>1. IInv /\ Counted /\ [Next]_vars => Counted'
  <2> SUFFICES ASSUME IInv, Counted, [Next]_vars PROVE Counted'
    OBVIOUS
  <2>1. HeapsExact /\ FallbackExact /\ \A t \in Tasks : BareAt(t)
    BY DEF Counted
  <2>2. HeapsExact' /\ FallbackExact'
    BY <2>1, HeapsExactStep, FallbackStep
  <2>3. \A t \in Tasks : BareAt(t)'
    BY <2>1, BareStep
  <2> QED
    BY <2>2, <2>3 DEF Counted
<1> QED
  BY <1>1, NothingCounted, OwnInductive, PTL DEF Spec

\* The pointers the callers own in a heap are its used blocks.
LEMMA LiveInHeap ==
    ASSUME IInv, Own, NEW hp \in Heaps
    PROVE  {p \in DOMAIN live : p[1] \in Linked(hp)} = ListedUse(heap[hp], seg)
<1>1. DOMAIN live = UsedAt(seg) \cup Fallbacks
  BY DEF Own, ExactUse
<1>2. \A p \in Fallbacks : p[1] \notin Linked(hp)
  BY Placed DEF Fallbacks, FallbackPtr
<1> QED
  BY <1>1, <1>2, LinkedIsListed DEF ListedUse

\* A heap's bytes of one kind, as the property and as the induction sum them up.
LEMMA SizesOfSums ==
    ASSUME IInv, HeapsExact, NEW hp \in Heaps
    PROVE  /\ sizesOf(hp, FALSE) = SumOf(usedOf(seg), Listed(heap[hp]))
           /\ sizesOf(hp, TRUE) = SumOf(freeOf(seg), Listed(heap[hp]))
           /\ SumFunctionOnSet(segmentTotals, Linked(hp)) = SumOf(totalOf(seg), Listed(heap[hp]))
<1> DEFINE S == Listed(heap[hp])
           u == [c \in Linked(hp) |-> bytesOf(c, FALSE)]
           f == [c \in Linked(hp) |-> bytesOf(c, TRUE)]
<1>1. /\ S = Linked(hp) /\ S \subseteq Cells /\ IsFiniteSet(S)
      /\ \A c \in S : Countable(seg[c].blk)
  BY LinkedIsListed, Placed DEF HeapsExact, Exact, Sums
<1>2. ASSUME NEW c \in S
      PROVE  bytesOf(c, FALSE) = usedSum(seg[c].blk) /\ bytesOf(c, TRUE) = freeSum(seg[c].blk)
  <2>1. \A o \in DOMAIN seg[c].blk : seg[c].blk[o].free \in BOOLEAN
    BY <1>1 DEF Countable
  <2>2. {o \in Blocks(c) : seg[c].blk[o].free = FALSE} = Used(seg[c].blk)
    BY <2>1, Zenon DEF Blocks, Used
  <2>3. {o \in Blocks(c) : seg[c].blk[o].free = TRUE} = FreeIn(seg[c].blk)
    BY <2>1, Zenon DEF Blocks, FreeIn
  <2>4. blockSizes(c) = sizesIn(seg[c].blk)
    BY DEF blockSizes, sizesIn, Blocks
  <2> QED
    BY <2>2, <2>3, <2>4 DEF bytesOf, usedSum, freeSum, SumOf
<1>3. \A c \in S : u[c] = usedOf(seg)[c] /\ f[c] = freeOf(seg)[c]
  BY <1>1, <1>2 DEF usedOf, freeOf
<1>4. segmentTotals = totalOf(seg)
  BY DEF segmentTotals, totalOf
<1>5. sizesOf(hp, FALSE) = SumOf(u, S) /\ sizesOf(hp, TRUE) = SumOf(f, S)
  BY <1>1 DEF sizesOf, SumOf
<1> HIDE DEF u, f
<1>6. SumOf(u, S) = SumOf(usedOf(seg), S) /\ SumOf(f, S) = SumOf(freeOf(seg), S)
  BY <1>1, <1>3, SumSame
<1> QED
  BY <1>1, <1>4, <1>5, <1>6 DEF SumOf

\* The counters that stats() reports are exact: those of both heaps and of the
\* fallback list are what a walk over the segments, the blocks and the list would
\* find, after every split, merge, resize, growth and trim, and no subtraction of
\* theirs ever saturates into a wrong value (HeapAllocator.h:89-92, 150-153,
\* 238-240, 394-396, 472, 493-494, 512, 519; ProtoGC.h:407-408, 1016-1018).
THEOREM CountersAreExact == Spec => []CountersExact
<1>1. IInv /\ Own /\ Counted => CountersExact
  <2> SUFFICES ASSUME IInv, Own, Counted PROVE CountersExact
    OBVIOUS
  <2>1. HeapsExact /\ FallbackExact
    BY DEF Counted
  <2>2. ASSUME NEW hp \in Heaps
        PROVE  /\ heap[hp].segmentCount = Cardinality(Linked(hp))
               /\ heap[hp].segmentBytes = SumFunctionOnSet(segmentTotals, Linked(hp))
               /\ heap[hp].usedBytes = sizesOf(hp, FALSE)
               /\ heap[hp].freeBytes = sizesOf(hp, TRUE)
               /\ heap[hp].allocationCount
                     = Cardinality({p \in DOMAIN live : p[1] \in Linked(hp)})
    <3>1. Sums(heap[hp], seg) /\ Counts(heap[hp], seg)
      BY <2>1 DEF HeapsExact, Exact
    <3> QED
      BY <2>1, <3>1, LiveInHeap, SizesOfSums, LinkedIsListed DEF Sums, Counts
  <2>3. /\ fallbackBlocks = Cardinality(DOMAIN fallback)
        /\ fallbackBytes = SumFunctionOnSet(fallbackSizes, DOMAIN fallback)
    BY <2>1 DEF FallbackExact, SumOf
  <2> QED
    BY <2>2, <2>3 DEF CountersExact
<1> QED
  BY <1>1, CountedInductive, PTL
=============================================================================
