---------------------------- MODULE Pools_proofs ----------------------------
(***************************************************************************)
(* The pools, their buffers and the callers' pointers agree, and the pools *)
(* keep the promise of HeapContract, for every number of tasks, buffers,   *)
(* blocks and size classes.                                                *)
(***************************************************************************)
EXTENDS Pools, FiniteSetTheorems, SequenceTheorems, WellFoundedInduction, TLAPS

-----------------------------------------------------------------------------
(* One pool.                                                               *)

Below == {pair \in Nat \X Nat : pair[1] < pair[2]}

\* The scan over the classes finds the smallest there is.
LEMMA LeastIn ==
    ASSUME NEW S \in SUBSET Nat, S # {}
    PROVE  least(S) \in S
<1>1. OpToRel(<, Nat) = Below
  BY Zenon DEF OpToRel, Below
<1>2. IsWellFoundedOn(Below, Nat)
  BY <1>1, NatLessThanWellFounded, Zenon
<1>3. PICK x \in S : \A y \in S : <<y, x>> \notin Below
  BY <1>2, WFMin
<1>4. ASSUME NEW y \in S PROVE x <= y
  <2>1. ~(y < x)
    BY <1>3 DEF Below
  <2> QED
    BY <2>1
<1>5. \E z \in S : \A y \in S : z <= y
  BY <1>4
<1> QED
  BY <1>5 DEF least

LEMMA SlotsFinite ==
    ASSUME NEW S \in SUBSET Slots
    PROVE  IsFiniteSet(S) /\ Cardinality(S) \in Nat /\ (Cardinality(S) = 0 <=> S = {})
<1>1. IsFiniteSet(0..(BlockCount - 1))
  BY FS_Interval, BlockCountAssumption
<1>2. IsFiniteSet(S)
  BY <1>1, FS_Subset DEF Slots
<1> QED
  BY <1>2, FS_CardinalityType, FS_EmptySet

LEMMA UnbackedSound == Unbacked \in PoolType(Cells) /\ Sound(Unbacked) /\ ~isReady(Unbacked)
<1>1. << >> \in Seq(Slots) /\ DOMAIN << >> = {}
  OBVIOUS
<1>2. Cardinality({}) = 0
  BY FS_EmptySet
<1> QED
  BY <1>1, <1>2 DEF Unbacked, PoolType, Sound, isReady

\* A pool with a buffer and all its blocks in the free list.
LEMMA WholeSound ==
    /\ wholeList \in Seq(Slots)
    /\ \A q : q.buffer \in Cells /\ q.allocated = {} /\ q.freeList = wholeList /\ q.allocCount = 0
              => Sound(q) /\ isReady(q) /\ canAlloc(q)
<1>1. wholeList \in Seq(Slots) /\ Len(wholeList) = BlockCount
  BY BlockCountAssumption DEF wholeList, Slots
<1>2. \A i \in 1..BlockCount : wholeList[i] = i - 1
  BY DEF wholeList
<1>3. {wholeList[i] : i \in 1..BlockCount} = Slots
  <2>1. ASSUME NEW s \in Slots PROVE s + 1 \in 1..BlockCount /\ wholeList[s + 1] = s
    BY <1>2, BlockCountAssumption DEF Slots
  <2>2. ASSUME NEW i \in 1..BlockCount PROVE wholeList[i] \in Slots
    BY <1>2, BlockCountAssumption DEF Slots
  <2> QED
    BY <2>1, <2>2
<1>4. DOMAIN wholeList = 1..BlockCount
  BY DEF wholeList
<1>5. ASSUME NEW q, q.buffer \in Cells, q.allocated = {}, q.freeList = wholeList, q.allocCount = 0
      PROVE  Sound(q) /\ isReady(q) /\ canAlloc(q)
  <2>1. isReady(q) /\ canAlloc(q)
    BY <1>1, <1>5, CellsAssumption, BlockCountAssumption DEF isReady, canAlloc
  <2>2. Sound(q)
    BY <1>2, <1>3, <1>4, <1>5, <2>1, FS_EmptySet DEF Sound
  <2> QED
    BY <2>1, <2>2
<1> QED
  BY <1>1, <1>5

LEMMA AttachSound ==
    ASSUME NEW p \in PoolType(Cells), Sound(p), ~isReady(p), NEW c \in Cells
    PROVE  LET q == attachBacking(p, c)
           IN  /\ q \in PoolType(Cells) /\ Sound(q) /\ isReady(q) /\ canAlloc(q)
               /\ q.buffer = c /\ q.allocated = {} /\ p.allocated = {}
<1> DEFINE q == attachBacking(p, c)
<1>1. p.allocated = {} /\ p.allocCount = 0
  BY FS_EmptySet DEF Sound
<1>2. /\ q \in PoolType(Cells) /\ q.buffer = c /\ q.allocated = {} /\ q.freeList = wholeList
      /\ q.allocCount = 0
  BY <1>1, WholeSound DEF attachBacking, PoolType
<1> HIDE DEF q
<1> QED
  BY <1>1, <1>2, WholeSound DEF q

LEMMA AllocKeepsSound ==
    ASSUME NEW p \in PoolType(Cells), Sound(p), canAlloc(p)
    PROVE  LET q == alloc(p) IN
           LET s == Head(p.freeList)
           IN  /\ q \in PoolType(Cells) /\ Sound(q) /\ isReady(p) /\ q.buffer = p.buffer
               /\ s \in Slots \ p.allocated /\ q.allocated = p.allocated \cup {s}
<1> DEFINE q == alloc(p)
           l == p.freeList
           s == Head(l)
           r == Tail(l)
<1>1. l \in Seq(Slots) /\ l # << >>
  BY DEF PoolType, canAlloc
<1>2. /\ Len(l) \in Nat \ {0} /\ r \in Seq(Slots) /\ Len(r) = Len(l) - 1
      /\ s = l[1] /\ s \in Slots /\ DOMAIN l = 1..Len(l) /\ DOMAIN r = 1..(Len(l) - 1)
      /\ \A i \in 1..(Len(l) - 1) : r[i] = l[i + 1]
  BY <1>1
<1>3. \A i, j \in 1..Len(l) : l[i] = l[j] => i = j
  BY <1>2 DEF Sound
<1>4. {l[i] : i \in 1..Len(l)} = IF isReady(p) THEN Slots \ p.allocated ELSE {}
  BY <1>2 DEF Sound
<1>5. l[1] \in {l[i] : i \in 1..Len(l)}
  BY <1>2
<1>6. isReady(p) /\ s \in Slots \ p.allocated
  BY <1>2, <1>4, <1>5
<1>7. /\ q \in PoolType(Cells) /\ q.buffer = p.buffer /\ q.allocated = p.allocated \cup {s}
      /\ q.freeList = r /\ q.allocCount = p.allocCount + 1
  <2>1. q = [p EXCEPT !.freeList = r, !.allocated = @ \cup {s}, !.allocCount = @ + 1]
    BY DEF alloc
  <2> HIDE DEF q, r, s
  <2>2. r \in Seq(Slots) /\ s \in Slots
    BY <1>2
  <2>3. q.buffer = p.buffer /\ q.allocated = p.allocated \cup {s} /\ q.freeList = r
    BY <2>1 DEF PoolType
  <2>4. q.allocCount = p.allocCount + 1
    BY <2>1 DEF PoolType
  <2>5. q \in PoolType(Cells)
    <3>1. p.allocated \in SUBSET Slots /\ p.allocCount \in Nat /\ p.buffer \in Cells \cup {NoBuffer}
      BY DEF PoolType
    <3>2. q = [buffer |-> p.buffer, freeList |-> r, allocated |-> p.allocated \cup {s},
               allocCount |-> p.allocCount + 1]
      BY <2>1 DEF PoolType
    <3>3. p.allocated \cup {s} \in SUBSET Slots /\ p.allocCount + 1 \in Nat
      BY <2>2, <3>1
    <3> QED
      BY <2>2, <3>1, <3>2, <3>3 DEF PoolType
  <2> QED
    BY <2>3, <2>4, <2>5
<1> HIDE DEF q, r, s, l
<1>8. \A i, j \in DOMAIN q.freeList : q.freeList[i] = q.freeList[j] => i = j
  BY <1>2, <1>3, <1>7
<1>9. {q.freeList[i] : i \in DOMAIN q.freeList} = Slots \ q.allocated
  <2>1. ASSUME NEW i \in 1..(Len(l) - 1) PROVE r[i] \in Slots \ q.allocated
    <3>1. r[i] = l[i + 1] /\ i + 1 \in 1..Len(l) /\ l[i + 1] # s
      BY <1>2, <1>3
    <3>2. l[i + 1] \in Slots \ p.allocated
      BY <1>4, <1>6, <3>1
    <3> QED
      BY <1>7, <3>1, <3>2
  <2>2. ASSUME NEW x \in Slots \ q.allocated PROVE \E i \in 1..(Len(l) - 1) : r[i] = x
    <3>1. x \in Slots \ p.allocated /\ x # s
      BY <1>7
    <3>2. PICK j \in 1..Len(l) : l[j] = x
      BY <1>4, <1>6, <3>1
    <3>3. j - 1 \in 1..(Len(l) - 1) /\ r[j - 1] = l[j]
      BY <1>2, <3>1, <3>2
    <3> QED
      BY <3>2, <3>3
  <2>3. {q.freeList[i] : i \in DOMAIN q.freeList} = {r[i] : i \in 1..(Len(l) - 1)}
    BY <1>2, <1>7
  <2>4. {r[i] : i \in 1..(Len(l) - 1)} = Slots \ q.allocated
    BY <2>1, <2>2
  <2> QED
    BY <2>3, <2>4
<1>10. q.allocCount = Cardinality(q.allocated)
  <2>1. IsFiniteSet(p.allocated)
    BY SlotsFinite DEF PoolType
  <2>2. p.allocCount = Cardinality(p.allocated)
    BY DEF Sound
  <2>3. Cardinality(p.allocated \cup {s}) = Cardinality(p.allocated) + 1
    BY <1>6, <2>1, FS_AddElement
  <2> QED
    BY <1>7, <2>2, <2>3
<1>11. isReady(q)
  BY <1>6, <1>7 DEF isReady
<1>12. Sound(q)
  BY <1>8, <1>9, <1>10, <1>11 DEF Sound
<1> QED
  BY <1>6, <1>7, <1>12 DEF q, r, s, l

LEMMA FreeKeepsSound ==
    ASSUME NEW p \in PoolType(Cells), Sound(p), NEW ptr, owns(p, ptr)
    PROVE  LET q == free(p, ptr)
           IN  /\ q \in PoolType(Cells) /\ Sound(q) /\ q.buffer = p.buffer
               /\ q.allocated = p.allocated \ {ptr[2]}
<1> DEFINE q == free(p, ptr)
           s == ptr[2]
           l == p.freeList
           r == <<s>> \o l
<1>1. isReady(p) /\ s \in Slots /\ p.allocated \in SUBSET Slots /\ l \in Seq(Slots)
  BY DEF owns, PoolType
<1>2. CASE s \notin p.allocated
  BY <1>2 DEF free
<1>3. CASE s \in p.allocated
  <2>1. p.allocCount \in Nat /\ p.allocCount = Cardinality(p.allocated) /\ p.allocCount # 0
    BY <1>1, <1>3, SlotsFinite DEF Sound, PoolType
  <2>2. p.allocCount > 0 /\ p.allocCount - 1 \in Nat
    BY <2>1
  <2>3. q = [p EXCEPT !.allocated = @ \ {s}, !.freeList = r, !.allocCount = @ - 1]
    BY <1>3, <2>2 DEF free
  <2>4. /\ r \in Seq(Slots) /\ Len(r) = Len(l) + 1 /\ Len(l) \in Nat /\ r[1] = s
        /\ \A i \in 2..(Len(l) + 1) : r[i] = l[i - 1]
        /\ DOMAIN r = 1..(Len(l) + 1) /\ DOMAIN l = 1..Len(l)
    BY <1>1
  <2> HIDE DEF q, r, s, l
  <2>5. q = [buffer |-> p.buffer, freeList |-> r, allocated |-> p.allocated \ {s},
             allocCount |-> p.allocCount - 1]
    BY <2>3 DEF PoolType
  <2>6. p.buffer \in Cells \cup {NoBuffer} /\ p.allocated \ {s} \in SUBSET Slots
    BY <1>1 DEF PoolType
  <2>7. q \in PoolType(Cells)
    BY <2>2, <2>4, <2>5, <2>6 DEF PoolType
  <2>8. /\ q.buffer = p.buffer /\ q.freeList = r /\ q.allocated = p.allocated \ {s}
        /\ q.allocCount = p.allocCount - 1
    BY <2>5
  <2>9. /\ \A i, j \in 1..Len(l) : l[i] = l[j] => i = j
        /\ {l[i] : i \in 1..Len(l)} = Slots \ p.allocated
    BY <1>1, <2>4 DEF Sound, l
  <2>10. \A i \in 1..Len(l) : l[i] # s
    BY <1>3, <2>9
  <2>11. \A i, j \in DOMAIN r : r[i] = r[j] => i = j
    <3> SUFFICES ASSUME NEW i \in 1..(Len(l) + 1), NEW j \in 1..(Len(l) + 1), r[i] = r[j], i < j
                 PROVE  FALSE
      BY <2>4
    <3>1. j - 1 \in 1..Len(l) /\ r[j] = l[j - 1]
      BY <2>4
    <3>2. CASE i = 1
      BY <2>4, <2>10, <3>1, <3>2
    <3>3. CASE i > 1
      <4>1. i - 1 \in 1..Len(l) /\ r[i] = l[i - 1]
        BY <2>4, <3>3
      <4> QED
        BY <2>4, <2>9, <3>1, <4>1
    <3> QED
      BY <3>2, <3>3
  <2>12. {r[i] : i \in DOMAIN r} = Slots \ (p.allocated \ {s})
    <3>1. ASSUME NEW i \in DOMAIN r PROVE r[i] \in Slots \ (p.allocated \ {s})
      <4>1. CASE i = 1
        BY <1>1, <2>4, <4>1
      <4>2. CASE i > 1
        <5>1. i - 1 \in 1..Len(l) /\ r[i] = l[i - 1]
          BY <2>4, <4>2
        <5> QED
          BY <2>9, <5>1
      <4> QED
        BY <2>4, <4>1, <4>2
    <3>2. ASSUME NEW x \in Slots \ (p.allocated \ {s}) PROVE \E i \in DOMAIN r : r[i] = x
      <4>1. CASE x = s
        BY <2>4, <4>1
      <4>2. CASE x # s
        <5>1. PICK j \in 1..Len(l) : l[j] = x
          BY <2>9, <4>2
        <5>2. j + 1 \in DOMAIN r /\ r[j + 1] = x
          BY <2>4, <5>1
        <5> QED
          BY <5>2
      <4> QED
        BY <4>1, <4>2
    <3> QED
      BY <3>1, <3>2
  <2>13. Cardinality(p.allocated \ {s}) = Cardinality(p.allocated) - 1
    BY <1>1, <1>3, SlotsFinite, FS_RemoveElement
  <2>14. isReady(q)
    BY <1>1, <2>8 DEF isReady
  <2>15. Sound(q)
    BY <2>1, <2>8, <2>11, <2>12, <2>13, <2>14 DEF Sound
  <2> QED
    BY <2>7, <2>8, <2>15 DEF q, s
<1> QED
  BY <1>2, <1>3

\* A pool whose counter is zero has no block allocated.
LEMMA EmptyFacts ==
    ASSUME NEW p \in PoolType(Cells), Sound(p), isEmpty(p)
    PROVE  isReady(p) /\ p.allocated = {} /\ p.allocCount = 0
  BY SlotsFinite DEF isEmpty, Sound, PoolType

LEMMA CompactKeepsSound ==
    ASSUME NEW p \in PoolType(Cells), Sound(p)
    PROVE  LET q == resetIfEmpty(p)
           IN  /\ q \in PoolType(Cells) /\ Sound(q)
               /\ q.buffer = p.buffer /\ q.allocated = p.allocated
<1>1. CASE ~isEmpty(p)
  BY <1>1 DEF resetIfEmpty
<1>2. CASE isEmpty(p)
  <2> DEFINE q == resetIfEmpty(p)
  <2>1. p.allocated = {} /\ p.allocCount = 0 /\ p.buffer \in Cells
    BY <1>2, EmptyFacts DEF isReady, PoolType
  <2>2. /\ q \in PoolType(Cells) /\ q.buffer = p.buffer /\ q.allocated = {}
        /\ q.freeList = wholeList /\ q.allocCount = 0
    BY <1>2, <2>1, WholeSound DEF resetIfEmpty, PoolType
  <2> HIDE DEF q
  <2> QED
    BY <2>1, <2>2, WholeSound DEF q
<1> QED
  BY <1>1, <1>2

LEMMA DetachKeepsSound ==
    ASSUME NEW p \in PoolType(Cells), Sound(p)
    PROVE  LET q == detachIfEmpty(p)
           IN  /\ q \in PoolType(Cells) /\ Sound(q) /\ q.allocated = p.allocated
               /\ q.buffer = p.buffer \/ (q.buffer = NoBuffer /\ q.allocated = {})
<1>1. CASE ~isEmpty(p)
  BY <1>1 DEF detachIfEmpty
<1>2. CASE isEmpty(p)
  <2> DEFINE q == detachIfEmpty(p)
  <2>1. isReady(p) /\ p.allocated = {} /\ p.allocCount = 0
    BY <1>2, EmptyFacts
  <2>2. << >> \in Seq(Slots) /\ DOMAIN << >> = {}
    OBVIOUS
  <2>3. /\ q \in PoolType(Cells) /\ q.buffer = NoBuffer /\ q.freeList = << >>
        /\ q.allocated = {} /\ q.allocCount = 0
    BY <1>2, <2>1, <2>2 DEF detachIfEmpty, PoolType
  <2> HIDE DEF q
  <2>4. Sound(q)
    BY <2>2, <2>3, FS_EmptySet DEF Sound, isReady
  <2> QED
    BY <2>1, <2>3, <2>4 DEF q
<1> QED
  BY <1>1, <1>2

-----------------------------------------------------------------------------
(* The pools of all classes.                                               *)

Good(pools) ==
    /\ pools \in [Classes -> PoolType(Cells)]
    /\ \A k \in Classes : Sound(pools[k])
    /\ \A k, j \in Classes : isReady(pools[k]) /\ pools[k].buffer = pools[j].buffer => k = j

\* Pointers to allocated blocks.
Out(pools) == UNION {{pools[k].buffer} \X pools[k].allocated : k \in Classes}

\* An allocated block is in a pool that has a buffer.
LEMMA OutFacts ==
    ASSUME NEW pools, Good(pools)
    PROVE  \A x : (x \in Out(pools) <=>
             \E k \in Classes : /\ isReady(pools[k]) /\ pools[k].buffer \in Cells
                                /\ \E s \in pools[k].allocated : x = <<pools[k].buffer, s>>)
<1>1. ASSUME NEW k \in Classes, NEW s \in pools[k].allocated
      PROVE  isReady(pools[k]) /\ pools[k].buffer \in Cells
  BY DEF Good, Sound, isReady, PoolType
<1> QED
  BY <1>1 DEF Out

\* Pools with the same buffers are told apart the same way.
LEMMA StillGood ==
    ASSUME NEW pools, Good(pools), NEW next \in [Classes -> PoolType(Cells)],
           \A k \in Classes : Sound(next[k]) /\ next[k].buffer = pools[k].buffer
    PROVE  Good(next)
  BY DEF Good, isReady

LEMMA ServingFacts ==
    ASSUME NEW pools, Good(pools), NEW n \in Requests, serving(pools, n) # {}
    PROVE  LET k == least(serving(pools, n))
           IN  k \in Classes /\ n <= k /\ canAlloc(pools[k])
<1>1. serving(pools, n) \subseteq Nat
  BY DEF serving, Classes
<1>2. least(serving(pools, n)) \in serving(pools, n)
  BY <1>1, LeastIn
<1> QED
  BY <1>2 DEF serving

\* What poolAllocInternalLocked does: nothing, or one block of one pool.
Served(pools, n, r) ==
    /\ Good(r.pool) /\ \A k \in Classes : r.pool[k].buffer = pools[k].buffer
    /\ serving(pools, n) = {} => r.ptr = NoPtr /\ r.pool = pools
    /\ serving(pools, n) # {} =>
         /\ r.ptr \in Cells \X Slots /\ r.ptr # NoPtr
         /\ r.ptr \notin Out(pools) /\ Out(r.pool) = Out(pools) \cup {r.ptr}
         /\ \E k \in Classes : n <= k /\ isReady(pools[k]) /\ r.ptr[1] = pools[k].buffer

LEMMA PoolsServe ==
    ASSUME NEW pools, Good(pools), NEW n \in Requests
    PROVE  Served(pools, n, poolAllocInternalLocked(pools, n))
<1> DEFINE r == poolAllocInternalLocked(pools, n)
<1>1. CASE serving(pools, n) = {}
  BY <1>1 DEF poolAllocInternalLocked, Served
<1>2. CASE serving(pools, n) # {}
  <2> DEFINE k == least(serving(pools, n))
             p == pools[k]
             q == alloc(p)
             s == Head(p.freeList)
  <2>1. k \in Classes /\ n <= k /\ canAlloc(p)
    BY <1>2, ServingFacts
  <2>2. r = [ptr |-> allocPtr(p), pool |-> [pools EXCEPT ![k] = q]]
    BY <1>2 DEF poolAllocInternalLocked
  <2>3. r.ptr = <<p.buffer, s>> /\ r.pool = [pools EXCEPT ![k] = q]
    BY <2>2 DEF allocPtr
  <2> HIDE DEF k
  <2>4. p \in PoolType(Cells) /\ Sound(p)
    BY <2>1 DEF Good
  <2>5. /\ q \in PoolType(Cells) /\ Sound(q) /\ isReady(p) /\ q.buffer = p.buffer
        /\ s \in Slots \ p.allocated /\ q.allocated = p.allocated \cup {s}
    BY <2>1, <2>4, AllocKeepsSound
  <2>6. p.buffer \in Cells /\ p.buffer # NoBuffer
    BY <2>4, <2>5 DEF isReady, PoolType
  <2> HIDE DEF q, s, r
  <2>7. /\ r.pool \in [Classes -> PoolType(Cells)]
        /\ \A j \in Classes : r.pool[j] = IF j = k THEN q ELSE pools[j]
    BY <2>1, <2>3, <2>5 DEF Good
  <2>8. \A j \in Classes : Sound(r.pool[j]) /\ r.pool[j].buffer = pools[j].buffer
    BY <2>5, <2>7 DEF Good
  <2>9. Good(r.pool)
    BY <2>7, <2>8, StillGood
  <2>10. r.ptr \notin Out(pools)
    <3> SUFFICES ASSUME r.ptr \in Out(pools) PROVE FALSE
      OBVIOUS
    <3>1. PICK j \in Classes : /\ isReady(pools[j])
                               /\ \E i \in pools[j].allocated : r.ptr = <<pools[j].buffer, i>>
      BY OutFacts
    <3>2. pools[j].buffer = p.buffer /\ s \in pools[j].allocated
      BY <2>3, <3>1
    <3>3. j = k
      BY <2>1, <3>1, <3>2 DEF Good
    <3> QED
      BY <2>5, <3>2, <3>3
  <2>11. Out(r.pool) = Out(pools) \cup {r.ptr}
    <3>1. ASSUME NEW x \in Out(r.pool) PROVE x \in Out(pools) \cup {r.ptr}
      <4>1. PICK j \in Classes : \E i \in r.pool[j].allocated : x = <<r.pool[j].buffer, i>>
        BY DEF Out
      <4>2. PICK i \in r.pool[j].allocated : x = <<r.pool[j].buffer, i>>
        BY <4>1
      <4>3. CASE j = k /\ i = s
        BY <2>3, <2>5, <2>7, <4>2, <4>3
      <4>4. CASE ~(j = k /\ i = s)
        <5>1. i \in pools[j].allocated /\ x = <<pools[j].buffer, i>>
          BY <2>5, <2>7, <4>2, <4>4
        <5> QED
          BY <5>1 DEF Out
      <4> QED
        BY <4>3, <4>4
    <3>2. ASSUME NEW x \in Out(pools) PROVE x \in Out(r.pool)
      <4>1. PICK j \in Classes : \E i \in pools[j].allocated : x = <<pools[j].buffer, i>>
        BY DEF Out
      <4>2. \E i \in r.pool[j].allocated : x = <<r.pool[j].buffer, i>>
        BY <2>5, <2>7, <4>1
      <4> QED
        BY <4>2 DEF Out
    <3>3. r.ptr \in Out(r.pool)
      <4>1. s \in r.pool[k].allocated /\ r.ptr = <<r.pool[k].buffer, s>>
        BY <2>1, <2>3, <2>5, <2>7
      <4> QED
        BY <2>1, <4>1 DEF Out
    <3> QED
      BY <3>1, <3>2, <3>3
  <2>12. r.ptr \in Cells \X Slots /\ r.ptr # NoPtr /\ r.ptr[1] = p.buffer
    BY <2>3, <2>5, <2>6 DEF NoPtr
  <2>13. Served(pools, n, r)
    BY <1>2, <2>1, <2>5, <2>8, <2>9, <2>10, <2>11, <2>12 DEF Served
  <2> QED
    BY <2>13 DEF r
<1> QED
  BY <1>1, <1>2

LEMMA PoolTakesBack ==
    ASSUME NEW pools, Good(pools), NEW k \in Classes, NEW ptr, owns(pools[k], ptr),
           ptr = <<ptr[1], ptr[2]>>
    PROVE  LET next == [pools EXCEPT ![k] = free(@, ptr)]
           IN  /\ Good(next) /\ \A j \in Classes : next[j].buffer = pools[j].buffer
               /\ Out(next) = Out(pools) \ {ptr}
<1> DEFINE p == pools[k]
           q == free(p, ptr)
           next == [pools EXCEPT ![k] = q]
<1>1. p \in PoolType(Cells) /\ Sound(p)
  BY DEF Good
<1>2. q \in PoolType(Cells) /\ Sound(q) /\ q.buffer = p.buffer /\ q.allocated = p.allocated \ {ptr[2]}
  BY <1>1, FreeKeepsSound
<1>3. isReady(p) /\ ptr[1] = p.buffer
  BY DEF owns
<1> HIDE DEF q
<1>4. /\ next \in [Classes -> PoolType(Cells)]
      /\ \A j \in Classes : next[j] = IF j = k THEN q ELSE pools[j]
  BY <1>2 DEF Good
<1> HIDE DEF next
<1>5. \A j \in Classes : Sound(next[j]) /\ next[j].buffer = pools[j].buffer
  BY <1>2, <1>4 DEF Good
<1>6. Good(next)
  BY <1>4, <1>5, StillGood
<1>7. ASSUME NEW x \in Out(next) PROVE x \in Out(pools) /\ x # ptr
  <2>1. PICK j \in Classes : \E i \in next[j].allocated : x = <<next[j].buffer, i>>
    BY DEF Out
  <2>2. PICK i \in next[j].allocated : x = <<next[j].buffer, i>>
    BY <2>1
  <2>3. i \in pools[j].allocated /\ x = <<pools[j].buffer, i>>
    BY <1>2, <1>4, <1>5, <2>2
  <2>4. x \in Out(pools)
    BY <2>3 DEF Out
  <2>5. CASE j = k
    <3>1. i # ptr[2]
      BY <1>2, <1>4, <2>2, <2>5
    <3> QED
      BY <2>3, <2>4, <3>1
  <2>6. CASE j # k
    <3>1. pools[j].buffer # p.buffer
      BY <1>3, <2>6 DEF Good
    <3> QED
      BY <1>3, <2>3, <2>4, <3>1
  <2> QED
    BY <2>5, <2>6
<1>8. ASSUME NEW x \in Out(pools), x # ptr PROVE x \in Out(next)
  <2>1. PICK j \in Classes : \E i \in pools[j].allocated : x = <<pools[j].buffer, i>>
    BY DEF Out
  <2>2. PICK i \in pools[j].allocated : x = <<pools[j].buffer, i>>
    BY <2>1
  <2>3. ~(j = k /\ i = ptr[2])
    BY <1>3, <1>8, <2>2
  <2>4. i \in next[j].allocated /\ x = <<next[j].buffer, i>>
    BY <1>2, <1>4, <1>5, <2>2, <2>3
  <2> QED
    BY <2>4 DEF Out
<1>9. Out(next) = Out(pools) \ {ptr}
  BY <1>7, <1>8
<1> QED
  BY <1>5, <1>6, <1>9 DEF next, q

\* Where the allocated blocks stay and pools in use keep their buffer.
LEMMA SameOut ==
    ASSUME NEW pools, NEW next,
           \A k \in Classes : /\ next[k].allocated = pools[k].allocated
                              /\ pools[k].allocated # {} => next[k].buffer = pools[k].buffer
    PROVE  Out(next) = Out(pools)
<1>1. ASSUME NEW x \in Out(next) PROVE x \in Out(pools)
  <2>1. PICK j \in Classes : \E i \in next[j].allocated : x = <<next[j].buffer, i>>
    BY DEF Out
  <2>2. \E i \in pools[j].allocated : x = <<pools[j].buffer, i>>
    BY <2>1
  <2> QED
    BY <2>2 DEF Out
<1>2. ASSUME NEW x \in Out(pools) PROVE x \in Out(next)
  <2>1. PICK j \in Classes : \E i \in pools[j].allocated : x = <<pools[j].buffer, i>>
    BY DEF Out
  <2>2. \E i \in next[j].allocated : x = <<next[j].buffer, i>>
    BY <2>1
  <2> QED
    BY <2>2 DEF Out
<1> QED
  BY <1>1, <1>2

\* One pool that has no buffer gets one of its own.
LEMMA PoolAttaches ==
    ASSUME NEW pools, Good(pools), NEW k \in Classes, ~isReady(pools[k]), NEW c \in Cells,
           \A j \in Classes : pools[j].buffer # c
    PROVE  LET next == [pools EXCEPT ![k] = attachBacking(@, c)]
           IN  /\ Good(next) /\ Out(next) = Out(pools) /\ canAlloc(next[k])
               /\ \A j \in Classes : next[j].buffer = IF j = k THEN c ELSE pools[j].buffer
<1> DEFINE q == attachBacking(pools[k], c)
           next == [pools EXCEPT ![k] = q]
<1>1. pools[k] \in PoolType(Cells) /\ Sound(pools[k])
  BY DEF Good
<1>2. /\ q \in PoolType(Cells) /\ Sound(q) /\ canAlloc(q) /\ q.buffer = c
      /\ q.allocated = {} /\ pools[k].allocated = {}
  BY <1>1, AttachSound
<1> HIDE DEF q
<1>3. /\ next \in [Classes -> PoolType(Cells)]
      /\ \A j \in Classes : next[j] = IF j = k THEN q ELSE pools[j]
  BY <1>2 DEF Good
<1> HIDE DEF next
<1>4. \A j \in Classes : next[j].buffer = IF j = k THEN c ELSE pools[j].buffer
  BY <1>2, <1>3
<1>5. Out(next) = Out(pools)
  BY <1>2, <1>3, SameOut
<1>6. Good(next)
  BY <1>2, <1>3, <1>4 DEF Good, isReady
<1> QED
  BY <1>2, <1>3, <1>4, <1>5, <1>6 DEF next, q

-----------------------------------------------------------------------------
(* The invariant.                                                          *)

\* What a call has in its hands at each place.
Coherent ==
    \A t \in Tasks :
      /\ pc[t] = "attach" => \E c \in Cells : held[t] = {c}
      /\ pc[t] \notin {"attach", "drop", "trimRelease"} => held[t] = {}
      /\ pc[t] \in {"backing", "attach"} => req[t].size <= req[t].class

IInv == TypeOK /\ Good(pool) /\ BuffersPartitioned /\ PointersExact /\ Coherent

LEMMA Exact == PointersExact <=> DOMAIN live = Out(pool) \cup {<<c, 0>> : c \in blocks}
  BY DEF PointersExact, Out

LEMMA ExactPrimed == PointersExact' <=> DOMAIN live' = Out(pool') \cup {<<c, 0>> : c \in blocks'}
  BY DEF PointersExact, Out

LEMMA GoodPrimed == Good(pool)' <=> Good(pool')
  BY DEF Good

LEMMA InitHolds == Init => IInv
<1> SUFFICES ASSUME Init PROVE IInv
  OBVIOUS
<1>1. PICK buf \in [Classes -> Cells \cup {NoBuffer}] :
        /\ \A k, j \in Classes : buf[k] = buf[j] => k = j \/ buf[k] = NoBuffer
        /\ pool = [k \in Classes |-> IF buf[k] = NoBuffer THEN Unbacked
                                     ELSE attachBacking(Unbacked, buf[k])]
        /\ sys = Cells \ {buf[k] : k \in Classes}
  BY DEF Init
<1>2. /\ blocks = {} /\ held = [t \in Tasks |-> {}] /\ pc = [t \in Tasks |-> "idle"]
      /\ req = [t \in Tasks |-> NoReq] /\ live = << >>
  BY DEF Init
<1>3. ASSUME NEW k \in Classes
      PROVE  /\ pool[k] \in PoolType(Cells) /\ Sound(pool[k]) /\ pool[k].buffer = buf[k]
             /\ pool[k].allocated = {}
  <2>1. CASE buf[k] = NoBuffer
    BY <1>1, <2>1, UnbackedSound DEF Unbacked
  <2>2. CASE buf[k] # NoBuffer
    <3>1. buf[k] \in Cells /\ pool[k] = attachBacking(Unbacked, buf[k])
      BY <1>1, <2>2
    <3> QED
      BY <3>1, UnbackedSound, AttachSound
  <2> QED
    BY <2>1, <2>2
<1>4. pool \in [Classes -> PoolType(Cells)]
  BY <1>1, <1>3
<1>5. Good(pool)
  BY <1>1, <1>3, <1>4 DEF Good, isReady
<1>6. Buffers = {buf[k] : k \in Classes} \ {NoBuffer}
  BY <1>3 DEF Buffers
<1>7. BuffersPartitioned
  <2>1. Buffers \subseteq Cells /\ sys = Cells \ Buffers
    BY <1>1, <1>6, CellsAssumption
  <2>2. Cells = sys \cup blocks \cup Buffers \cup UNION {held[t] : t \in Tasks}
    BY <1>2, <2>1
  <2> QED
    BY <1>2, <1>5, <2>1, <2>2 DEF BuffersPartitioned, Good
<1>8. PointersExact
  <2>1. Out(pool) = {}
    BY <1>3 DEF Out
  <2> QED
    BY <1>2, <2>1, Exact
<1>9. NoReq \in ReqType
  BY ClassCountAssumption DEF NoReq, ReqType, Requests, Classes, PtrType, NoPtr
<1>10. TypeOK
  BY <1>1, <1>2, <1>4, <1>9 DEF TypeOK, PcLabels
<1>11. Coherent
  BY <1>2 DEF Coherent
<1> QED
  BY <1>5, <1>7, <1>8, <1>10, <1>11 DEF IInv

-----------------------------------------------------------------------------
(* What the steps have in common.                                          *)

LEMMA LiveWith ==
    ASSUME TypeOK, NEW p \in Cells \X Nat, NEW n \in Requests, live' = With(p, n)
    PROVE  /\ DOMAIN live' = DOMAIN live \cup {p} /\ DOMAIN live' \subseteq Cells \X Nat
           /\ \A q \in DOMAIN live' : live'[q] \in Requests
<1>1. DOMAIN live' = DOMAIN live \cup {p}
  BY DEF With
<1>2. \A q \in DOMAIN live' : live'[q] = IF q = p THEN n ELSE live[q]
  BY DEF With
<1> QED
  BY <1>1, <1>2 DEF TypeOK

LEMMA LiveWithout ==
    ASSUME TypeOK, NEW p, live' = Without(p)
    PROVE  /\ DOMAIN live' = DOMAIN live \ {p} /\ DOMAIN live' \subseteq Cells \X Nat
           /\ \A q \in DOMAIN live' : live'[q] \in Requests
<1>1. DOMAIN live' = DOMAIN live \ {p}
  BY DEF Without
<1>2. \A q \in DOMAIN live' : live'[q] = live[q]
  BY DEF Without
<1> QED
  BY <1>1, <1>2 DEF TypeOK

\* Nothing moves.
LEMMA SamePlaces ==
    ASSUME BuffersPartitioned, Good(pool'),
           \A k \in Classes : pool'[k].buffer = pool[k].buffer,
           UNCHANGED <<blocks, sys, held>>
    PROVE  BuffersPartitioned'
<1>1. Buffers' = Buffers
  BY DEF Buffers
<1> QED
  BY <1>1 DEF BuffersPartitioned, Good

\* The places of the other calls do not change.
LEMMA OthersCoherent ==
    ASSUME TypeOK, Coherent, NEW t \in Tasks, NEW l, Goto(t, l),
           \A u \in Tasks \ {t} : held'[u] = held[u] /\ req'[u] = req[u],
           l = "attach" => \E c \in Cells : held'[t] = {c},
           l \notin {"attach", "drop", "trimRelease"} => held'[t] = {},
           l \in {"backing", "attach"} => req'[t].size <= req'[t].class
    PROVE  Coherent'
<1>1. pc'[t] = l /\ \A u \in Tasks \ {t} : pc'[u] = pc[u]
  BY DEF TypeOK, Goto
<1> SUFFICES ASSUME NEW u \in Tasks
             PROVE  /\ pc'[u] = "attach" => \E c \in Cells : held'[u] = {c}
                    /\ pc'[u] \notin {"attach", "drop", "trimRelease"} => held'[u] = {}
                    /\ pc'[u] \in {"backing", "attach"} => req'[u].size <= req'[u].class
  BY DEF Coherent
<1>2. CASE u = t
  BY <1>1, <1>2
<1>3. CASE u # t
  BY <1>1, <1>3 DEF Coherent
<1> QED
  BY <1>2, <1>3

LEMMA GotoType ==
    ASSUME TypeOK, NEW t \in Tasks, NEW l \in PcLabels, Goto(t, l)
    PROVE  pc' \in [Tasks -> PcLabels]
  BY DEF TypeOK, Goto

LEMMA NoReqType == NoReq \in ReqType
  BY ClassCountAssumption DEF NoReq, ReqType, Requests, Classes, PtrType, NoPtr

LEMMA ReturnFacts ==
    ASSUME TypeOK, NEW t \in Tasks, Return(t)
    PROVE  /\ Goto(t, "idle") /\ pc' \in [Tasks -> PcLabels] /\ req' \in [Tasks -> ReqType]
           /\ \A u \in Tasks \ {t} : req'[u] = req[u]
<1>1. req' \in [Tasks -> ReqType]
  BY NoReqType DEF TypeOK, Return
<1>2. pc' \in [Tasks -> PcLabels]
  BY GotoType DEF Return, PcLabels
<1> QED
  BY <1>1, <1>2 DEF Return, TypeOK

LEMMA ReqFacts ==
    ASSUME TypeOK, NEW t \in Tasks
    PROVE  /\ req[t].size \in Requests /\ req[t].class \in Classes /\ req[t].ptr \in PtrType
           /\ held[t] \subseteq Cells
  BY DEF TypeOK, ReqType

\* Nothing but places and arguments changes.
LEMMA OnlyPlaces ==
    ASSUME IInv, UNCHANGED <<pool, blocks, sys, held, live>>,
           pc' \in [Tasks -> PcLabels], req' \in [Tasks -> ReqType], Coherent'
    PROVE  IInv'
<1>1. TypeOK'
  BY DEF IInv, TypeOK
<1>2. BuffersPartitioned'
  BY DEF IInv, BuffersPartitioned, Buffers
<1>3. PointersExact'
  BY DEF IInv, PointersExact
<1>4. Good(pool')
  BY DEF IInv
<1> QED
  BY <1>1, <1>2, <1>3, <1>4, GoodPrimed DEF IInv

-----------------------------------------------------------------------------
(* The steps.                                                              *)

LEMMA StepPoolAlloc ==
    ASSUME IInv, NEW t \in Tasks, NEW n \in Requests, PoolAlloc(t, n)
    PROVE  IInv'
<1>1. /\ pc[t] = "idle" /\ Goto(t, "look") /\ UNCHANGED <<pool, blocks, sys, held, live>>
      /\ req' = [req EXCEPT ![t] = [NoReq EXCEPT !.size = n]]
  BY DEF PoolAlloc
<1>2. [NoReq EXCEPT !.size = n] \in ReqType
  BY NoReqType DEF ReqType
<1>3. req' \in [Tasks -> ReqType] /\ \A u \in Tasks \ {t} : req'[u] = req[u]
  BY <1>1, <1>2 DEF IInv, TypeOK
<1>4. pc' \in [Tasks -> PcLabels]
  BY <1>1, GotoType DEF IInv, PcLabels
<1>5. held'[t] = {}
  BY <1>1 DEF IInv, Coherent
<1>6. Coherent'
  BY <1>1, <1>3, <1>5, OthersCoherent DEF IInv
<1> QED
  BY <1>1, <1>3, <1>4, <1>6, OnlyPlaces

LEMMA StepPoolFree ==
    ASSUME IInv, NEW t \in Tasks, NEW p \in Usable \cup {ForeignPtr}, PoolFree(t, p)
    PROVE  IInv'
<1>1. /\ pc[t] = "idle" /\ Goto(t, "free") /\ UNCHANGED <<pool, blocks, sys, held, live>>
      /\ req' = [req EXCEPT ![t] = [NoReq EXCEPT !.ptr = p]]
  BY DEF PoolFree
<1>2. p \in PtrType
  BY DEF IInv, TypeOK, Usable, ForeignPtr, PtrType
<1>3. [NoReq EXCEPT !.ptr = p] \in ReqType
  BY <1>2, NoReqType DEF ReqType
<1>4. req' \in [Tasks -> ReqType] /\ \A u \in Tasks \ {t} : req'[u] = req[u]
  BY <1>1, <1>3 DEF IInv, TypeOK
<1>5. pc' \in [Tasks -> PcLabels]
  BY <1>1, GotoType DEF IInv, PcLabels
<1>6. held'[t] = {}
  BY <1>1 DEF IInv, Coherent
<1>7. Coherent'
  BY <1>1, <1>4, <1>6, OthersCoherent DEF IInv
<1> QED
  BY <1>1, <1>4, <1>5, <1>7, OnlyPlaces

LEMMA StepPoolChoose ==
    ASSUME IInv, NEW t \in Tasks, PoolChoose(t)
    PROVE  IInv'
<1>1. pc[t] = "choose" /\ UNCHANGED <<pool, blocks, sys, held, live>>
  BY DEF PoolChoose
<1>2. held'[t] = {}
  BY <1>1 DEF IInv, Coherent
<1> DEFINE n == req[t].size
<1>3. n \in Requests
  BY ReqFacts DEF IInv
<1>4. CASE firstDetached(n) = {}
  <2>1. Goto(t, "heap") /\ req' = req
    BY <1>4 DEF PoolChoose
  <2>2. pc' \in [Tasks -> PcLabels]
    BY <2>1, GotoType DEF IInv, PcLabels
  <2>3. Coherent'
    BY <1>1, <1>2, <2>1, OthersCoherent DEF IInv
  <2> QED
    BY <1>1, <2>1, <2>2, <2>3, OnlyPlaces DEF IInv, TypeOK
<1>5. CASE firstDetached(n) # {}
  <2> DEFINE k == least(firstDetached(n))
  <2>1. Goto(t, "backing") /\ req' = [req EXCEPT ![t].class = k]
    BY <1>5 DEF PoolChoose
  <2>2. firstDetached(n) \subseteq Nat
    BY DEF firstDetached, Classes
  <2>3. k \in firstDetached(n)
    BY <1>5, <2>2, LeastIn
  <2>4. k \in Classes /\ n <= k
    BY <2>3 DEF firstDetached
  <2> HIDE DEF k
  <2>5. req' \in [Tasks -> ReqType]
    BY <2>1, <2>4 DEF IInv, TypeOK, ReqType
  <2>6. req'[t].size = n /\ req'[t].class = k /\ \A u \in Tasks \ {t} : req'[u] = req[u]
    BY <2>1 DEF IInv, TypeOK, ReqType
  <2>7. pc' \in [Tasks -> PcLabels]
    BY <2>1, GotoType DEF IInv, PcLabels
  <2>8. Coherent'
    BY <1>1, <1>2, <2>1, <2>4, <2>6, OthersCoherent DEF IInv
  <2> QED
    BY <1>1, <2>5, <2>7, <2>8, OnlyPlaces
<1> QED
  BY <1>4, <1>5

\* The pools answer; no cell moves.
LEMMA StepPoolLook ==
    ASSUME IInv, NEW t \in Tasks, PoolLook(t)
    PROVE  IInv'
<1> DEFINE n == req[t].size
           r == poolAllocInternalLocked(pool, n)
<1>1. pc[t] = "look" /\ UNCHANGED <<blocks, sys, held>>
  BY DEF PoolLook
<1>2. held'[t] = {}
  BY <1>1 DEF IInv, Coherent
<1>3. n \in Requests
  BY ReqFacts DEF IInv
<1>4. Served(pool, n, r)
  BY <1>3, PoolsServe DEF IInv
<1>5. CASE r.ptr = NoPtr
  <2>1. Goto(t, "choose") /\ UNCHANGED <<pool, live, req>>
    BY <1>5 DEF PoolLook
  <2>2. pc' \in [Tasks -> PcLabels]
    BY <2>1, GotoType DEF IInv, PcLabels
  <2>3. Coherent'
    BY <1>1, <1>2, <2>1, OthersCoherent DEF IInv
  <2> QED
    BY <1>1, <2>1, <2>2, <2>3, OnlyPlaces DEF IInv, TypeOK
<1>6. CASE r.ptr # NoPtr
  <2>1. pool' = r.pool /\ live' = With(r.ptr, n) /\ Return(t)
    BY <1>6 DEF PoolLook
  <2> HIDE DEF r, n
  <2>2. /\ Good(pool') /\ \A k \in Classes : pool'[k].buffer = pool[k].buffer
        /\ r.ptr \in Cells \X Slots /\ Out(pool') = Out(pool) \cup {r.ptr}
    BY <1>4, <1>6, <2>1 DEF Served
  <2>3. r.ptr \in Cells \X Nat
    BY <2>2 DEF Slots
  <2>4. /\ DOMAIN live' = DOMAIN live \cup {r.ptr} /\ DOMAIN live' \subseteq Cells \X Nat
        /\ \A q \in DOMAIN live' : live'[q] \in Requests
    BY <1>3, <2>1, <2>3, LiveWith DEF IInv
  <2>5. /\ Goto(t, "idle") /\ pc' \in [Tasks -> PcLabels] /\ req' \in [Tasks -> ReqType]
        /\ \A u \in Tasks \ {t} : req'[u] = req[u]
    BY <2>1, ReturnFacts DEF IInv
  <2>6. TypeOK'
    BY <1>1, <2>2, <2>4, <2>5 DEF IInv, TypeOK, Good
  <2>7. BuffersPartitioned'
    BY <1>1, <2>2, SamePlaces DEF IInv
  <2>8. PointersExact'
    <3>1. DOMAIN live = Out(pool) \cup {<<c, 0>> : c \in blocks}
      BY Exact DEF IInv
    <3>2. DOMAIN live' = Out(pool') \cup {<<c, 0>> : c \in blocks'}
      BY <1>1, <2>2, <2>4, <3>1
    <3> QED
      BY <3>2, ExactPrimed
  <2>9. Coherent'
    BY <1>1, <1>2, <2>5, OthersCoherent DEF IInv
  <2> QED
    BY <2>2, <2>6, <2>7, <2>8, <2>9, GoodPrimed DEF IInv
<1> QED
  BY <1>5, <1>6

\* A cell goes from the system heap to the task.
LEMMA StepAllocateBacking ==
    ASSUME IInv, NEW t \in Tasks, AllocateBacking(t)
    PROVE  IInv'
<1>1. pc[t] = "backing" /\ UNCHANGED <<pool, blocks, req, live>> /\ held[t] = {}
  BY DEF AllocateBacking, IInv, Coherent
<1>2. CASE Goto(t, "heap") /\ UNCHANGED <<sys, held>>
  <2>1. pc' \in [Tasks -> PcLabels]
    BY <1>2, GotoType DEF IInv, PcLabels
  <2>2. Coherent'
    BY <1>1, <1>2, OthersCoherent DEF IInv
  <2> QED
    BY <1>1, <1>2, <2>1, <2>2, OnlyPlaces DEF IInv, TypeOK
<1>3. ASSUME NEW c \in sys, sys' = sys \ {c}, held' = [held EXCEPT ![t] = {c}], Goto(t, "attach")
      PROVE  IInv'
  <2>1. pc' \in [Tasks -> PcLabels]
    BY <1>3, GotoType DEF IInv, PcLabels
  <2>2. c \in Cells /\ held' \in [Tasks -> SUBSET Cells]
    BY <1>3 DEF IInv, TypeOK
  <2>3. held'[t] = {c} /\ \A u \in Tasks \ {t} : held'[u] = held[u]
    BY <1>3 DEF IInv, TypeOK
  <2>4. TypeOK'
    BY <1>1, <1>3, <2>1, <2>2 DEF IInv, TypeOK
  <2>5. Coherent'
    BY <1>1, <1>3, <2>2, <2>3, OthersCoherent DEF IInv, Coherent
  <2>6. Buffers' = Buffers
    BY <1>1 DEF Buffers
  <2>7. BuffersPartitioned'
    <3>1. c \notin blocks \cup Buffers /\ \A u \in Tasks : c \notin held[u]
      BY <1>3 DEF IInv, BuffersPartitioned
    <3>2. Cells = sys' \cup blocks' \cup Buffers' \cup UNION {held'[u] : u \in Tasks}
      <4>1. UNION {held'[u] : u \in Tasks} = (UNION {held[u] : u \in Tasks}) \cup {c}
        BY <1>1, <2>3
      <4>2. Cells = sys \cup blocks \cup Buffers \cup UNION {held[u] : u \in Tasks}
        BY DEF IInv, BuffersPartitioned
      <4> QED
        BY <1>1, <1>3, <2>6, <4>1, <4>2
    <3>3. \A u \in Tasks :
            /\ held'[u] \cap (sys' \cup blocks' \cup Buffers') = {}
            /\ \A v \in Tasks \ {u} : held'[u] \cap held'[v] = {}
      BY <1>1, <1>3, <2>3, <2>6, <3>1 DEF IInv, BuffersPartitioned
    <3> QED
      BY <1>1, <1>3, <2>6, <3>2, <3>3 DEF IInv, BuffersPartitioned
  <2>8. PointersExact'
    BY <1>1 DEF IInv, PointersExact
  <2> QED
    BY <1>1, <2>4, <2>5, <2>7, <2>8, GoodPrimed DEF IInv
<1> QED
  BY <1>2, <1>3 DEF AllocateBacking

\* A cell goes from the task back to the system heap.
LEMMA StepRelease ==
    ASSUME IInv, NEW t \in Tasks, Release(t)
    PROVE  IInv'
<1>1. pc[t] \in {"drop", "trimRelease"} /\ UNCHANGED <<pool, blocks, live>>
  BY DEF Release
<1>2. PICK c \in held[t] :
        /\ sys' = sys \cup {c}
        /\ held' = [held EXCEPT ![t] = @ \ {c}]
        /\ IF held[t] # {c} THEN UNCHANGED <<pc, req>>
           ELSE IF pc[t] = "drop" /\ req[t].ptr = NoPtr THEN Goto(t, "heap") /\ UNCHANGED req
           ELSE Return(t)
  BY DEF Release
<1>3. c \in Cells /\ held' \in [Tasks -> SUBSET Cells]
  BY <1>2 DEF IInv, TypeOK
<1>4. held'[t] = held[t] \ {c} /\ \A u \in Tasks \ {t} : held'[u] = held[u]
  BY <1>2 DEF IInv, TypeOK
<1>5. /\ pc' \in [Tasks -> PcLabels] /\ req' \in [Tasks -> ReqType]
      /\ Coherent'
  <2>1. CASE held[t] # {c}
    <3>1. Goto(t, pc[t]) /\ req' = req /\ pc' = pc
      BY <1>2, <2>1 DEF Goto, IInv, TypeOK
    <3>2. Coherent'
      BY <1>1, <1>4, <3>1, OthersCoherent DEF IInv
    <3> QED
      BY <3>1, <3>2 DEF IInv, TypeOK
  <2>2. CASE held[t] = {c} /\ pc[t] = "drop" /\ req[t].ptr = NoPtr
    <3>1. Goto(t, "heap") /\ req' = req /\ held'[t] = {}
      BY <1>2, <1>4, <2>2
    <3>2. Coherent'
      BY <1>4, <3>1, OthersCoherent DEF IInv
    <3> QED
      BY <3>1, <3>2, GotoType DEF IInv, TypeOK, PcLabels
  <2>3. CASE held[t] = {c} /\ ~(pc[t] = "drop" /\ req[t].ptr = NoPtr)
    <3>1. Return(t) /\ held'[t] = {}
      BY <1>2, <1>4, <2>3
    <3>2. /\ Goto(t, "idle") /\ pc' \in [Tasks -> PcLabels] /\ req' \in [Tasks -> ReqType]
          /\ \A u \in Tasks \ {t} : req'[u] = req[u]
      BY <3>1, ReturnFacts DEF IInv
    <3>3. Coherent'
      BY <1>4, <3>1, <3>2, OthersCoherent DEF IInv
    <3> QED
      BY <3>2, <3>3
  <2> QED
    BY <2>1, <2>2, <2>3
<1>6. TypeOK'
  BY <1>1, <1>2, <1>3, <1>5 DEF IInv, TypeOK
<1>7. Buffers' = Buffers
  BY <1>1 DEF Buffers
<1>8. BuffersPartitioned'
  <2>1. c \notin blocks \cup Buffers /\ \A u \in Tasks \ {t} : c \notin held[u]
    BY <1>2 DEF IInv, BuffersPartitioned
  <2>2. Cells = sys' \cup blocks' \cup Buffers' \cup UNION {held'[u] : u \in Tasks}
    <3>1. UNION {held'[u] : u \in Tasks} \subseteq UNION {held[u] : u \in Tasks}
      BY <1>4
    <3>2. UNION {held[u] : u \in Tasks} \subseteq (UNION {held'[u] : u \in Tasks}) \cup {c}
      BY <1>4
    <3>3. Cells = sys \cup blocks \cup Buffers \cup UNION {held[u] : u \in Tasks}
      BY DEF IInv, BuffersPartitioned
    <3> QED
      BY <1>1, <1>2, <1>3, <1>7, <3>1, <3>2, <3>3
  <2>3. \A u \in Tasks :
          /\ held'[u] \cap (sys' \cup blocks' \cup Buffers') = {}
          /\ \A v \in Tasks \ {u} : held'[u] \cap held'[v] = {}
    BY <1>1, <1>2, <1>4, <1>7, <2>1 DEF IInv, BuffersPartitioned
  <2> QED
    BY <1>1, <1>2, <1>7, <2>1, <2>2, <2>3 DEF IInv, BuffersPartitioned
<1>9. PointersExact'
  BY <1>1 DEF IInv, PointersExact
<1> QED
  BY <1>1, <1>5, <1>6, <1>8, <1>9, GoodPrimed DEF IInv

\* A pointer of the pools is to a buffer.
LEMMA OutInBuffers ==
    ASSUME IInv, NEW x \in Out(pool)
    PROVE  x[1] \in Buffers
<1>1. PICK k \in Classes : isReady(pool[k]) /\ \E s \in pool[k].allocated : x = <<pool[k].buffer, s>>
  BY OutFacts DEF IInv
<1> QED
  BY <1>1 DEF Buffers, isReady

\* A cell goes from the system heap to the managed one.
LEMMA StepHeapAlloc ==
    ASSUME IInv, NEW t \in Tasks, HeapAlloc(t)
    PROVE  IInv'
<1>1. pc[t] = "heap" /\ Return(t) /\ UNCHANGED <<pool, held>> /\ held'[t] = {}
  BY DEF HeapAlloc, IInv, Coherent
<1>2. /\ Goto(t, "idle") /\ pc' \in [Tasks -> PcLabels] /\ req' \in [Tasks -> ReqType]
      /\ \A u \in Tasks \ {t} : req'[u] = req[u]
  BY <1>1, ReturnFacts DEF IInv
<1>3. Coherent'
  BY <1>1, <1>2, OthersCoherent DEF IInv
<1>4. CASE UNCHANGED <<sys, blocks, live>>
  BY <1>1, <1>2, <1>3, <1>4, OnlyPlaces
<1>5. ASSUME NEW c \in sys, sys' = sys \ {c}, blocks' = blocks \cup {c},
             live' = With(<<c, 0>>, req[t].size)
      PROVE  IInv'
  <2>1. c \in Cells /\ <<c, 0>> \in Cells \X Nat /\ req[t].size \in Requests
    BY <1>5, ReqFacts DEF IInv, TypeOK
  <2>2. /\ DOMAIN live' = DOMAIN live \cup {<<c, 0>>} /\ DOMAIN live' \subseteq Cells \X Nat
        /\ \A q \in DOMAIN live' : live'[q] \in Requests
    BY <1>5, <2>1, LiveWith DEF IInv
  <2>3. TypeOK'
    BY <1>1, <1>2, <1>5, <2>1, <2>2 DEF IInv, TypeOK
  <2>4. Buffers' = Buffers
    BY <1>1 DEF Buffers
  <2>5. BuffersPartitioned'
    BY <1>1, <1>5, <2>4 DEF IInv, BuffersPartitioned
  <2>6. PointersExact'
    <3>1. DOMAIN live = Out(pool) \cup {<<d, 0>> : d \in blocks}
      BY Exact DEF IInv
    <3>2. {<<d, 0>> : d \in blocks'} = {<<d, 0>> : d \in blocks} \cup {<<c, 0>>}
      BY <1>5
    <3> QED
      BY <1>1, <2>2, <3>1, <3>2, ExactPrimed
  <2> QED
    BY <1>1, <1>3, <2>3, <2>5, <2>6, GoodPrimed DEF IInv
<1> QED
  BY <1>4, <1>5 DEF HeapAlloc

\* A cell goes from the managed heap back to the system heap.
LEMMA StepHeapFree ==
    ASSUME IInv, NEW t \in Tasks, HeapFree(t)
    PROVE  IInv'
<1> DEFINE p == req[t].ptr
           mine == {c \in blocks : p = <<c, 0>>}
<1>1. /\ pc[t] = "heapFree" /\ Return(t) /\ UNCHANGED <<pool, held>> /\ held'[t] = {}
      /\ blocks' = blocks \ mine /\ sys' = sys \cup mine
      /\ live' = IF mine = {} THEN live ELSE Without(p)
  BY DEF HeapFree, IInv, Coherent
<1>2. /\ Goto(t, "idle") /\ pc' \in [Tasks -> PcLabels] /\ req' \in [Tasks -> ReqType]
      /\ \A u \in Tasks \ {t} : req'[u] = req[u]
  BY <1>1, ReturnFacts DEF IInv
<1>3. Coherent'
  BY <1>1, <1>2, OthersCoherent DEF IInv
<1>4. CASE mine = {}
  <2>1. blocks' = blocks /\ sys' = sys /\ live' = live
    BY <1>1, <1>4
  <2> QED
    BY <1>1, <1>2, <1>3, <2>1, OnlyPlaces
<1>5. CASE mine # {}
  <2>1. PICK c \in blocks : p = <<c, 0>>
    BY <1>5
  <2>2. mine = {c}
    BY <2>1
  <2> HIDE DEF p, mine
  <2>3. c \in Cells /\ blocks' = blocks \ {c} /\ sys' = sys \cup {c} /\ live' = Without(p)
    BY <1>1, <1>5, <2>1, <2>2 DEF IInv, TypeOK
  <2>4. /\ DOMAIN live' = DOMAIN live \ {p} /\ DOMAIN live' \subseteq Cells \X Nat
        /\ \A q \in DOMAIN live' : live'[q] \in Requests
    BY <2>3, LiveWithout DEF IInv
  <2>5. TypeOK'
    BY <1>1, <1>2, <2>3, <2>4 DEF IInv, TypeOK
  <2>6. Buffers' = Buffers
    BY <1>1 DEF Buffers
  <2>7. BuffersPartitioned'
    BY <1>1, <2>1, <2>3, <2>6 DEF IInv, BuffersPartitioned
  <2>8. PointersExact'
    <3>1. DOMAIN live = Out(pool) \cup {<<d, 0>> : d \in blocks}
      BY Exact DEF IInv
    <3>2. {<<d, 0>> : d \in blocks'} = {<<d, 0>> : d \in blocks} \ {p}
      BY <2>1, <2>3
    <3>3. p \notin Out(pool)
      <4>1. c \notin Buffers /\ p[1] = c
        BY <2>1 DEF IInv, BuffersPartitioned
      <4> QED
        BY <4>1, OutInBuffers
    <3>4. DOMAIN live' = Out(pool') \cup {<<d, 0>> : d \in blocks'}
      BY <1>1, <2>4, <3>1, <3>2, <3>3
    <3> QED
      BY <3>4, ExactPrimed
  <2> QED
    BY <1>1, <1>3, <2>5, <2>7, <2>8, GoodPrimed DEF IInv
<1> QED
  BY <1>4, <1>5

\* The pool that owns the pointer takes it back; no cell moves.
LEMMA StepPoolFreeLocked ==
    ASSUME IInv, NEW t \in Tasks, PoolFreeLocked(t)
    PROVE  IInv'
<1> DEFINE p == req[t].ptr
           owner == poolsOwning(p)
<1>1. pc[t] = "free" /\ UNCHANGED <<blocks, sys, held>> /\ held'[t] = {}
  BY DEF PoolFreeLocked, IInv, Coherent
<1>2. CASE owner = {}
  <2>1. Goto(t, "heapFree") /\ UNCHANGED <<pool, req, live>>
    BY <1>2 DEF PoolFreeLocked
  <2>2. pc' \in [Tasks -> PcLabels]
    BY <2>1, GotoType DEF IInv, PcLabels
  <2>3. Coherent'
    BY <1>1, <2>1, OthersCoherent DEF IInv
  <2> QED
    BY <1>1, <2>1, <2>2, <2>3, OnlyPlaces DEF IInv, TypeOK
<1>3. CASE owner # {}
  <2> DEFINE k == least(owner)
  <2>1. pool' = [pool EXCEPT ![k] = free(@, p)] /\ live' = Without(p) /\ Return(t)
    BY <1>3 DEF PoolFreeLocked
  <2>2. owner \in SUBSET Nat
    BY DEF poolsOwning, Classes
  <2>3. k \in owner
    BY <1>3, <2>2, LeastIn
  <2>4. k \in Classes /\ owns(pool[k], p)
    BY <2>3 DEF poolsOwning
  <2> HIDE DEF k, owner
  <2>5. p = <<p[1], p[2]>>
    BY ReqFacts DEF IInv, PtrType
  <2> HIDE DEF p
  <2>6. /\ Good(pool') /\ \A j \in Classes : pool'[j].buffer = pool[j].buffer
        /\ Out(pool') = Out(pool) \ {p}
    <3> DEFINE next == [pool EXCEPT ![k] = free(@, p)]
    <3>1. Good(pool)
      BY DEF IInv
    <3>2. /\ Good(next) /\ \A j \in Classes : next[j].buffer = pool[j].buffer
          /\ Out(next) = Out(pool) \ {p}
      BY <2>4, <2>5, <3>1, PoolTakesBack
    <3>3. pool' = next
      BY <2>1
    <3> HIDE DEF next
    <3> QED
      BY <3>2, <3>3
  <2>7. /\ DOMAIN live' = DOMAIN live \ {p} /\ DOMAIN live' \subseteq Cells \X Nat
        /\ \A q \in DOMAIN live' : live'[q] \in Requests
    BY <2>1, LiveWithout DEF IInv
  <2>8. /\ Goto(t, "idle") /\ pc' \in [Tasks -> PcLabels] /\ req' \in [Tasks -> ReqType]
        /\ \A u \in Tasks \ {t} : req'[u] = req[u]
    BY <2>1, ReturnFacts DEF IInv
  <2>9. TypeOK'
    BY <1>1, <2>6, <2>7, <2>8 DEF IInv, TypeOK, Good
  <2>10. BuffersPartitioned'
    BY <1>1, <2>6, SamePlaces DEF IInv
  <2>11. PointersExact'
    <3>1. DOMAIN live = Out(pool) \cup {<<d, 0>> : d \in blocks}
      BY Exact DEF IInv
    <3>2. p \notin {<<d, 0>> : d \in blocks}
      <4>1. p[1] \in Buffers
        BY <2>4 DEF owns, isReady, Buffers
      <4>2. p[1] \notin blocks
        BY <4>1 DEF IInv, BuffersPartitioned
      <4> QED
        BY <4>2
    <3>3. DOMAIN live' = Out(pool') \cup {<<d, 0>> : d \in blocks'}
      BY <1>1, <2>6, <2>7, <3>1, <3>2
    <3> QED
      BY <3>3, ExactPrimed
  <2>12. Coherent'
    BY <1>1, <2>8, OthersCoherent DEF IInv
  <2> QED
    BY <2>6, <2>9, <2>10, <2>11, <2>12, GoodPrimed DEF IInv
<1> QED
  BY <1>2, <1>3

LEMMA StepCompactEmptyPools ==
    ASSUME IInv, NEW t \in Tasks, CompactEmptyPools(t)
    PROVE  IInv'
<1>1. /\ UNCHANGED <<blocks, sys, held, pc, req, live>>
      /\ pool' = [k \in Classes |-> resetIfEmpty(pool[k])]
  BY DEF CompactEmptyPools
<1>2. ASSUME NEW k \in Classes
      PROVE  /\ pool'[k] \in PoolType(Cells) /\ Sound(pool'[k])
             /\ pool'[k].buffer = pool[k].buffer /\ pool'[k].allocated = pool[k].allocated
  <2>1. pool[k] \in PoolType(Cells) /\ Sound(pool[k]) /\ pool'[k] = resetIfEmpty(pool[k])
    BY <1>1 DEF IInv, Good
  <2> QED
    BY <2>1, CompactKeepsSound
<1>3. pool' \in [Classes -> PoolType(Cells)]
  BY <1>1, <1>2
<1>4. Good(pool')
  BY <1>2, <1>3, StillGood DEF IInv
<1>5. Out(pool') = Out(pool)
  BY <1>2, SameOut
<1>6. TypeOK'
  BY <1>1, <1>3 DEF IInv, TypeOK
<1>7. BuffersPartitioned'
  BY <1>1, <1>2, <1>4, SamePlaces DEF IInv
<1>8. PointersExact'
  BY <1>1, <1>5, Exact, ExactPrimed DEF IInv
<1>9. Coherent'
  BY <1>1 DEF IInv, Coherent
<1> QED
  BY <1>4, <1>6, <1>7, <1>8, <1>9, GoodPrimed DEF IInv

\* The buffers of the empty pools go to the task.
LEMMA StepTrimPools ==
    ASSUME IInv, NEW t \in Tasks, TrimPools(t)
    PROVE  IInv'
<1> DEFINE gone == {j \in Classes : isReady(pool[j]) /\ ~isReady(pool'[j])}
           H == {pool[k].buffer : k \in gone}
<1>1. /\ pc[t] = "idle" /\ UNCHANGED <<blocks, sys, req, live>> /\ held[t] = {}
      /\ pool' = [k \in Classes |-> detachIfEmpty(pool[k])]
      /\ held' = [held EXCEPT ![t] = H]
      /\ IF held'[t] = {} THEN UNCHANGED pc ELSE Goto(t, "trimRelease")
  BY DEF TrimPools, IInv, Coherent
<1>2. ASSUME NEW k \in Classes
      PROVE  /\ pool'[k] \in PoolType(Cells) /\ Sound(pool'[k])
             /\ pool'[k].allocated = pool[k].allocated
             /\ pool'[k].buffer = pool[k].buffer
                  \/ (pool'[k].buffer = NoBuffer /\ pool'[k].allocated = {})
  <2>1. pool[k] \in PoolType(Cells) /\ Sound(pool[k]) /\ pool'[k] = detachIfEmpty(pool[k])
    BY <1>1 DEF IInv, Good
  <2> QED
    BY <2>1, DetachKeepsSound
<1>3. pool' \in [Classes -> PoolType(Cells)]
  BY <1>1, <1>2
<1>4. Good(pool')
  BY <1>2, <1>3 DEF IInv, Good, isReady
<1>5. Out(pool') = Out(pool)
  BY <1>2, SameOut
<1> HIDE DEF gone
<1>6. ASSUME NEW c
      PROVE  /\ (c \in Buffers <=> (c \in Buffers' \/ c \in H))
             /\ ~(c \in Buffers' /\ c \in H)
  <2>1. ASSUME c \in Buffers PROVE c \in Buffers' \/ c \in H
    <3>1. PICK k \in Classes : pool[k].buffer = c /\ c # NoBuffer
      BY <2>1 DEF Buffers
    <3>2. CASE pool'[k].buffer = c
      BY <3>1, <3>2 DEF Buffers
    <3>3. CASE pool'[k].buffer = NoBuffer
      BY <3>1, <3>3 DEF gone, isReady
    <3> QED
      BY <1>2, <3>1, <3>2, <3>3
  <2>2. ASSUME c \in Buffers' PROVE c \in Buffers /\ c \notin H
    <3>1. PICK k \in Classes : pool'[k].buffer = c /\ c # NoBuffer
      BY <2>2 DEF Buffers
    <3>2. pool[k].buffer = c /\ isReady(pool[k]) /\ isReady(pool'[k])
      BY <1>2, <3>1 DEF isReady
    <3>3. \A j \in gone : pool[j].buffer # c
      BY <3>1, <3>2 DEF gone, IInv, Good
    <3> QED
      BY <3>1, <3>2, <3>3 DEF Buffers
  <2>3. ASSUME c \in H PROVE c \in Buffers
    BY <2>3 DEF gone, isReady, Buffers
  <2> QED
    BY <2>1, <2>2, <2>3
<1> HIDE DEF H
<1>7. H \subseteq Cells
  BY <1>6 DEF IInv, TypeOK, BuffersPartitioned
<1>8. held' \in [Tasks -> SUBSET Cells] /\ held'[t] = H
  BY <1>1, <1>7 DEF IInv, TypeOK
<1>9. \A u \in Tasks \ {t} : held'[u] = held[u]
  BY <1>1 DEF IInv, TypeOK
<1>10. pc' \in [Tasks -> PcLabels] /\ Coherent'
  <2>1. CASE H = {}
    <3>1. pc' = pc /\ Goto(t, "idle")
      BY <1>1, <1>8, <2>1 DEF Goto, IInv, TypeOK
    <3>2. Coherent'
      BY <1>1, <1>8, <1>9, <2>1, <3>1, OthersCoherent DEF IInv
    <3> QED
      BY <3>1, <3>2 DEF IInv, TypeOK
  <2>2. CASE H # {}
    <3>1. Goto(t, "trimRelease")
      BY <1>1, <1>8, <2>2
    <3>2. Coherent'
      BY <1>1, <1>8, <1>9, <3>1, OthersCoherent DEF IInv
    <3> QED
      BY <3>1, <3>2, GotoType DEF IInv, PcLabels
  <2> QED
    BY <2>1, <2>2
<1>11. TypeOK'
  BY <1>1, <1>3, <1>8, <1>10 DEF IInv, TypeOK
<1>12. BuffersPartitioned'
  <2>1. Cells = sys' \cup blocks' \cup Buffers' \cup UNION {held'[u] : u \in Tasks}
    <3>1. UNION {held'[u] : u \in Tasks} = (UNION {held[u] : u \in Tasks}) \cup H
      BY <1>1, <1>8, <1>9
    <3>2. Cells = sys \cup blocks \cup Buffers \cup UNION {held[u] : u \in Tasks}
      BY DEF IInv, BuffersPartitioned
    <3>3. Buffers = Buffers' \cup H
      BY <1>6
    <3> QED
      BY <1>1, <3>1, <3>2, <3>3
  <2>2. /\ sys \cap (blocks \cup Buffers) = {} /\ blocks \cap Buffers = {}
        /\ \A u \in Tasks :
             /\ held[u] \cap (sys \cup blocks \cup Buffers) = {}
             /\ \A v \in Tasks \ {u} : held[u] \cap held[v] = {}
    BY DEF IInv, BuffersPartitioned
  <2>3. H \subseteq Buffers /\ Buffers' \subseteq Buffers /\ H \cap Buffers' = {}
    BY <1>6
  <2>4. sys' \cap (blocks' \cup Buffers') = {} /\ blocks' \cap Buffers' = {}
    BY <1>1, <2>2, <2>3
  <2>5. ASSUME NEW u \in Tasks
        PROVE  /\ held'[u] \cap (sys' \cup blocks' \cup Buffers') = {}
               /\ \A v \in Tasks \ {u} : held'[u] \cap held'[v] = {}
    BY <1>1, <1>8, <1>9, <2>2, <2>3
  <2> QED
    BY <1>4, <2>1, <2>4, <2>5 DEF BuffersPartitioned, Good
<1>13. PointersExact'
  BY <1>1, <1>5, Exact, ExactPrimed DEF IInv
<1> QED
  BY <1>4, <1>10, <1>11, <1>12, <1>13, GoodPrimed DEF IInv

\* Memory in use keeps its place.
Keeps ==
    /\ blocks \subseteq blocks'
    /\ \A k \in Classes : pool[k].allocated # {} => pool'[k].buffer = pool[k].buffer

\* A fresh pointer p for n units, in a pool that fits or in the heap.
Given(p, n) ==
    /\ p \notin DOMAIN live /\ live' = With(p, n)
    /\ (\E k \in Classes : n <= k /\ pool'[k].buffer = p[1]) \/ p[1] \in blocks'

LEMMA GivenIsNew ==
    ASSUME NEW p, NEW n, Given(p, n)
    PROVE  p \in DOMAIN live' \ DOMAIN live /\ live'[p] = n
  BY DEF Given, With

\* A block handed out by the pools is nobody's yet.
LEMMA NewPointer ==
    ASSUME IInv, NEW x, x[1] \in Buffers \/ x[1] \notin blocks, x \notin Out(pool)
    PROVE  x \notin DOMAIN live
<1>1. DOMAIN live = Out(pool) \cup {<<d, 0>> : d \in blocks}
  BY Exact DEF IInv
<1>2. x[1] \notin blocks
  BY DEF IInv, BuffersPartitioned
<1> QED
  BY <1>1, <1>2

\* A task that lost the race tries the pools and keeps its buffer for now.
LEMMA AttachLost ==
    ASSUME IInv, NEW t \in Tasks, Attach(t), isReady(pool[req[t].class])
    PROVE  /\ IInv' /\ Keeps
           /\ \/ \E p : Given(p, req[t].size)
              \/ live' = live /\ \A k \in Classes : k >= req[t].size => ~canAlloc(pool[k])
<1> DEFINE n == req[t].size
           r == poolAllocInternalLocked(pool, n)
<1>1. /\ pc[t] = "attach" /\ UNCHANGED <<blocks, sys, held>>
      /\ pool' = r.pool /\ live' = IF r.ptr = NoPtr THEN live ELSE With(r.ptr, n)
      /\ Goto(t, "drop") /\ req' = [req EXCEPT ![t].ptr = r.ptr]
  BY DEF Attach
<1>2. n \in Requests
  BY ReqFacts DEF IInv
<1>3. Served(pool, n, r)
  BY <1>2, PoolsServe DEF IInv
<1> HIDE DEF r, n
<1>4. Good(pool') /\ \A k \in Classes : pool'[k].buffer = pool[k].buffer
  BY <1>1, <1>3 DEF Served
<1>5. \A k \in Classes : pool'[k] \in PoolType(Cells)
  BY <1>4 DEF Good
<1>6. r.ptr \in PtrType /\ (r.ptr # NoPtr => r.ptr \in Cells \X Nat)
  <2>1. CASE r.ptr = NoPtr
    BY <2>1 DEF NoPtr, PtrType
  <2>2. CASE r.ptr # NoPtr
    <3>1. serving(pool, n) # {} /\ r.ptr \in Cells \X Slots
      BY <1>3, <2>2 DEF Served
    <3> QED
      BY <3>1 DEF Slots, PtrType
  <2> QED
    BY <2>1, <2>2
<1>7. req' \in [Tasks -> ReqType] /\ \A u \in Tasks \ {t} : req'[u] = req[u]
  <2>1. [req[t] EXCEPT !.ptr = r.ptr] \in ReqType
    BY <1>6 DEF IInv, TypeOK, ReqType
  <2> QED
    BY <1>1, <2>1 DEF IInv, TypeOK
<1>8. pc' \in [Tasks -> PcLabels]
  BY <1>1, GotoType DEF IInv, PcLabels
<1>9. /\ DOMAIN live' \subseteq Cells \X Nat /\ \A q \in DOMAIN live' : live'[q] \in Requests
      /\ DOMAIN live' = IF r.ptr = NoPtr THEN DOMAIN live ELSE DOMAIN live \cup {r.ptr}
      /\ Out(pool') = IF r.ptr = NoPtr THEN Out(pool) ELSE Out(pool) \cup {r.ptr}
  <2>1. CASE r.ptr = NoPtr
    BY <1>1, <1>3, <2>1 DEF Served, IInv, TypeOK
  <2>2. CASE r.ptr # NoPtr
    <3>1. live' = With(r.ptr, n) /\ r.ptr \in Cells \X Nat
      BY <1>1, <1>6, <2>2
    <3>2. /\ DOMAIN live' = DOMAIN live \cup {r.ptr} /\ DOMAIN live' \subseteq Cells \X Nat
          /\ \A q \in DOMAIN live' : live'[q] \in Requests
      BY <1>2, <3>1, LiveWith DEF IInv
    <3> QED
      BY <1>1, <1>3, <2>2, <3>2 DEF Served
  <2> QED
    BY <2>1, <2>2
<1>10. TypeOK'
  BY <1>1, <1>4, <1>7, <1>8, <1>9 DEF IInv, TypeOK, Good
<1>11. BuffersPartitioned'
  BY <1>1, <1>4, SamePlaces DEF IInv
<1>12. PointersExact'
  <2>1. DOMAIN live = Out(pool) \cup {<<d, 0>> : d \in blocks}
    BY Exact DEF IInv
  <2>2. DOMAIN live' = Out(pool') \cup {<<d, 0>> : d \in blocks'}
    BY <1>1, <1>9, <2>1
  <2> QED
    BY <2>2, ExactPrimed
<1>13. Coherent'
  BY <1>1, <1>7, OthersCoherent DEF IInv
<1>14. CASE r.ptr = NoPtr
  <2>1. serving(pool, n) = {}
    BY <1>3, <1>14 DEF Served
  <2>2. \A k \in Classes : k >= n => ~canAlloc(pool[k])
    BY <1>2, <2>1 DEF serving, Requests, Classes
  <2> QED
    BY <1>1, <1>4, <1>10, <1>11, <1>12, <1>13, <1>14, <2>2, GoodPrimed DEF IInv, Keeps, n
<1>15. CASE r.ptr # NoPtr
  <2>1. r.ptr \notin Out(pool) /\ r.ptr[1] \in Buffers
    BY <1>3, <1>15 DEF Served, Buffers, isReady
  <2>2. r.ptr \notin DOMAIN live
    BY <2>1, NewPointer
  <2>3. \E k \in Classes : n <= k /\ pool'[k].buffer = r.ptr[1]
    BY <1>3, <1>4, <1>15 DEF Served
  <2>4. Given(r.ptr, n)
    BY <1>1, <1>15, <2>2, <2>3 DEF Given
  <2> QED
    BY <1>1, <1>4, <1>10, <1>11, <1>12, <1>13, <2>4, GoodPrimed DEF IInv, Keeps, n
<1> QED
  BY <1>14, <1>15

\* The first to come back attaches its buffer, and its request is served.
LEMMA AttachFirst ==
    ASSUME IInv, NEW t \in Tasks, Attach(t), ~isReady(pool[req[t].class])
    PROVE  /\ IInv' /\ Keeps
           /\ \E p : Given(p, req[t].size)
<1> DEFINE n == req[t].size
           k == req[t].class
<1>1. n \in Requests /\ k \in Classes /\ pc[t] = "attach" /\ n <= k
  BY ReqFacts DEF IInv, Attach, Coherent
<1>2. PICK c \in Cells : held[t] = {c}
  BY <1>1 DEF IInv, Coherent
<1>3. c \notin sys \cup blocks \cup Buffers /\ \A u \in Tasks \ {t} : c \notin held[u]
  BY <1>2 DEF IInv, BuffersPartitioned
<1>4. \A j \in Classes : pool[j].buffer # c
  BY <1>2, <1>3, CellsAssumption DEF Buffers
<1> DEFINE backed == [pool EXCEPT ![k] = attachBacking(@, c)]
           r == poolAllocInternalLocked(backed, n)
<1>5. (CHOOSE d \in held[t] : TRUE) = c
  BY <1>2
<1>6. /\ UNCHANGED <<blocks, sys>>
      /\ pool' = r.pool /\ live' = IF r.ptr = NoPtr THEN live ELSE With(r.ptr, n)
      /\ held' = [held EXCEPT ![t] = {}]
      /\ r.ptr # NoPtr => Return(t)
  <2> DEFINE d == CHOOSE d \in held[t] : TRUE
             other == [pool EXCEPT ![k] = attachBacking(@, d)]
             q == poolAllocInternalLocked(other, n)
  <2>1. /\ UNCHANGED <<blocks, sys>>
        /\ pool' = q.pool /\ live' = IF q.ptr = NoPtr THEN live ELSE With(q.ptr, n)
        /\ held' = [held EXCEPT ![t] = {}]
        /\ q.ptr # NoPtr => Return(t)
    BY DEF Attach
  <2>2. d = c
    BY <1>5
  <2> HIDE DEF d
  <2>3. q = r
    BY <2>2
  <2> HIDE DEF q, r
  <2> QED
    BY <2>1, <2>3
<1> HIDE DEF n, k
<1>7. Good(pool) /\ ~isReady(pool[k])
  BY DEF IInv, k
<1>8. /\ Good(backed) /\ Out(backed) = Out(pool) /\ canAlloc(backed[k])
      /\ \A j \in Classes : backed[j].buffer = IF j = k THEN c ELSE pool[j].buffer
  BY <1>1, <1>2, <1>4, <1>7, PoolAttaches
<1> HIDE DEF backed
<1>9. Served(backed, n, r)
  BY <1>1, <1>8, PoolsServe
<1>10. serving(backed, n) # {}
  BY <1>1, <1>8 DEF serving
<1> HIDE DEF r
<1>11. /\ Good(pool') /\ r.ptr # NoPtr /\ r.ptr \in Cells \X Nat
       /\ \A j \in Classes : pool'[j].buffer = IF j = k THEN c ELSE pool[j].buffer
       /\ r.ptr \notin Out(pool) /\ Out(pool') = Out(pool) \cup {r.ptr}
       /\ \E j \in Classes : /\ n <= j /\ isReady(backed[j]) /\ r.ptr[1] = backed[j].buffer
                             /\ r.ptr[1] = pool'[j].buffer
  BY <1>6, <1>8, <1>9, <1>10 DEF Served, Slots
<1>12. live' = With(r.ptr, n) /\ Return(t)
  BY <1>6, <1>11
<1>13. /\ DOMAIN live' = DOMAIN live \cup {r.ptr} /\ DOMAIN live' \subseteq Cells \X Nat
       /\ \A q \in DOMAIN live' : live'[q] \in Requests
  BY <1>1, <1>11, <1>12, LiveWith DEF IInv
<1>14. /\ Goto(t, "idle") /\ pc' \in [Tasks -> PcLabels] /\ req' \in [Tasks -> ReqType]
       /\ \A u \in Tasks \ {t} : req'[u] = req[u]
  BY <1>12, ReturnFacts DEF IInv
<1>15. /\ held' \in [Tasks -> SUBSET Cells] /\ held'[t] = {}
       /\ \A u \in Tasks \ {t} : held'[u] = held[u]
  BY <1>6 DEF IInv, TypeOK
<1>16. TypeOK'
  BY <1>6, <1>11, <1>13, <1>14, <1>15 DEF IInv, TypeOK, Good
<1>17. Buffers' = Buffers \cup {c}
  <2>1. c # NoBuffer /\ pool[k].buffer = NoBuffer
    BY <1>2, <1>7, CellsAssumption DEF isReady
  <2>2. ASSUME NEW x \in Buffers' PROVE x \in Buffers \cup {c}
    BY <1>11, <2>2 DEF Buffers
  <2>3. ASSUME NEW x \in Buffers PROVE x \in Buffers'
    <3>1. PICK j \in Classes : pool[j].buffer = x /\ x # NoBuffer
      BY <2>3 DEF Buffers
    <3>2. j # k
      BY <2>1, <3>1
    <3>3. pool'[j].buffer = x
      BY <1>11, <3>1, <3>2
    <3> QED
      BY <3>1, <3>3 DEF Buffers
  <2>4. c \in Buffers'
    BY <1>1, <1>11, <2>1 DEF Buffers
  <2> QED
    BY <2>2, <2>3, <2>4
<1>18. BuffersPartitioned'
  <2>1. Cells = sys' \cup blocks' \cup Buffers' \cup UNION {held'[u] : u \in Tasks}
    <3>1. UNION {held'[u] : u \in Tasks} \subseteq UNION {held[u] : u \in Tasks}
      BY <1>15
    <3>2. UNION {held[u] : u \in Tasks} \subseteq (UNION {held'[u] : u \in Tasks}) \cup {c}
      BY <1>2, <1>15
    <3>3. Cells = sys \cup blocks \cup Buffers \cup UNION {held[u] : u \in Tasks}
      BY DEF IInv, BuffersPartitioned
    <3> QED
      BY <1>2, <1>6, <1>17, <3>1, <3>2, <3>3
  <2>2. /\ sys \cap (blocks \cup Buffers) = {} /\ blocks \cap Buffers = {}
        /\ \A u \in Tasks :
             /\ held[u] \cap (sys \cup blocks \cup Buffers) = {}
             /\ \A v \in Tasks \ {u} : held[u] \cap held[v] = {}
    BY DEF IInv, BuffersPartitioned
  <2>3. sys' \cap (blocks' \cup Buffers') = {} /\ blocks' \cap Buffers' = {}
    BY <1>3, <1>6, <1>17, <2>2
  <2>4. ASSUME NEW u \in Tasks
        PROVE  /\ held'[u] \cap (sys' \cup blocks' \cup Buffers') = {}
               /\ \A v \in Tasks \ {u} : held'[u] \cap held'[v] = {}
    BY <1>3, <1>6, <1>15, <1>17, <2>2
  <2> QED
    BY <1>11, <2>1, <2>3, <2>4 DEF BuffersPartitioned, Good
<1>19. PointersExact'
  <2>1. DOMAIN live = Out(pool) \cup {<<d, 0>> : d \in blocks}
    BY Exact DEF IInv
  <2>2. DOMAIN live' = Out(pool') \cup {<<d, 0>> : d \in blocks'}
    BY <1>6, <1>11, <1>13, <2>1
  <2> QED
    BY <2>2, ExactPrimed
<1>20. Coherent'
  BY <1>14, <1>15, OthersCoherent DEF IInv
<1>21. r.ptr[1] \in Buffers \cup {c}
  <2>1. PICK j \in Classes : isReady(backed[j]) /\ r.ptr[1] = backed[j].buffer
    BY <1>11
  <2>2. CASE j = k
    BY <1>8, <2>1, <2>2
  <2>3. CASE j # k
    <3>1. backed[j].buffer = pool[j].buffer /\ pool[j].buffer # NoBuffer
      BY <1>8, <2>1, <2>3 DEF isReady
    <3> QED
      BY <2>1, <3>1 DEF Buffers
  <2> QED
    BY <2>2, <2>3
<1>22. r.ptr \notin DOMAIN live
  BY <1>3, <1>11, <1>21, NewPointer
<1>23. Given(r.ptr, n) /\ Keeps
  <2>1. pool[k].allocated = {}
    BY <1>1, <1>7 DEF Good, Sound
  <2> QED
    BY <1>6, <1>11, <1>12, <1>22, <2>1 DEF Given, Keeps
<1>24. IInv'
  BY <1>11, <1>16, <1>18, <1>19, <1>20, GoodPrimed DEF IInv
<1> QED
  BY <1>23, <1>24 DEF n

-----------------------------------------------------------------------------
(* The theorems.                                                           *)

LEMMA Inductive == IInv /\ [Next]_vars => IInv'
<1> SUFFICES ASSUME IInv, [Next]_vars PROVE IInv'
  OBVIOUS
<1>1. CASE UNCHANGED vars
  BY <1>1, OnlyPlaces DEF vars, IInv, TypeOK, Coherent
<1>2. CASE Next
  <2>1. PICK t \in Tasks : Call(t) \/ Step(t)
    BY <1>2 DEF Next
  <2>2. CASE Call(t)
    BY <2>2, StepPoolAlloc, StepPoolFree, StepCompactEmptyPools, StepTrimPools DEF Call
  <2>3. CASE Step(t)
    <3>1. CASE Attach(t)
      BY <3>1, AttachLost, AttachFirst
    <3>2. CASE PoolLook(t) \/ PoolChoose(t) \/ AllocateBacking(t) \/ Release(t) \/ HeapAlloc(t)
      BY <3>2, StepPoolLook, StepPoolChoose, StepAllocateBacking, StepRelease, StepHeapAlloc
    <3>3. CASE PoolFreeLocked(t) \/ HeapFree(t)
      BY <3>3, StepPoolFreeLocked, StepHeapFree
    <3> QED
      BY <2>3, <3>1, <3>2, <3>3 DEF Step
  <2> QED
    BY <2>1, <2>2, <2>3
<1> QED
  BY <1>1, <1>2

LEMMA IInvAlways == Spec => []IInv
  BY InitHolds, Inductive, PTL DEF Spec

\* Every pool, buffer, pointer and call stays of its kind.
THEOREM TypeCorrect == Spec => []TypeOK
<1>1. IInv => TypeOK
  BY DEF IInv
<1> QED
  BY IInvAlways, <1>1, PTL

\* The free list, bitmap and counter of every pool agree through detachment,
\* re-creation, frees and compaction (PoolAllocator.h:96-100).
THEOREM PoolsAreSound == Spec => []PoolsSound
<1>1. IInv => PoolsSound
  BY DEF IInv, Good, PoolsSound
<1> QED
  BY IInvAlways, <1>1, PTL

\* However the tasks that re-create, trim and free interleave, every buffer is
\* in one place: none leaks and none is overwritten (ProtoGC.h:953-962).
THEOREM BuffersStayPartitioned == Spec => []BuffersPartitioned
<1>1. IInv => BuffersPartitioned
  BY DEF IInv
<1> QED
  BY IInvAlways, <1>1, PTL

\* What the callers own is what the pools and the heap have given out.
THEOREM PointersStayExact == Spec => []PointersExact
<1>1. IInv => PointersExact
  BY DEF IInv
<1> QED
  BY IInvAlways, <1>1, PTL

-----------------------------------------------------------------------------
(* Re-creating a pool.                                                     *)

\* A step of one task leaves the others where they are.
LEMMA OthersStay ==
    ASSUME TypeOK, NEW u \in Tasks, Call(u) \/ Step(u), NEW t \in Tasks, t # u
    PROVE  pc'[t] = pc[t]
<1>1. pc' = pc \/ \E l : pc' = [pc EXCEPT ![u] = l]
  <2>1. CASE Call(u)
    BY <2>1 DEF Call, PoolAlloc, PoolFree, CompactEmptyPools, TrimPools, Goto
  <2>2. CASE PoolLook(u) \/ PoolChoose(u) \/ AllocateBacking(u) \/ HeapAlloc(u)
    BY <2>2 DEF PoolLook, PoolChoose, AllocateBacking, HeapAlloc, Return, Goto
  <2>3. CASE Attach(u)
    BY <2>3 DEF Attach, Return, Goto
  <2>4. CASE Release(u) \/ PoolFreeLocked(u) \/ HeapFree(u)
    BY <2>4 DEF Release, PoolFreeLocked, HeapFree, Return, Goto
  <2> QED
    BY <2>1, <2>2, <2>3, <2>4 DEF Step
<1> QED
  BY <1>1 DEF TypeOK

\* Only the section that attaches leaves that place.
LEMMA OnlyAttach ==
    ASSUME TypeOK, [Next]_vars, NEW t \in Tasks, pc[t] = "attach", pc'[t] # "attach"
    PROVE  Attach(t)
<1>1. ~UNCHANGED vars
  BY DEF vars
<1>2. PICK u \in Tasks : Call(u) \/ Step(u)
  BY <1>1 DEF Next
<1>3. u = t
  BY <1>2, OthersStay
<1>4. ~Call(t)
  BY DEF Call, PoolAlloc, PoolFree, CompactEmptyPools, TrimPools
<1>5. ~(PoolLook(t) \/ PoolChoose(t) \/ AllocateBacking(t) \/ Release(t) \/ HeapAlloc(t))
  BY DEF PoolLook, PoolChoose, AllocateBacking, Release, HeapAlloc
<1>6. ~(PoolFreeLocked(t) \/ HeapFree(t))
  BY DEF PoolFreeLocked, HeapFree
<1> QED
  BY <1>2, <1>3, <1>4, <1>5, <1>6 DEF Step

\* A re-created pool serves the request it was re-created for; after a lost
\* race the pools fail only when none that fits has a block (ProtoGC.h:944-945).
THEOREM RebeginAlwaysServes == Spec => RebeginServes
<1> DEFINE Serves(t) ==
      pc[t] = "attach" /\ pc'[t] # "attach" =>
         \/ \E p \in DOMAIN live' \ DOMAIN live : live'[p] = req[t].size
         \/ /\ isReady(pool[req[t].class])
            /\ \A k \in Classes : k >= req[t].size => ~canAlloc(pool[k])
<1>1. ASSUME IInv, [Next]_vars, NEW t \in Tasks PROVE Serves(t)
  <2> SUFFICES ASSUME pc[t] = "attach", pc'[t] # "attach"
               PROVE  \/ \E p \in DOMAIN live' \ DOMAIN live : live'[p] = req[t].size
                      \/ /\ isReady(pool[req[t].class])
                         /\ \A k \in Classes : k >= req[t].size => ~canAlloc(pool[k])
    OBVIOUS
  <2>1. Attach(t)
    BY <1>1, OnlyAttach DEF IInv
  <2>2. CASE isReady(pool[req[t].class])
    BY <1>1, <2>1, <2>2, AttachLost, GivenIsNew
  <2>3. CASE ~isReady(pool[req[t].class])
    BY <1>1, <2>1, <2>3, AttachFirst, GivenIsNew
  <2> QED
    BY <2>2, <2>3
<1>2. IInv /\ [Next]_vars => [\A t \in Tasks : Serves(t)]_vars
  BY <1>1
<1> QED
  BY IInvAlways, <1>2, PTL DEF Spec, RebeginServes

-----------------------------------------------------------------------------
(* The contract.                                                           *)

\* Nothing changes hands.
Quiet == live' = live /\ (Keeps \/ pool' = pool)

\* A pointer is given up, if it was anybody's.
GivenUp == (\E p : live' = Without(p)) /\ (Keeps \/ pool' = pool)

GivenOut == (\E p, n : n \in Requests /\ Given(p, n)) /\ Keeps

LEMMA LookKind ==
    ASSUME IInv, NEW t \in Tasks, PoolLook(t)
    PROVE  Quiet \/ GivenOut
<1> DEFINE n == req[t].size
           r == poolAllocInternalLocked(pool, n)
<1>1. n \in Requests
  BY ReqFacts DEF IInv
<1>2. Served(pool, n, r)
  BY <1>1, PoolsServe DEF IInv
<1>3. blocks' = blocks
  BY DEF PoolLook
<1>4. CASE r.ptr = NoPtr
  BY <1>4 DEF PoolLook, Quiet
<1>5. CASE r.ptr # NoPtr
  <2>1. pool' = r.pool /\ live' = With(r.ptr, n)
    BY <1>5 DEF PoolLook
  <2> HIDE DEF r, n
  <2>2. /\ \A k \in Classes : pool'[k].buffer = pool[k].buffer
        /\ r.ptr \notin Out(pool)
        /\ \E k \in Classes : n <= k /\ isReady(pool[k]) /\ r.ptr[1] = pool[k].buffer
    BY <1>2, <1>5, <2>1 DEF Served
  <2>3. r.ptr[1] \in Buffers
    BY <2>2 DEF Buffers, isReady
  <2>4. r.ptr \notin DOMAIN live
    BY <2>2, <2>3, NewPointer
  <2>5. Given(r.ptr, n)
    BY <2>1, <2>2, <2>4 DEF Given
  <2>6. Keeps
    BY <1>3, <2>2 DEF Keeps
  <2> QED
    BY <1>1, <2>5, <2>6 DEF GivenOut
<1> QED
  BY <1>4, <1>5

LEMMA HeapAllocKind ==
    ASSUME IInv, NEW t \in Tasks, HeapAlloc(t)
    PROVE  Quiet \/ GivenOut
<1>1. pool' = pool
  BY DEF HeapAlloc
<1>2. CASE UNCHANGED <<sys, blocks, live>>
  BY <1>1, <1>2 DEF Quiet
<1>3. ASSUME NEW c \in sys, blocks' = blocks \cup {c}, live' = With(<<c, 0>>, req[t].size)
      PROVE  GivenOut
  <2>1. c \notin blocks /\ c \notin Buffers
    BY <1>3 DEF IInv, BuffersPartitioned
  <2>2. <<c, 0>> \notin Out(pool)
    BY <2>1, OutInBuffers
  <2>3. <<c, 0>> \notin DOMAIN live
    BY <2>1, <2>2, NewPointer
  <2>4. Given(<<c, 0>>, req[t].size) /\ Keeps
    BY <1>1, <1>3, <2>3 DEF Given, Keeps
  <2> QED
    BY <2>4, ReqFacts DEF GivenOut, IInv
<1> QED
  BY <1>2, <1>3 DEF HeapAlloc

LEMMA FreeKinds ==
    ASSUME IInv, NEW t \in Tasks, PoolFreeLocked(t) \/ HeapFree(t)
    PROVE  Quiet \/ GivenUp
<1>1. CASE HeapFree(t)
  BY <1>1 DEF HeapFree, Quiet, GivenUp
<1>2. CASE PoolFreeLocked(t)
  <2> DEFINE p == req[t].ptr
             owner == poolsOwning(p)
             k == least(owner)
  <2>1. CASE owner = {}
    BY <1>2, <2>1 DEF PoolFreeLocked, Quiet
  <2>2. CASE owner # {}
    <3>1. pool' = [pool EXCEPT ![k] = free(@, p)] /\ live' = Without(p) /\ blocks' = blocks
      BY <1>2, <2>2 DEF PoolFreeLocked
    <3>2. owner \in SUBSET Nat
      BY DEF poolsOwning, Classes
    <3>3. k \in owner
      BY <2>2, <3>2, LeastIn
    <3> HIDE DEF k
    <3>4. k \in Classes /\ owns(pool[k], p) /\ pool[k] \in PoolType(Cells) /\ Sound(pool[k])
      BY <3>3 DEF poolsOwning, IInv, Good
    <3>5. free(pool[k], p).buffer = pool[k].buffer
      BY <3>4, FreeKeepsSound
    <3>6. \A j \in Classes : pool'[j].buffer = pool[j].buffer
      BY <3>1, <3>4, <3>5 DEF IInv, Good
    <3> QED
      BY <3>1, <3>6 DEF Keeps, GivenUp
  <2> QED
    BY <2>1, <2>2
<1> QED
  BY <1>1, <1>2

LEMMA MaintenanceKinds ==
    ASSUME IInv, NEW t \in Tasks, CompactEmptyPools(t) \/ TrimPools(t)
    PROVE  Quiet
<1>1. live' = live /\ blocks' = blocks
  BY DEF CompactEmptyPools, TrimPools
<1>2. \A k \in Classes : pool[k].allocated # {} => pool'[k].buffer = pool[k].buffer
  <2> SUFFICES ASSUME NEW k \in Classes, pool[k].allocated # {}
               PROVE  pool'[k].buffer = pool[k].buffer
    OBVIOUS
  <2>1. pool[k] \in PoolType(Cells) /\ Sound(pool[k])
    BY DEF IInv, Good
  <2>2. CASE CompactEmptyPools(t)
    <3>1. pool'[k] = resetIfEmpty(pool[k])
      BY <2>2 DEF CompactEmptyPools
    <3> QED
      BY <2>1, <3>1, CompactKeepsSound
  <2>3. CASE TrimPools(t)
    <3>1. pool'[k] = detachIfEmpty(pool[k])
      BY <2>3 DEF TrimPools
    <3> QED
      BY <2>1, <3>1, DetachKeepsSound
  <2> QED
    BY <2>2, <2>3
<1> QED
  BY <1>1, <1>2 DEF Quiet, Keeps

\* What a step of the pools is to the callers.
LEMMA Kinds == IInv /\ [Next]_vars => Quiet \/ GivenOut \/ GivenUp
<1> SUFFICES ASSUME IInv, [Next]_vars PROVE Quiet \/ GivenOut \/ GivenUp
  OBVIOUS
<1>1. CASE UNCHANGED <<pool, live>>
  BY <1>1 DEF Quiet
<1>2. CASE Next /\ ~UNCHANGED <<pool, live>>
  <2>1. PICK t \in Tasks : Call(t) \/ Step(t)
    BY <1>2 DEF Next
  <2>2. CASE Call(t)
    <3>1. CompactEmptyPools(t) \/ TrimPools(t)
      BY <1>2, <2>2 DEF Call, PoolAlloc, PoolFree
    <3> QED
      BY <3>1, MaintenanceKinds
  <2>3. CASE Step(t)
    <3>1. CASE Attach(t)
      <4>1. req[t].size \in Requests
        BY ReqFacts DEF IInv
      <4>2. Keeps /\ (live' = live \/ \E p : Given(p, req[t].size))
        BY <3>1, AttachLost, AttachFirst
      <4> QED
        BY <4>1, <4>2 DEF Quiet, GivenOut
    <3>2. ~(PoolChoose(t) \/ AllocateBacking(t) \/ Release(t))
      BY <1>2 DEF PoolChoose, AllocateBacking, Release
    <3> QED
      BY <2>3, <3>1, <3>2, LookKind, HeapAllocKind, FreeKinds DEF Step
  <2> QED
    BY <2>1, <2>2, <2>3
<1> QED
  BY <1>1, <1>2 DEF vars

\* The memory of a pointer: s units of its class up to s + 1.
Slice(cell, s, unit) == [cell |-> cell, lo |-> s * unit, hi |-> (s + 1) * unit]

\* The extent depends on the pools alone.
extentIn(pools, p) ==
    LET k == {j \in Classes : p[1] = pools[j].buffer}
    IN  Slice(p[1], p[2], IF k = {} THEN ClassCount + 1 ELSE least(k))

LEMMA ExtentIs == \A p : /\ extentOf(p) = extentIn(pool, p)
                         /\ extentOf(p)' = extentIn(pool', p)
  BY DEF extentOf, extentIn, Slice

\* Units are what they should be, and consecutive slices do not overlap.
LEMMA Slices ==
    ASSUME NEW unit \in Nat, NEW s \in Nat, NEW r \in Nat
    PROVE  /\ s * unit \in Nat /\ (s + 1) * unit = s * unit + unit
           /\ s < r => (s + 1) * unit <= r * unit
<1>1. s * unit \in Nat /\ r * unit \in Nat /\ (s + 1) * unit = s * unit + unit
  OBVIOUS
<1>2. ASSUME s < r PROVE (s + 1) * unit <= r * unit
  <2> DEFINE d == r - (s + 1)
  <2>1. d \in Nat /\ r = (s + 1) + d
    BY <1>2
  <2> HIDE DEF d
  <2>2. d * unit \in Nat /\ (s + 1) * unit \in Nat
    BY <2>1
  <2>3. ((s + 1) + d) * unit = (s + 1) * unit + d * unit
    BY <2>1
  <2> QED
    BY <2>1, <2>2, <2>3
<1> QED
  BY <1>1, <1>2

LEMMA SlicesApart ==
    ASSUME NEW c, NEW unit \in Nat, NEW s \in Nat, NEW r \in Nat, s # r
    PROVE  Contract!Disjoint(Slice(c, s, unit), Slice(c, r, unit))
<1>1. CASE s < r
  BY <1>1, Slices DEF Contract!Disjoint, Slice
<1>2. CASE r < s
  BY <1>2, Slices DEF Contract!Disjoint, Slice
<1> QED
  BY <1>1, <1>2

\* A pointer into a pool is a block of the size of its class.
LEMMA ExtentInPool ==
    ASSUME NEW pools, Good(pools), NEW k \in Classes, isReady(pools[k]), NEW p,
           p[1] = pools[k].buffer
    PROVE  extentIn(pools, p) = Slice(p[1], p[2], k)
<1>1. {j \in Classes : p[1] = pools[j].buffer} = {k}
  BY DEF Good, isReady
<1>2. k \in Nat /\ {k} # {}
  BY DEF Classes
<1>3. least({k}) = k
  BY <1>2, LeastIn
<1> QED
  BY <1>1, <1>3 DEF extentIn

LEMMA ExtentInHeap ==
    ASSUME NEW pools, NEW p, \A k \in Classes : pools[k].buffer # p[1]
    PROVE  extentIn(pools, p) = Slice(p[1], p[2], ClassCount + 1)
  BY DEF extentIn

\* What a live pointer is.
LEMMA PointerFacts ==
    ASSUME IInv, NEW p \in DOMAIN live
    PROVE  /\ p \in Cells \X Nat
           /\ \/ \E k \in Classes : /\ isReady(pool[k]) /\ p[1] = pool[k].buffer
                                    /\ pool[k].allocated # {}
                                    /\ extentIn(pool, p) = Slice(p[1], p[2], k)
              \/ /\ p[1] \in blocks /\ p[2] = 0 /\ \A k \in Classes : pool[k].buffer # p[1]
                 /\ extentIn(pool, p) = Slice(p[1], p[2], ClassCount + 1)
<1>1. p \in Cells \X Nat
  BY DEF IInv, TypeOK
<1>2. p \in Out(pool) \/ p \in {<<c, 0>> : c \in blocks}
  BY Exact DEF IInv
<1>3. CASE p \in Out(pool)
  <2>1. PICK k \in Classes : /\ isReady(pool[k])
                             /\ \E s \in pool[k].allocated : p = <<pool[k].buffer, s>>
    BY <1>3, OutFacts DEF IInv
  <2>2. p[1] = pool[k].buffer /\ pool[k].allocated # {} /\ Good(pool)
    BY <2>1 DEF IInv
  <2>3. extentIn(pool, p) = Slice(p[1], p[2], k)
    BY <2>1, <2>2, ExtentInPool
  <2> QED
    BY <1>1, <2>1, <2>2, <2>3
<1>4. CASE p \in {<<c, 0>> : c \in blocks}
  <2>1. p[1] \in blocks /\ p[2] = 0
    BY <1>4
  <2>2. \A k \in Classes : pool[k].buffer # p[1]
    BY <2>1, CellsAssumption DEF IInv, TypeOK, BuffersPartitioned, Buffers
  <2> QED
    BY <1>1, <2>1, <2>2, ExtentInHeap
<1> QED
  BY <1>2, <1>3, <1>4

\* No two live pointers share memory.
LEMMA Apart ==
    ASSUME IInv, NEW p \in DOMAIN live, NEW q \in DOMAIN live, p # q
    PROVE  Contract!Disjoint(extentIn(pool, p), extentIn(pool, q))
<1>1. p \in Cells \X Nat /\ q \in Cells \X Nat
  BY PointerFacts
<1>2. CASE p[1] # q[1]
  BY <1>2 DEF Contract!Disjoint, extentIn, Slice
<1>3. CASE p[1] = q[1]
  <2>1. p[2] # q[2] /\ p[2] \in Nat /\ q[2] \in Nat
    BY <1>1, <1>3
  <2>2. CASE \E k \in Classes : isReady(pool[k]) /\ p[1] = pool[k].buffer
    <3>1. PICK k \in Classes : isReady(pool[k]) /\ p[1] = pool[k].buffer
      BY <2>2
    <3>2. Good(pool) /\ k \in Nat /\ q[1] = pool[k].buffer
      BY <1>3, <3>1 DEF IInv, Classes
    <3>3. extentIn(pool, p) = Slice(p[1], p[2], k) /\ extentIn(pool, q) = Slice(p[1], q[2], k)
      BY <1>3, <3>1, <3>2, ExtentInPool
    <3> QED
      BY <2>1, <3>2, <3>3, SlicesApart
  <2>3. CASE ~\E k \in Classes : isReady(pool[k]) /\ p[1] = pool[k].buffer
    <3>1. p[2] = 0 /\ q[2] = 0
      BY <1>3, <2>3, PointerFacts
    <3> QED
      BY <2>1, <3>1
  <2> QED
    BY <2>2, <2>3
<1> QED
  BY <1>2, <1>3

\* A live pointer stays where it is.
LEMMA ExtentStays ==
    ASSUME IInv, IInv', Keeps \/ pool' = pool, NEW p \in DOMAIN live
    PROVE  extentIn(pool', p) = extentIn(pool, p)
<1>1. CASE pool' = pool
  BY <1>1
<1>2. CASE Keeps
  <2>1. Good(pool')
    BY GoodPrimed DEF IInv
  <2>2. CASE \E k \in Classes : /\ isReady(pool[k]) /\ p[1] = pool[k].buffer
                                /\ pool[k].allocated # {}
                                /\ extentIn(pool, p) = Slice(p[1], p[2], k)
    <3>1. PICK k \in Classes : /\ isReady(pool[k]) /\ p[1] = pool[k].buffer
                               /\ pool[k].allocated # {}
                               /\ extentIn(pool, p) = Slice(p[1], p[2], k)
      BY <2>2
    <3>2. isReady(pool'[k]) /\ p[1] = pool'[k].buffer
      BY <1>2, <3>1 DEF Keeps, isReady
    <3> QED
      BY <2>1, <3>1, <3>2, ExtentInPool
  <2>3. CASE p[1] \in blocks /\ extentIn(pool, p) = Slice(p[1], p[2], ClassCount + 1)
    <3>1. p[1] \in blocks'
      BY <1>2, <2>3 DEF Keeps
    <3>2. \A k \in Classes : pool'[k].buffer # p[1]
      BY <3>1, CellsAssumption DEF IInv, TypeOK, BuffersPartitioned, Buffers
    <3> QED
      BY <2>3, <3>2, ExtentInHeap
  <2> QED
    BY <2>2, <2>3, PointerFacts
<1> QED
  BY <1>1, <1>2

Separated ==
    \A p, q \in DOMAIN live : p # q => Contract!Disjoint(extentIn(pool, p), extentIn(pool, q))

LEMMA SeparatedNext == IInv' => Separated'
<1>1. IInv => Separated
  BY Apart DEF Separated
<1> QED
  BY <1>1, PTL

\* live is a function: what the values of its pointers are is all there is to it.
FunLive == live = [p \in DOMAIN live |-> live[p]]

LEMMA FunLiveNext ==
    ASSUME IInv, FunLive, [Next]_vars
    PROVE  FunLive'
<1>1. live' = live \/ (\E p, n : live' = With(p, n)) \/ (\E p : live' = Without(p))
  BY Kinds DEF Quiet, GivenOut, Given, GivenUp
<1>2. ASSUME NEW p, NEW n, live' = With(p, n) PROVE FunLive'
  BY <1>2 DEF With, FunLive
<1>3. ASSUME NEW p, live' = Without(p) PROVE FunLive'
  BY <1>3 DEF Without, FunLive
<1> QED
  BY <1>1, <1>2, <1>3 DEF FunLive

\* A pointer handed out has the memory that was asked for.
LEMMA Fits ==
    ASSUME IInv, IInv', NEW p, NEW n \in Requests, Given(p, n)
    PROVE  Contract!Holds(extentIn(pool', p), n)
<1>1. p \in DOMAIN live'
  BY GivenIsNew
<1>2. p[1] \in Cells /\ p[2] \in Nat /\ Good(pool')
  BY <1>1, GoodPrimed DEF IInv, TypeOK
<1>3. n \in Nat /\ ClassCount + 1 \in Nat /\ n <= ClassCount + 1
  BY ClassCountAssumption DEF Requests
<1>4. CASE \E k \in Classes : n <= k /\ pool'[k].buffer = p[1]
  <2>1. PICK k \in Classes : n <= k /\ pool'[k].buffer = p[1]
    BY <1>4
  <2>2. isReady(pool'[k]) /\ k \in Nat
    BY <1>2, <2>1, CellsAssumption DEF isReady, Classes
  <2>3. extentIn(pool', p) = Slice(p[1], p[2], k)
    BY <1>2, <2>1, <2>2, ExtentInPool
  <2> QED
    BY <1>2, <1>3, <2>1, <2>2, <2>3, Slices DEF Contract!Holds, Slice
<1>5. CASE p[1] \in blocks'
  <2>1. \A k \in Classes : pool'[k].buffer # p[1]
    BY <1>5, CellsAssumption DEF IInv, TypeOK, BuffersPartitioned, Buffers
  <2>2. extentIn(pool', p) = Slice(p[1], p[2], ClassCount + 1)
    BY <2>1, ExtentInHeap
  <2> QED
    BY <1>2, <1>3, <2>2, Slices DEF Contract!Holds, Slice
<1> QED
  BY <1>4, <1>5 DEF Given

\* Every step of the pools is one of the contract, or none.
LEMMA ContractStep ==
    ASSUME IInv, IInv', FunLive, [Next]_vars
    PROVE  [Contract!ContractNext]_(Contract!cvars)
<1> DEFINE E == [p \in DOMAIN live |-> extentOf(p)]
           F == [p \in DOMAIN live' |-> extentIn(pool', p)]
<1>1. E' = F /\ E = [p \in DOMAIN live |-> extentIn(pool, p)]
  BY ExtentIs
<1>2. CASE live' = live /\ (Keeps \/ pool' = pool)
  <2>1. F = E
    BY <1>1, <1>2, ExtentStays
  <2> QED
    BY <1>1, <1>2, <2>1 DEF Contract!cvars
<1>3. ASSUME NEW p, NEW n \in Requests, Given(p, n), Keeps
      PROVE  Contract!ContractNext
  <2>1. /\ p \notin DOMAIN live /\ live' = With(p, n) /\ p \in DOMAIN live' /\ live'[p] = n
        /\ DOMAIN live' = DOMAIN live \cup {p}
    BY <1>3, GivenIsNew DEF Given, With
  <2>2. Contract!Holds(F[p], n)
    BY <1>3, <2>1, Fits
  <2>3. \A q \in DOMAIN live : F[q] = E[q]
    BY <1>1, <1>3, <2>1, ExtentStays
  <2>4. \A q \in DOMAIN E : Contract!Disjoint(E[q], F[p])
    <3> SUFFICES ASSUME NEW q \in DOMAIN live PROVE Contract!Disjoint(F[q], F[p])
      BY <2>3
    <3>1. q \in DOMAIN live' /\ q # p
      BY <2>1
    <3> QED
      BY <2>1, <3>1, SeparatedNext DEF Separated
  <2>5. live' = Contract!Put(live, p, n)
    BY <2>1 DEF With, Contract!Put
  <2>6. F = Contract!Put(E, p, F[p])
    BY <2>1, <2>3 DEF Contract!Put
  <2>7. Contract!Alloc(p, live'[p], E'[p])
    BY <1>1, <2>1, <2>2, <2>4, <2>5, <2>6 DEF Contract!Alloc, Contract!Give
  <2> QED
    BY <2>1, <2>7 DEF Contract!ContractNext
<1>4. ASSUME NEW p, live' = Without(p), Keeps \/ pool' = pool
      PROVE  [Contract!ContractNext]_(Contract!cvars)
  <2>1. CASE p \notin DOMAIN live
    <3>1. live' = live
      BY <1>4, <2>1 DEF Without, FunLive
    <3> QED
      BY <1>2, <1>4, <3>1
  <2>2. CASE p \in DOMAIN live
    <3>1. live' = Contract!Drop(live, p) /\ DOMAIN live' = DOMAIN live \ {p}
      BY <1>4 DEF Without, Contract!Drop
    <3>2. F = Contract!Drop(E, p)
      BY <1>1, <1>4, <3>1, ExtentStays DEF Contract!Drop
    <3>3. Contract!Free(p)
      BY <1>1, <2>2, <3>1, <3>2 DEF Contract!Free
    <3> QED
      BY <2>2, <3>3 DEF Contract!ContractNext
  <2> QED
    BY <2>1, <2>2
<1> QED
  BY <1>2, <1>3, <1>4, Kinds DEF Quiet, GivenOut, GivenUp

\* poolAlloc and poolFree keep the promise every caller relies on: a pointer
\* has the memory that was asked for, nobody else's, and does not move while it
\* is live, whatever pools are compacted, trimmed or re-created meanwhile.
THEOREM PoolsKeepContract == Spec => KeepsContract
<1>1. Init => Contract!ContractInit /\ FunLive
  BY DEF Init, Contract!ContractInit, FunLive
<1>2. IInv /\ FunLive /\ [Next]_vars => FunLive'
  BY FunLiveNext
<1>3. IInv /\ IInv' /\ FunLive /\ [Next]_vars => [Contract!ContractNext]_(Contract!cvars)
  BY ContractStep
<1> QED
  BY <1>1, <1>2, <1>3, IInvAlways, PTL DEF Spec, KeepsContract, Contract!ContractSpec
=============================================================================
