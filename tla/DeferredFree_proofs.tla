------------------------ MODULE DeferredFree_proofs ------------------------
(***************************************************************************)
(* The ring of DeferredFree loses and repeats nothing and implements the   *)
(* bounded queue of DeferredQueue, for every number of slots, tasks and    *)
(* pointers.                                                               *)
(***************************************************************************)
EXTENDS DeferredFree, FiniteSetTheorems, SequenceTheorems, TLAPS

-----------------------------------------------------------------------------
(* Indices modulo the number of slots.                                     *)

\* The slot of the i-th oldest record of a ring whose tail is at tl.
at(tl, i) == (tl + i - 1) % Slots

\* An index that ran past the last slot wraps around once.
LEMMA Wrap ==
    \A a \in 0..(2 * Slots - 1) :
        /\ a % Slots = IF a < Slots THEN a ELSE a - Slots
        /\ a % Slots \in 0..(Slots - 1)
  BY SlotsAssumption

\* The slots from the tail on are slots of the ring, all different.
LEMMA SlotsApart ==
    ASSUME NEW tl \in 0..(Slots - 1)
    PROVE  /\ at(tl, 1) = tl
           /\ \A i \in 1..Slots : at(tl, i) \in 0..(Slots - 1)
           /\ \A i, j \in 1..Slots : at(tl, i) = at(tl, j) => i = j
<1>1. \A i \in 1..Slots : /\ tl + i - 1 \in 0..(2 * Slots - 1)
                          /\ at(tl, i) = IF tl + i - 1 < Slots THEN tl + i - 1 ELSE tl + i - 1 - Slots
  BY SlotsAssumption, Wrap DEF at
<1> QED
  BY <1>1, SlotsAssumption

\* Where head and tail stand after one more record and after one less.
LEMMA SlotsMove ==
    ASSUME NEW tl \in 0..(Slots - 1), NEW n \in 0..Slots
    PROVE  /\ next(tl) \in 0..(Slots - 1)
           /\ n < Slots => /\ (tl + n) % Slots = at(tl, n + 1)
                           /\ next((tl + n) % Slots) = (tl + (n + 1)) % Slots
           /\ n > 0 => (next(tl) + (n - 1)) % Slots = (tl + n) % Slots
           /\ \A i \in 1..(Slots - 1) : at(next(tl), i) = at(tl, i + 1)
<1> DEFINE wrap(a) == IF a < Slots THEN a ELSE a - Slots
<1>1. \A a \in 0..(2 * Slots - 1) : a % Slots = wrap(a)
  BY Wrap
<1>2. next(tl) = wrap(tl + 1) /\ next(tl) \in 0..(Slots - 1)
  <2>1. tl + 1 \in 0..(2 * Slots - 1)
    BY SlotsAssumption
  <2> QED
    BY <1>1, <2>1, SlotsAssumption DEF next
<1>3. n < Slots => /\ (tl + n) % Slots = at(tl, n + 1)
                   /\ next((tl + n) % Slots) = (tl + (n + 1)) % Slots
  <2> SUFFICES ASSUME n < Slots
               PROVE  /\ (tl + n) % Slots = at(tl, n + 1)
                      /\ next((tl + n) % Slots) = (tl + (n + 1)) % Slots
    OBVIOUS
  <2>1. tl + n \in 0..(2 * Slots - 1) /\ tl + (n + 1) \in 0..(2 * Slots - 1)
    BY SlotsAssumption
  <2>2. (tl + n) % Slots = wrap(tl + n) /\ (tl + (n + 1)) % Slots = wrap(tl + (n + 1))
    BY <1>1, <2>1
  <2>3. wrap(tl + n) \in 0..(Slots - 1) /\ wrap(tl + n) + 1 \in 0..(2 * Slots - 1)
    BY SlotsAssumption
  <2>4. next(wrap(tl + n)) = wrap(wrap(tl + n) + 1)
    BY <1>1, <2>3 DEF next
  <2>5. wrap(wrap(tl + n) + 1) = wrap(tl + (n + 1))
    BY SlotsAssumption
  <2>6. tl + (n + 1) - 1 = tl + n
    BY SlotsAssumption
  <2> QED
    BY <2>2, <2>4, <2>5, <2>6 DEF at
<1>4. ASSUME n > 0 PROVE (next(tl) + (n - 1)) % Slots = (tl + n) % Slots
  <2>1. /\ next(tl) + (n - 1) \in 0..(2 * Slots - 1)
        /\ tl + n \in 0..(2 * Slots - 1)
    BY <1>2, <1>4, SlotsAssumption
  <2>2. wrap(next(tl) + (n - 1)) = wrap(tl + n)
    BY <1>2, <1>4, SlotsAssumption
  <2> QED
    BY <1>1, <2>1, <2>2
<1>5. ASSUME NEW i \in 1..(Slots - 1) PROVE at(next(tl), i) = at(tl, i + 1)
  <2>1. /\ next(tl) + i - 1 \in 0..(2 * Slots - 1)
        /\ tl + (i + 1) - 1 \in 0..(2 * Slots - 1)
    BY <1>2, SlotsAssumption
  <2>2. wrap(next(tl) + i - 1) = wrap(tl + (i + 1) - 1)
    BY <1>2, SlotsAssumption
  <2> QED
    BY <1>1, <2>1, <2>2 DEF at
<1> QED
  BY <1>2, <1>3, <1>4, <1>5

-----------------------------------------------------------------------------
(* The ring.                                                               *)

RingType ==
    /\ ring \in [0..(Slots - 1) -> Records \cup {Empty}]
    /\ head \in 0..(Slots - 1) /\ tail \in 0..(Slots - 1) /\ count \in 0..Slots

\* What the calls queue are records, and none looks like an empty slot.
LEMMA RecordFacts ==
    /\ \A r \in Records : r.ptr \in Pointers /\ r # Empty
    /\ \A p \in HeapPtrs \cup RawPtrs : Record(p, "HeapCaps") \in Records
    /\ \A p \in HeapPtrs \cup PoolPtrs : Record(p, "Pool") \in Records
    /\ \A p, k : Record(p, k).ptr = p
<1>1. Empty.ptr = NoPtr
  BY DEF Empty, Record
<1>2. \A r \in Records : r.ptr \in Pointers
  BY DEF Records, Pointers
<1> QED
  BY <1>1, <1>2, NoPtrAssumption DEF Record, Records

\* The queue the ring holds is a sequence of records.
LEMMA QueueFacts ==
    ASSUME RingType, RingSound
    PROVE  /\ queue = [i \in 1..count |-> ring[at(tail, i)]]
           /\ \A i \in 1..count : queue[i] = ring[at(tail, i)] /\ queue[i] \in Records
           /\ count > 0 => queue[1] = ring[tail]
           /\ {i \in 0..(Slots - 1) : ring[i] # Empty} = {at(tail, i) : i \in 1..count}
<1>1. \A i : slot(i) = at(tail, i)
  BY DEF slot, at
<1>2. /\ queue = [i \in 1..count |-> ring[at(tail, i)]]
      /\ {i \in 0..(Slots - 1) : ring[i] # Empty} = {at(tail, i) : i \in 1..count}
  BY <1>1 DEF queue, RingSound
<1>3. \A i \in 1..count : i \in 1..Slots
  BY SlotsAssumption DEF RingType
<1>4. \A i \in 1..count : at(tail, i) \in 0..(Slots - 1)
  BY <1>3, SlotsApart DEF RingType
<1>5. \A i \in 1..count : ring[at(tail, i)] # Empty
  BY <1>2
<1>6. \A i \in 1..count : queue[i] = ring[at(tail, i)]
  BY <1>2
<1>7. count > 0 => queue[1] = ring[tail]
  <2>1. at(tail, 1) = tail
    BY SlotsApart DEF RingType
  <2>2. count > 0 => 1 \in 1..count
    BY DEF RingType
  <2> QED
    BY <1>6, <2>1, <2>2
<1> QED
  BY <1>2, <1>4, <1>5, <1>6, <1>7 DEF RingType

\* A push writes behind the latest record.
LEMMA PushRing ==
    ASSUME RingType, RingSound, count < Slots, NEW r \in Records,
           ring' = [ring EXCEPT ![head] = r], head' = next(head),
           count' = count + 1, tail' = tail
    PROVE  /\ RingType' /\ RingSound'
           /\ queue' = [i \in 1..(count + 1) |-> IF i = count + 1 THEN r ELSE queue[i]]
<1>0. count \in Nat /\ count + 1 \in 1..Slots /\ \A i \in 1..count : i \in 1..Slots /\ i # count + 1
  BY SlotsAssumption DEF RingType
<1>1. head = at(tail, count + 1) /\ head' = (tail + (count + 1)) % Slots /\ head' \in 0..(Slots - 1)
  <2>1. head = at(tail, count + 1)
    BY SlotsMove DEF RingType, RingSound
  <2>2. next(head) = (tail + (count + 1)) % Slots
    BY SlotsMove DEF RingType, RingSound
  <2>3. next(head) \in 0..(Slots - 1)
    BY <1>0, SlotsMove DEF RingType
  <2> QED
    BY <2>1, <2>2, <2>3
<1>2. \A i \in 1..count : at(tail, i) # head /\ at(tail, i) \in 0..(Slots - 1)
  BY <1>0, <1>1, SlotsApart DEF RingType
<1>3. /\ ring' \in [0..(Slots - 1) -> Records \cup {Empty}] /\ ring'[head] = r
      /\ \A i \in 0..(Slots - 1) : i # head => ring'[i] = ring[i]
  BY DEF RingType
<1>4. RingType'
  BY <1>0, <1>1, <1>3 DEF RingType
<1>5. r # Empty
  BY RecordFacts
<1>6. {i \in 0..(Slots - 1) : ring'[i] # Empty} = {at(tail, i) : i \in 1..(count + 1)}
  <2>1. {i \in 0..(Slots - 1) : ring'[i] # Empty}
          = {i \in 0..(Slots - 1) : ring[i] # Empty} \cup {head}
    BY <1>3, <1>5 DEF RingType
  <2>2. {at(tail, i) : i \in 1..(count + 1)} = {at(tail, i) : i \in 1..count} \cup {at(tail, count + 1)}
    BY <1>0
  <2> QED
    BY <1>1, <2>1, <2>2, QueueFacts
<1>7. RingSound'
  <2>1. \A i : slot(i)' = at(tail, i)
    BY DEF slot, at
  <2> QED
    BY <1>1, <1>6, <2>1 DEF RingSound
<1>8. queue' = [i \in 1..(count + 1) |-> IF i = count + 1 THEN r ELSE queue[i]]
  <2>1. queue' = [i \in 1..(count + 1) |-> ring'[at(tail, i)]]
    BY DEF queue, slot, at
  <2>2. \A i \in 1..(count + 1) : ring'[at(tail, i)] = IF i = count + 1 THEN r ELSE queue[i]
    BY <1>0, <1>1, <1>2, <1>3, QueueFacts
  <2> QED
    BY <2>1, <2>2
<1> QED
  BY <1>4, <1>7, <1>8

\* A pop takes the oldest record and clears its slot.
LEMMA PopRing ==
    ASSUME RingType, RingSound, count # 0,
           ring' = [ring EXCEPT ![tail] = Empty], tail' = next(tail),
           count' = count - 1, head' = head
    PROVE  /\ RingType' /\ RingSound' /\ ring[tail] = queue[1]
           /\ queue' = [i \in 1..(count - 1) |-> queue[i + 1]]
<1>0. /\ count \in Nat /\ count > 0 /\ count - 1 \in 0..Slots
      /\ \A i \in 1..(count - 1) : /\ i \in 1..(Slots - 1) /\ i + 1 \in 1..count
                                   /\ i + 1 \in 1..Slots
      /\ \A j \in 1..count : j \in 1..Slots /\ (j # 1 => j - 1 \in 1..(count - 1))
      /\ 1 \in 1..Slots
  BY SlotsAssumption DEF RingType
<1>1. /\ next(tail) \in 0..(Slots - 1)
      /\ head = (next(tail) + (count - 1)) % Slots
      /\ \A i \in 1..(Slots - 1) : at(next(tail), i) = at(tail, i + 1)
  BY <1>0, SlotsMove DEF RingType, RingSound
<1>2. at(tail, 1) = tail /\ \A j \in 1..count : j # 1 => at(tail, j) # tail
  BY <1>0, SlotsApart DEF RingType
<1>3. /\ ring' \in [0..(Slots - 1) -> Records \cup {Empty}] /\ ring'[tail] = Empty
      /\ \A i \in 0..(Slots - 1) : i # tail => ring'[i] = ring[i]
  BY DEF RingType
<1>4. RingType'
  BY <1>0, <1>1, <1>3 DEF RingType
<1>5. {i \in 0..(Slots - 1) : ring'[i] # Empty} = {at(next(tail), i) : i \in 1..(count - 1)}
  <2>1. {i \in 0..(Slots - 1) : ring'[i] # Empty}
          = {i \in 0..(Slots - 1) : ring[i] # Empty} \ {tail}
    BY <1>3
  <2>2. {at(tail, j) : j \in 1..count} \ {tail} = {at(tail, i + 1) : i \in 1..(count - 1)}
    <3>1. ASSUME NEW j \in 1..count, at(tail, j) # tail
          PROVE  \E i \in 1..(count - 1) : at(tail, j) = at(tail, i + 1)
      <4>1. j # 1 /\ j = (j - 1) + 1 /\ j - 1 \in 1..(count - 1)
        BY <1>0, <1>2, <3>1
      <4> QED
        BY <4>1
    <3>2. ASSUME NEW i \in 1..(count - 1)
          PROVE  i + 1 \in 1..count /\ at(tail, i + 1) # tail
      BY <1>0, <1>2
    <3> QED
      BY <3>1, <3>2
  <2>3. {at(next(tail), i) : i \in 1..(count - 1)} = {at(tail, i + 1) : i \in 1..(count - 1)}
    BY <1>0, <1>1
  <2> QED
    BY <2>1, <2>2, <2>3, QueueFacts
<1>6. RingSound'
  <2>1. \A i : slot(i)' = at(next(tail), i)
    BY DEF slot, at
  <2> QED
    BY <1>1, <1>5, <2>1 DEF RingSound
<1>7. queue' = [i \in 1..(count - 1) |-> queue[i + 1]]
  <2>1. queue' = [i \in 1..(count - 1) |-> ring'[at(next(tail), i)]]
    BY DEF queue, slot, at
  <2>2. ASSUME NEW i \in 1..(count - 1) PROVE ring'[at(next(tail), i)] = queue[i + 1]
    <3>1. at(next(tail), i) = at(tail, i + 1) /\ at(tail, i + 1) # tail
      BY <1>0, <1>1, <1>2
    <3>2. at(tail, i + 1) \in 0..(Slots - 1)
      BY <1>0, SlotsApart DEF RingType
    <3> QED
      BY <1>0, <1>3, <3>1, <3>2, QueueFacts
  <2> QED
    BY <2>1, <2>2
<1>8. ring[tail] = queue[1]
  BY <1>0, QueueFacts
<1> QED
  BY <1>4, <1>6, <1>7, <1>8

-----------------------------------------------------------------------------
(* The invariant: every property the runs check, and what it needs of the  *)
(* records in the hands of the drains.                                     *)

HandsFull == \A t \in Tasks : pc[t] = "free" => item[t] \in Records

IInv == TypeOK /\ RingSound /\ ExactlyOnce /\ LossCounted /\ HandsFull /\ IsFiniteSet(lost)

\* What no producer touches, and no drain but for its own task.
OtherTypes ==
    /\ pc \in [Tasks -> {"idle", "pop", "free"}]
    /\ limit \in [Tasks -> {0, PollLimit}] /\ left \in [Tasks -> 0..PollLimit]
    /\ item \in [Tasks -> Records \cup {Empty}]
    /\ live \subseteq Pointers /\ back \subseteq Pointers
    /\ lost \subseteq Pointers /\ leaked \subseteq Pointers /\ overflow \in Nat

\* The type invariant is that of the ring and that of the rest.
LEMMA Types == TypeOK <=> RingType /\ OtherTypes
  BY DEF TypeOK, RingType, OtherTypes

Distinct(q, n) == \A i, j \in 1..n : q[i].ptr = q[j].ptr => i = j
HandsDistinct ==
    \A t, u \in Tasks : pc[t] = "free" /\ pc[u] = "free" /\ item[t].ptr = item[u].ptr => t = u

\* The places a pointer can be in, as sets.
Apart(l, q, h, b, x, k) ==
    /\ Pointers = l \cup q \cup h \cup b \cup x \cup k
    /\ l \cap (q \cup h \cup b \cup x \cup k) = {}
    /\ q \cap (h \cup b \cup x \cup k) = {}
    /\ h \cap (b \cup x \cup k) = {}
    /\ b \cap (x \cup k) = {} /\ x \cap k = {}

\* ExactlyOnce, cut into what the steps change separately.
LEMMA Parts ==
    ExactlyOnce <=> /\ Apart(live, queued, inHand, back, lost, leaked)
                    /\ Distinct(queue, count) /\ HandsDistinct
  BY DEF ExactlyOnce, Apart, Distinct, HandsDistinct

\* Steps that leave the ring alone.
LEMMA RingStays ==
    ASSUME UNCHANGED <<ring, head, tail, count>>
    PROVE  /\ RingType' = RingType /\ RingSound' = RingSound
           /\ queue' = queue /\ queued' = queued
           /\ Distinct(queue, count)' = Distinct(queue, count)
<1>1. queue' = queue
  BY DEF queue, slot
<1>2. queued' = queued
  BY <1>1 DEF queued
<1>3. RingType' = RingType
  BY DEF RingType
<1>4. RingSound' = RingSound
  BY DEF RingSound, slot
<1>5. Distinct(queue, count)' = Distinct(queue, count)
  BY <1>1 DEF Distinct
<1> QED
  BY <1>1, <1>2, <1>3, <1>4, <1>5

\* Steps in which no drain takes or gives up a record.
LEMMA HandsStay ==
    ASSUME UNCHANGED item, \A t \in Tasks : pc'[t] = "free" <=> pc[t] = "free"
    PROVE  inHand' = inHand /\ (HandsDistinct => HandsDistinct') /\ (HandsFull => HandsFull')
  BY DEF inHand, HandsDistinct, HandsFull

\* The invariant holds before the first free.
LEMMA InitHolds == Init => IInv
<1> SUFFICES ASSUME Init PROVE IInv
  OBVIOUS
<1>1. count = 0 /\ tail = 0 /\ head = 0 /\ overflow = 0 /\ RingType
  BY SlotsAssumption DEF Init, RingType
<1>2. OtherTypes
  <2>1. 0 \in 0..PollLimit
    BY PollLimitAssumption
  <2> QED
    BY <2>1 DEF Init, OtherTypes
<1>3. 1..count = {}
  BY <1>1
<1>4. RingSound
  <2>1. (tail + count) % Slots = 0
    BY <1>1, Wrap, SlotsAssumption
  <2> QED
    BY <1>1, <1>3, <2>1 DEF Init, RingSound
<1>5. queued = {} /\ inHand = {} /\ Distinct(queue, count) /\ HandsDistinct /\ HandsFull
  BY <1>3 DEF Init, queued, inHand, Distinct, HandsDistinct, HandsFull
<1>6. ExactlyOnce
  BY <1>5, Parts DEF Init, Apart
<1>7. LossCounted /\ IsFiniteSet(lost)
  BY <1>1, FS_EmptySet DEF Init, LossCounted
<1> QED
  BY <1>1, <1>2, <1>4, <1>5, <1>6, <1>7, Types DEF IInv

\* Allocations and frees that do not go through the ring.
LEMMA ProducersKeep ==
    ASSUME IInv, NEW p \in Pointers, Alloc(p) \/ FreeNow(p)
    PROVE  IInv'
<1>1. /\ UNCHANGED <<ring, head, tail, count, overflow, pc, limit, left, item, lost, leaked>>
      /\ \/ p \in back /\ back' = back \ {p} /\ live' = live \cup {p}
         \/ p \in live /\ live' = live \ {p} /\ back' = back \cup {p}
  BY DEF Alloc, FreeNow, ringVars, drainVars
<1>2. OtherTypes'
  BY <1>1, Types DEF IInv, OtherTypes
<1>3. /\ RingType' /\ RingSound' /\ queued' = queued /\ inHand' = inHand
      /\ Distinct(queue, count)' /\ HandsDistinct' /\ HandsFull'
  BY <1>1, RingStays, HandsStay, Types, Parts DEF IInv
<1>4. Apart(live, queued, inHand, back, lost, leaked)'
  <2>1. Apart(live, queued, inHand, back, lost, leaked)
    BY Parts DEF IInv
  <2>2. Apart(live', queued, inHand, back', lost, leaked)
    BY <1>1, <2>1 DEF Apart
  <2> QED
    BY <1>1, <1>3, <2>2 DEF Apart
<1>5. LossCounted' /\ IsFiniteSet(lost)'
  BY <1>1 DEF IInv, LossCounted
<1>6. ExactlyOnce'
  BY <1>3, <1>4 DEF ExactlyOnce, Apart, Distinct, HandsDistinct
<1>7. TypeOK'
  BY <1>2, <1>3 DEF TypeOK, RingType, OtherTypes
<1> QED
  BY <1>3, <1>5, <1>6, <1>7 DEF IInv

\* The parts, for the next state.
LEMMA Assemble ==
    ASSUME RingType', OtherTypes', RingSound', HandsFull',
           Apart(live', queued', inHand', back', lost', leaked'),
           Distinct(queue', count'), HandsDistinct', LossCounted', IsFiniteSet(lost')
    PROVE  IInv'
<1>1. TypeOK'
  BY DEF TypeOK, RingType, OtherTypes
<1>2. ExactlyOnce'
  BY DEF ExactlyOnce, Apart, Distinct, HandsDistinct
<1> QED
  BY <1>1, <1>2 DEF IInv

\* deferFree accepts the pointer or refuses it.
LEMMA DeferFreeKeeps ==
    ASSUME IInv, NEW p, NEW k, Record(p, k) \in Records, DeferFree(p, k)
    PROVE  IInv'
<1> DEFINE r == Record(p, k)
<1>0. /\ p \in live /\ live' = live \ {p} /\ p \in Pointers /\ r.ptr = p /\ r \in Records
      /\ UNCHANGED <<tail, pc, limit, left, item, back, leaked>>
  BY RecordFacts DEF DeferFree, drainVars
<1>1. /\ RingType /\ OtherTypes /\ RingSound /\ HandsFull /\ LossCounted /\ IsFiniteSet(lost)
      /\ Apart(live, queued, inHand, back, lost, leaked) /\ Distinct(queue, count) /\ HandsDistinct
  BY Types, Parts DEF IInv
<1>2. inHand' = inHand /\ HandsDistinct' /\ HandsFull'
  BY <1>0, <1>1, HandsStay
<1>3. CASE count >= Slots
  <2>1. /\ overflow' = overflow + 1 /\ lost' = lost \cup {p}
        /\ UNCHANGED <<ring, head, tail, count>>
    BY <1>0, <1>3 DEF DeferFree
  <2>2. RingType' /\ RingSound' /\ queued' = queued /\ Distinct(queue', count')
    <3>1. RingType' /\ RingSound' /\ queued' = queued /\ queue' = queue
      BY <1>1, <2>1, RingStays
    <3> QED
      BY <1>1, <2>1, <3>1
  <2>3. OtherTypes'
    BY <1>0, <1>1, <2>1 DEF OtherTypes
  <2>4. Apart(live', queued', inHand', back', lost', leaked')
    BY <1>0, <1>1, <1>2, <2>1, <2>2 DEF Apart
  <2>5. LossCounted' /\ IsFiniteSet(lost')
    <3>1. p \notin lost
      BY <1>0, <1>1 DEF Apart
    <3>2. Cardinality(lost \cup {p}) = Cardinality(lost) + 1 /\ IsFiniteSet(lost \cup {p})
      BY <1>1, <3>1, FS_AddElement
    <3> QED
      BY <1>0, <1>1, <2>1, <3>2 DEF LossCounted
  <2> QED
    BY <1>2, <2>2, <2>3, <2>4, <2>5, Assemble
<1>4. CASE count < Slots
  <2>1. /\ ring' = [ring EXCEPT ![head] = r] /\ head' = next(head) /\ count' = count + 1
        /\ UNCHANGED <<overflow, lost>>
    <3>1. ~(count >= Slots)
      BY <1>1, <1>4, SlotsAssumption DEF RingType
    <3> QED
      BY <3>1 DEF DeferFree
  <2> HIDE DEF r
  <2>2. /\ RingType' /\ RingSound'
        /\ queue' = [i \in 1..(count + 1) |-> IF i = count + 1 THEN r ELSE queue[i]]
    BY <1>0, <1>1, <1>4, <2>1, PushRing
  <2>3. count \in Nat /\ 1..(count + 1) = 1..count \cup {count + 1} /\ count + 1 \notin 1..count
    BY <1>1 DEF RingType
  <2>4. queued' = queued \cup {p}
    <3>1. queued' = {queue'[i].ptr : i \in 1..(count + 1)}
      BY <2>1 DEF queued
    <3>2. queue'[count + 1] = r /\ \A i \in 1..count : queue'[i] = queue[i]
      BY <2>2, <2>3
    <3> QED
      BY <1>0, <2>3, <3>1, <3>2 DEF queued
  <2>5. Distinct(queue', count')
    <3>1. \A i \in 1..count : queue[i].ptr # p
      BY <1>0, <1>1 DEF Apart, queued
    <3>2. queue'[count + 1] = r /\ \A i \in 1..count : queue'[i] = queue[i]
      BY <2>2, <2>3
    <3> QED
      BY <1>0, <1>1, <2>1, <2>3, <3>1, <3>2 DEF Distinct
  <2>6. OtherTypes'
    BY <1>0, <1>1, <2>1 DEF OtherTypes
  <2>7. Apart(live', queued', inHand', back', lost', leaked')
    BY <1>0, <1>1, <1>2, <2>1, <2>4 DEF Apart
  <2>8. LossCounted' /\ IsFiniteSet(lost')
    BY <1>0, <1>1, <2>1 DEF LossCounted
  <2> QED
    BY <1>2, <2>2, <2>5, <2>6, <2>7, <2>8, Assemble
<1> QED
  BY <1>1, <1>3, <1>4, SlotsAssumption DEF RingType

\* Beginning and ending a drain.
LEMMA DrainsKeep ==
    ASSUME IInv, NEW t \in Tasks,
           (\E max \in {0, PollLimit} : Drain(t, max)) \/ DrainEnd(t)
    PROVE  IInv'
<1>1. PICK l \in {0, PollLimit}, n \in {0, PollLimit}, b \in {"idle", "pop"} :
        /\ pc[t] \in {"idle", "pop"} /\ pc' = [pc EXCEPT ![t] = b]
        /\ limit' = [limit EXCEPT ![t] = l] /\ left' = [left EXCEPT ![t] = n]
        /\ UNCHANGED <<ringVars, item, live, back, lost, leaked>>
  BY DEF Drain, DrainEnd
<1>2. /\ RingType /\ OtherTypes /\ RingSound /\ HandsFull /\ LossCounted /\ IsFiniteSet(lost)
      /\ Apart(live, queued, inHand, back, lost, leaked) /\ Distinct(queue, count) /\ HandsDistinct
  BY Types, Parts DEF IInv
<1>3. OtherTypes'
  BY <1>1, <1>2, PollLimitAssumption DEF OtherTypes, ringVars
<1>4. /\ RingType' /\ RingSound' /\ queue' = queue /\ queued' = queued /\ count' = count
  BY <1>1, <1>2, RingStays DEF ringVars
<1>5. inHand' = inHand /\ HandsDistinct' /\ HandsFull'
  <2>1. \A u \in Tasks : pc'[u] = "free" <=> pc[u] = "free"
    BY <1>1, <1>2 DEF OtherTypes
  <2> QED
    BY <1>1, <1>2, <2>1, HandsStay
<1>6. /\ Apart(live', queued', inHand', back', lost', leaked') /\ Distinct(queue', count')
      /\ LossCounted' /\ IsFiniteSet(lost')
  BY <1>1, <1>2, <1>4, <1>5 DEF LossCounted, ringVars
<1> QED
  BY <1>3, <1>4, <1>5, <1>6, Assemble

\* The record goes from the ring into the hands of one drain.
LEMMA PopKeeps ==
    ASSUME IInv, NEW t \in Tasks, Pop(t)
    PROVE  IInv'
<1>1. /\ pc[t] = "pop" /\ count # 0 /\ pc' = [pc EXCEPT ![t] = "free"]
      /\ item' = [item EXCEPT ![t] = ring[tail]]
      /\ ring' = [ring EXCEPT ![tail] = Empty] /\ tail' = next(tail) /\ count' = count - 1
      /\ UNCHANGED <<head, overflow, limit, left, live, back, lost, leaked>>
  BY DEF Pop, mayPop
<1>2. /\ RingType /\ OtherTypes /\ RingSound /\ HandsFull /\ LossCounted /\ IsFiniteSet(lost)
      /\ Apart(live, queued, inHand, back, lost, leaked) /\ Distinct(queue, count) /\ HandsDistinct
  BY Types, Parts DEF IInv
<1>3. /\ RingType' /\ RingSound' /\ ring[tail] = queue[1]
      /\ queue' = [i \in 1..(count - 1) |-> queue[i + 1]]
  BY <1>1, <1>2, PopRing
<1>4. /\ count \in Nat /\ count > 0 /\ 1 \in 1..count
      /\ \A i \in 1..(count - 1) : i + 1 \in 1..count /\ i + 1 # 1
      /\ \A j \in 1..count : j # 1 => j - 1 \in 1..(count - 1) /\ j = (j - 1) + 1
  BY <1>1, <1>2 DEF RingType
<1>5. queue[1] \in Records /\ queue[1].ptr \in queued
  BY <1>2, <1>4, QueueFacts DEF queued
<1>6. queued' = queued \ {queue[1].ptr}
  <2>1. queued' = {queue'[i].ptr : i \in 1..(count - 1)}
    BY <1>1 DEF queued
  <2>2. \A i \in 1..(count - 1) : queue'[i] = queue[i + 1] /\ queue[i + 1].ptr # queue[1].ptr
    BY <1>2, <1>3, <1>4 DEF Distinct
  <2>3. queued' \subseteq queued \ {queue[1].ptr}
    BY <1>4, <2>1, <2>2 DEF queued
  <2>4. ASSUME NEW j \in 1..count, queue[j].ptr # queue[1].ptr PROVE queue[j].ptr \in queued'
    <3>1. j - 1 \in 1..(count - 1) /\ j = (j - 1) + 1
      BY <1>4, <2>4
    <3>2. queue'[j - 1] = queue[j]
      BY <2>2, <3>1
    <3> QED
      BY <2>1, <3>1, <3>2
  <2> QED
    BY <2>3, <2>4 DEF queued
<1>7. Distinct(queue', count')
  <2>1. \A i \in 1..(count - 1) : queue'[i] = queue[i + 1]
    BY <1>3
  <2>2. \A i, j \in 1..(count - 1) : i + 1 = j + 1 => i = j
    BY <1>4
  <2> QED
    BY <1>1, <1>2, <1>4, <2>1, <2>2 DEF Distinct
<1>8. /\ pc'[t] = "free" /\ item'[t] = queue[1] /\ pc[t] # "free"
      /\ \A u \in Tasks \ {t} : pc'[u] = pc[u] /\ item'[u] = item[u]
  BY <1>1, <1>2, <1>3 DEF OtherTypes
<1>9. inHand' = inHand \cup {queue[1].ptr} /\ queue[1].ptr \notin inHand
  BY <1>2, <1>5, <1>8 DEF inHand, Apart
<1>10. HandsDistinct' /\ HandsFull'
  BY <1>2, <1>5, <1>8, <1>9 DEF HandsDistinct, HandsFull, inHand
<1>11. OtherTypes'
  BY <1>1, <1>2, <1>3, <1>5 DEF OtherTypes
<1>12. Apart(live', queued', inHand', back', lost', leaked')
  BY <1>1, <1>2, <1>5, <1>6, <1>9 DEF Apart
<1>13. LossCounted' /\ IsFiniteSet(lost')
  BY <1>1, <1>2 DEF LossCounted
<1> QED
  BY <1>3, <1>7, <1>10, <1>11, <1>12, <1>13, Assemble

\* The allocators take the pointer back, or a raw pointer is leaked.
LEMMA FreeItemKeeps ==
    ASSUME IInv, NEW t \in Tasks, FreeItem(t)
    PROVE  IInv'
<1> DEFINE p == item[t].ptr
<1>1. /\ pc[t] = "free" /\ pc' = [pc EXCEPT ![t] = "pop"]
      /\ item' = [item EXCEPT ![t] = Empty]
      /\ left' = [left EXCEPT ![t] = IF @ > 0 THEN @ - 1 ELSE 0]
      /\ UNCHANGED <<ring, head, tail, count, overflow, limit, live, lost>>
      /\ \/ takesBack(item[t]) /\ back' = back \cup {p} /\ leaked' = leaked
         \/ ~takesBack(item[t]) /\ leaked' = leaked \cup {p} /\ back' = back
  BY DEF FreeItem, ringVars
<1>2. /\ RingType /\ OtherTypes /\ RingSound /\ HandsFull /\ LossCounted /\ IsFiniteSet(lost)
      /\ Apart(live, queued, inHand, back, lost, leaked) /\ Distinct(queue, count) /\ HandsDistinct
  BY Types, Parts DEF IInv
<1>3. item[t] \in Records /\ p \in Pointers /\ p \in inHand
  BY <1>1, <1>2, RecordFacts DEF HandsFull, inHand
<1>4. ~takesBack(item[t]) => p \in RawPtrs
  BY <1>3 DEF takesBack, Records
<1>5. /\ RingType' /\ RingSound' /\ queue' = queue /\ queued' = queued /\ count' = count
  BY <1>1, <1>2, RingStays
<1>6. /\ pc'[t] = "pop" /\ \A u \in Tasks \ {t} : pc'[u] = pc[u] /\ item'[u] = item[u]
  BY <1>1, <1>2 DEF OtherTypes
<1>7. inHand' = inHand \ {p}
  BY <1>1, <1>2, <1>6 DEF inHand, HandsDistinct
<1>8. HandsDistinct' /\ HandsFull'
  BY <1>2, <1>6 DEF HandsDistinct, HandsFull
<1>9. OtherTypes'
  <2>1. left' \in [Tasks -> 0..PollLimit]
    <3>1. left \in [Tasks -> 0..PollLimit] /\ left[t] \in 0..PollLimit
      BY <1>2 DEF OtherTypes
    <3>2. (IF left[t] > 0 THEN left[t] - 1 ELSE 0) \in 0..PollLimit
      BY <3>1, PollLimitAssumption
    <3> QED
      BY <1>1, <3>1, <3>2
  <2> QED
    BY <1>1, <1>2, <1>3, <2>1 DEF OtherTypes
<1>10. Apart(live', queued', inHand', back', lost', leaked')
  BY <1>1, <1>2, <1>3, <1>5, <1>7 DEF Apart
<1>11. LossCounted' /\ IsFiniteSet(lost')
  BY <1>1, <1>2, <1>4 DEF LossCounted
<1> QED
  BY <1>2, <1>5, <1>8, <1>9, <1>10, <1>11, Assemble

\* A stuttering step keeps the invariant.
LEMMA StutterKeeps ==
    ASSUME IInv, UNCHANGED vars
    PROVE  IInv'
<1>1. /\ UNCHANGED <<ring, head, tail, count, overflow, pc, limit, left, item>>
      /\ UNCHANGED <<live, back, lost, leaked>>
  BY DEF vars, ringVars, drainVars
<1>2. /\ RingType /\ OtherTypes /\ RingSound /\ HandsFull /\ LossCounted /\ IsFiniteSet(lost)
      /\ Apart(live, queued, inHand, back, lost, leaked) /\ Distinct(queue, count) /\ HandsDistinct
  BY Types, Parts DEF IInv
<1>3. /\ RingType' /\ RingSound' /\ queue' = queue /\ queued' = queued
      /\ inHand' = inHand /\ HandsDistinct' /\ HandsFull'
  BY <1>1, <1>2, RingStays, HandsStay
<1>4. OtherTypes' /\ LossCounted'
  BY <1>1, <1>2 DEF OtherTypes, LossCounted
<1> QED
  BY <1>1, <1>2, <1>3, <1>4, Assemble

\* Every step of a handler or a drain keeps the invariant.
LEMMA NextKeeps == IInv /\ [Next]_vars => IInv'
<1> SUFFICES ASSUME IInv, [Next]_vars PROVE IInv'
  OBVIOUS
<1>1. ASSUME Produce PROVE IInv'
  <2>1. PICK p \in Pointers :
          Alloc(p) \/ FreeNow(p) \/ IsrHeapFree(p) \/ IsrPoolFree(p) \/ IsrDelete(p)
    BY <1>1 DEF Produce
  <2>2. CASE Alloc(p) \/ FreeNow(p)
    BY <2>2, ProducersKeep
  <2>3. CASE IsrHeapFree(p) \/ IsrPoolFree(p) \/ IsrDelete(p)
    <3>1. PICK k : DeferFree(p, k) /\ Record(p, k) \in Records
      BY <2>3, RecordFacts DEF IsrHeapFree, IsrPoolFree, IsrDelete
    <3> QED
      BY <3>1, DeferFreeKeeps
  <2> QED
    BY <2>1, <2>2, <2>3
<1>2. ASSUME NEW t \in Tasks, (\E max \in {0, PollLimit} : Drain(t, max)) \/ Consume(t)
      PROVE  IInv'
  BY <1>2, DrainsKeep, PopKeeps, FreeItemKeeps DEF Consume
<1> QED
  BY <1>1, <1>2, StutterKeeps DEF Next

-----------------------------------------------------------------------------
(* The theorems.                                                           *)

\* The invariant holds forever.
LEMMA Inductive == Spec => []IInv
  BY InitHolds, NextKeeps, PTL DEF Spec

\* The indices stay in range, the limit of a poll is respected and the records
\* are ones the calls queue (ProtoGC.h:584-598, 1029-1067).
THEOREM TypeCorrect == Spec => []TypeOK
<1>1. IInv => TypeOK
  BY DEF IInv
<1> QED
  BY <1>1, Inductive, PTL

\* The head, the tail and the count agree through every wrap-around, and the
\* records are exactly in the slots they delimit (ProtoGC.h:1043-1046, 1061-1064).
THEOREM RingIsSound == Spec => []RingSound
<1>1. IInv => RingSound
  BY DEF IInv
<1> QED
  BY <1>1, Inductive, PTL

\* No deferred free is carried out twice or disappears, whatever handlers and
\* drains run between a pop and the free that follows it (ProtoGC.h:584-598).
THEOREM FreedOnce == Spec => []ExactlyOnce
<1>1. IInv => ExactlyOnce
  BY DEF IInv
<1> QED
  BY <1>1, Inductive, PTL

\* Every free the full ring refuses is counted, and nothing else is lost but
\* raw pointers (README.md:257, ProtoGC.h:1035-1042).
THEOREM LossesCounted == Spec => []LossCounted
<1>1. IInv => LossCounted
  BY DEF IInv
<1> QED
  BY <1>1, Inductive, PTL

\* What appending to and taking from a sequence of known length leave in it.
LEMMA AppendIs ==
  ASSUME NEW S, NEW s \in Seq(S), NEW r \in S, NEW n \in Nat, Len(s) = n
  PROVE  Append(s, r) = [i \in 1..(n + 1) |-> IF i = n + 1 THEN r ELSE s[i]]
<1> DEFINE a == Append(s, r)
<1>1. /\ a \in Seq(S) /\ Len(a) = n + 1
      /\ \A i \in 1..n : a[i] = s[i]
      /\ a[n + 1] = r
  BY AppendProperties
<1> HIDE DEF a
<1>2. a \in [1..(n + 1) -> S]
  BY <1>1, LenProperties
<1>3. ASSUME NEW i \in 1..(n + 1) PROVE a[i] = IF i = n + 1 THEN r ELSE s[i]
  BY <1>1
<1>4. a = [i \in 1..(n + 1) |-> IF i = n + 1 THEN r ELSE s[i]]
  BY <1>2, <1>3
<1> QED
  BY <1>4 DEF a

\* Likewise for the tail of a sequence that is not empty.
LEMMA TailIs ==
  ASSUME NEW S, NEW s \in Seq(S), NEW n \in Nat, Len(s) = n, n # 0
  PROVE  s # << >> /\ Tail(s) = [i \in 1..(n - 1) |-> s[i + 1]]
<1> DEFINE a == Tail(s)
<1>1. s # << >>
  BY EmptySeq
<1>2. /\ a \in Seq(S) /\ Len(a) = n - 1
      /\ \A i \in 1..(n - 1) : a[i] = s[i + 1]
  BY <1>1, HeadTailProperties
<1> HIDE DEF a
<1>3. a \in [1..(n - 1) -> S]
  BY <1>2, LenProperties
<1>4. a = [i \in 1..(n - 1) |-> s[i + 1]]
  BY <1>2, <1>3
<1> QED
  BY <1>1, <1>4 DEF a

\* The ring implements the bounded queue: frees are carried out in the order in
\* which they were deferred (ProtoGC.h:1029-1067).
THEOREM RingIsQueue == Spec => KeepsQueue
<1>1. Init => Queue!QueueInit
  <2>1. ASSUME Init PROVE queue = << >>
    <3>1. 1..count = {}
      BY <2>1 DEF Init
    <3> QED
      BY <3>1 DEF queue
  <2> QED
    BY <2>1 DEF Init, Queue!QueueInit
<1>2. IInv /\ [Next]_vars => [Queue!QueueNext]_Queue!qvars
  <2> SUFFICES ASSUME IInv, [Next]_vars PROVE [Queue!QueueNext]_Queue!qvars
    OBVIOUS
  <2>1. RingType /\ RingSound
    BY Types DEF IInv
  <2>2. queue \in Seq(Records) /\ Len(queue) = count /\ count \in Nat
    BY <2>1, QueueFacts DEF RingType
  <2>3. ASSUME UNCHANGED <<ring, head, tail, count, overflow>> PROVE UNCHANGED Queue!qvars
    BY <2>3, RingStays DEF Queue!qvars
  <2>4. ASSUME NEW p, NEW k, DeferFree(p, k), Record(p, k) \in Records
        PROVE  Queue!QueueNext
    <3> DEFINE r == Record(p, k)
    <3>1. CASE count >= Slots
      <4>1. overflow' = overflow + 1 /\ UNCHANGED <<ring, head, tail, count>>
        BY <2>4, <3>1 DEF DeferFree
      <4>2. queue' = queue /\ count = Slots
        BY <2>1, <3>1, <4>1, RingStays, SlotsAssumption DEF RingType
      <4> QED
        BY <2>2, <4>1, <4>2 DEF Queue!QueueNext, Queue!Refuse
    <3>2. CASE count < Slots
      <4>1. ~(count >= Slots)
        BY <2>2, <3>2, SlotsAssumption
      <4>2. /\ ring' = [ring EXCEPT ![head] = r] /\ head' = next(head) /\ count' = count + 1
            /\ tail' = tail /\ overflow' = overflow
        BY <2>4, <4>1 DEF DeferFree
      <4> HIDE DEF r
      <4>3. queue' = [i \in 1..(count + 1) |-> IF i = count + 1 THEN r ELSE queue[i]]
        BY <2>1, <2>4, <3>2, <4>2, PushRing DEF r
      <4>4. r \in Records
        BY <2>4 DEF r
      <4>5. Append(queue, r) = [i \in 1..(count + 1) |-> IF i = count + 1 THEN r ELSE queue[i]]
        BY <2>2, <4>4, AppendIs
      <4>6. Queue!Put(r)
        BY <2>2, <3>2, <4>2, <4>3, <4>5 DEF Queue!Put
      <4> QED
        BY <4>4, <4>6 DEF Queue!QueueNext
    <3> QED
      BY <2>2, <3>1, <3>2, SlotsAssumption
  <2>5. ASSUME NEW t \in Tasks, Pop(t) PROVE Queue!QueueNext
    <3>1. /\ count # 0 /\ ring' = [ring EXCEPT ![tail] = Empty] /\ tail' = next(tail)
          /\ count' = count - 1 /\ head' = head /\ overflow' = overflow
      BY <2>5 DEF Pop, mayPop
    <3>2. queue' = [i \in 1..(count - 1) |-> queue[i + 1]]
      BY <2>1, <3>1, PopRing
    <3>3. queue # << >> /\ Tail(queue) = [i \in 1..(count - 1) |-> queue[i + 1]]
      BY <2>2, <3>1, TailIs
    <3> QED
      BY <3>1, <3>2, <3>3 DEF Queue!QueueNext, Queue!Take
  <2>6. ASSUME Produce PROVE Queue!QueueNext \/ UNCHANGED Queue!qvars
    <3>1. PICK p \in Pointers :
            Alloc(p) \/ FreeNow(p) \/ IsrHeapFree(p) \/ IsrPoolFree(p) \/ IsrDelete(p)
      BY <2>6 DEF Produce
    <3>2. CASE Alloc(p) \/ FreeNow(p)
      BY <2>3, <3>2 DEF Alloc, FreeNow, ringVars
    <3>3. CASE IsrHeapFree(p) \/ IsrPoolFree(p) \/ IsrDelete(p)
      BY <2>4, <3>3, RecordFacts DEF IsrHeapFree, IsrPoolFree, IsrDelete
    <3> QED
      BY <3>1, <3>2, <3>3
  <2>7. ASSUME NEW t \in Tasks, (\E max \in {0, PollLimit} : Drain(t, max)) \/ Consume(t)
        PROVE  Queue!QueueNext \/ UNCHANGED Queue!qvars
    <3>1. CASE Pop(t)
      BY <2>5, <3>1
    <3>2. CASE (\E max \in {0, PollLimit} : Drain(t, max)) \/ DrainEnd(t) \/ FreeItem(t)
      BY <2>3, <3>2 DEF Drain, DrainEnd, FreeItem, ringVars
    <3> QED
      BY <2>7, <3>1, <3>2 DEF Consume
  <2>8. CASE UNCHANGED vars
    BY <2>3, <2>8 DEF vars, ringVars
  <2> QED
    BY <2>6, <2>7, <2>8 DEF Next
<1> QED
  BY <1>1, <1>2, Inductive, PTL DEF Spec, KeepsQueue, Queue!QueueSpec
=============================================================================
