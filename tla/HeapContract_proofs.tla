------------------------ MODULE HeapContract_proofs ------------------------
(***************************************************************************)
(* What follows from the promise of HeapContract, and so for every         *)
(* component that is checked to keep it.                                   *)
(***************************************************************************)
EXTENDS HeapContract, TLAPS

\* owned and taken describe the same pointers, each has the memory it asked
\* for, and no two share any.
Separate(owned, taken) ==
    /\ DOMAIN owned = DOMAIN taken
    /\ \A p \in DOMAIN owned : Holds(taken[p], owned[p])
    /\ \A p, q \in DOMAIN owned : p # q => Disjoint(taken[p], taken[q])

\* Giving a pointer up leaves the others separate.
LEMMA DropSeparate ==
    ASSUME NEW owned, NEW taken, Separate(owned, taken), NEW p
    PROVE  Separate(Drop(owned, p), Drop(taken, p))
  BY DEF Separate, Drop

\* A fresh pointer in memory that is nobody's joins the others.
LEMMA PutSeparate ==
    ASSUME NEW owned, NEW taken, Separate(owned, taken), NEW p, p \notin DOMAIN owned,
           NEW n, NEW r, Holds(r, n), \A q \in DOMAIN taken : Disjoint(taken[q], r)
    PROVE  Separate(Put(owned, p, n), Put(taken, p, r))
<1> DEFINE o == Put(owned, p, n)
           e == Put(taken, p, r)
<1>1. /\ DOMAIN o = DOMAIN owned \cup {p} /\ DOMAIN e = DOMAIN taken \cup {p}
      /\ o[p] = n /\ e[p] = r
      /\ \A q \in DOMAIN owned : o[q] = owned[q] /\ e[q] = taken[q]
  BY DEF Put, Separate
<1> HIDE DEF o, e
<1>2. DOMAIN o = DOMAIN e /\ \A q \in DOMAIN o : Holds(e[q], o[q])
  BY <1>1 DEF Separate
<1>3. ASSUME NEW q \in DOMAIN o, NEW s \in DOMAIN o, q # s
      PROVE  Disjoint(e[q], e[s])
  <2>1. \A x \in DOMAIN owned : Disjoint(taken[x], r) /\ Disjoint(r, taken[x])
    BY DEF Separate, Disjoint
  <2>2. CASE q = p
    BY <1>1, <1>3, <2>1, <2>2
  <2>3. CASE s = p
    BY <1>1, <1>3, <2>1, <2>3
  <2>4. CASE q # p /\ s # p
    BY <1>1, <1>3, <2>4 DEF Separate
  <2> QED
    BY <2>2, <2>3, <2>4
<1> QED
  BY <1>2, <1>3 DEF Separate, o, e

\* Putting back a pointer that was dropped is putting it where it was.
LEMMA PutDropped ==
    ASSUME NEW f, NEW p \in DOMAIN f, NEW x
    PROVE  Put(Drop(f, p), p, x) = Put(f, p, x)
  BY DEF Put, Drop

\* Callers that get their memory through this contract never share any, and
\* none ever has less than it asked for: heapAlloc, heapFree and heapRealloc of
\* ProtoGC.h:362-487, and poolAlloc and poolFree of ProtoGC.h:518-565.
THEOREM NeverOverlap == ContractSpec => []NoOverlap
<1>1. NoOverlap <=> Separate(live, extent)
  BY DEF NoOverlap, Separate
<1>2. ContractInit => Separate(live, extent)
  BY DEF ContractInit, Separate
<1>3. Separate(live, extent) /\ [ContractNext]_cvars => Separate(live, extent)'
  <2> SUFFICES ASSUME Separate(live, extent), [ContractNext]_cvars
               PROVE  Separate(live', extent')
    BY DEF Separate
  <2>1. CASE UNCHANGED cvars
    BY <2>1 DEF cvars
  <2>2. ASSUME NEW p, NEW n, NEW r, Alloc(p, n, r) PROVE Separate(live', extent')
    BY <2>2, PutSeparate DEF Alloc, Give
  <2>3. ASSUME NEW p, Free(p) PROVE Separate(live', extent')
    BY <2>3, DropSeparate DEF Free
  <2>4. ASSUME NEW p, NEW n, NEW r, Resize(p, n, r) PROVE Separate(live', extent')
    <3>1. Separate(Drop(live, p), Drop(extent, p)) /\ p \notin DOMAIN Drop(live, p)
      BY DropSeparate DEF Drop
    <3>2. /\ Holds(r, n) /\ \A q \in DOMAIN Drop(extent, p) : Disjoint(Drop(extent, p)[q], r)
          /\ live' = Put(live, p, n) /\ extent' = Put(Drop(extent, p), p, r)
      BY <2>4 DEF Resize, Give
    <3>3. Put(live, p, n) = Put(Drop(live, p), p, n)
      BY <2>4, PutDropped DEF Resize
    <3>4. Separate(Put(Drop(live, p), p, n), Put(Drop(extent, p), p, r))
      BY <3>1, <3>2, PutSeparate
    <3> QED
      BY <3>2, <3>3, <3>4
  <2>5. ASSUME NEW p, NEW q, NEW n, NEW r, Move(p, q, n, r) PROVE Separate(live', extent')
    <3>1. Separate(Drop(live, p), Drop(extent, p)) /\ q \notin DOMAIN Drop(live, p)
      BY <2>5, DropSeparate DEF Move, Drop
    <3>2. \A s \in DOMAIN Drop(extent, p) : Disjoint(Drop(extent, p)[s], r)
      BY <2>5 DEF Move, Drop
    <3>3. Separate(Put(Drop(live, p), q, n), Put(Drop(extent, p), q, r))
      BY <2>5, <3>1, <3>2, PutSeparate DEF Move
    <3> QED
      BY <2>5, <3>3 DEF Move
  <2> QED
    BY <2>1, <2>2, <2>3, <2>4, <2>5 DEF ContractNext
<1> QED
  BY <1>1, <1>2, <1>3, PTL DEF ContractSpec
=============================================================================
