---------------------------- MODULE HeapContract ----------------------------
(***************************************************************************)
(* What a heap promises its callers, with no segments, lists or locks: a   *)
(* set of pointers, each with the size that was asked for and the range of *)
(* memory that is the caller's until the pointer is given back.            *)
(*                                                                         *)
(* The promise of src/README.md: pointers never move (a range changes only *)
(* by a reallocation of its own pointer), and no two callers share memory. *)
(***************************************************************************)
EXTENDS Integers

VARIABLES
    live,                     \* pointer |-> requested size
    extent                    \* pointer |-> [cell, lo, hi], bytes lo .. hi-1

cvars == <<live, extent>>

Disjoint(r, s) == r.cell # s.cell \/ r.hi <= s.lo \/ s.hi <= r.lo
Holds(r, n) == r.lo + n <= r.hi

ContractInit == live = << >> /\ extent = << >>

Drop(f, p) == [q \in DOMAIN f \ {p} |-> f[q]]
Put(f, p, x) == [q \in DOMAIN f \cup {p} |-> IF q = p THEN x ELSE f[q]]

\* A fresh pointer p for n bytes, in memory that is nobody's.
Give(owned, taken, p, n, r) ==
    /\ Holds(r, n)
    /\ \A q \in DOMAIN taken : Disjoint(taken[q], r)
    /\ live' = Put(owned, p, n)
    /\ extent' = Put(taken, p, r)

Alloc(p, n, r) == p \notin DOMAIN live /\ Give(live, extent, p, n, r)

Free(p) == p \in DOMAIN live /\ live' = Drop(live, p) /\ extent' = Drop(extent, p)

\* Resize in place, into a range the others leave free.
Resize(p, n, r) ==
    /\ p \in DOMAIN live /\ r.cell = extent[p].cell /\ r.lo = extent[p].lo
    /\ Give(live, Drop(extent, p), p, n, r)

\* Resize by moving; the old range is the caller's until the bytes are copied.
Move(p, q, n, r) ==
    /\ p \in DOMAIN live /\ q \notin DOMAIN live
    /\ \A s \in DOMAIN extent : Disjoint(extent[s], r)
    /\ Holds(r, n)
    /\ live' = Put(Drop(live, p), q, n)
    /\ extent' = Put(Drop(extent, p), q, r)

\* The ranges and sizes a step may bring in are those of the new state.
ContractNext ==
    \/ \E p \in DOMAIN live' : Alloc(p, live'[p], extent'[p])
    \/ \E p \in DOMAIN live : Free(p)
    \/ \E p \in DOMAIN live : p \in DOMAIN live' /\ Resize(p, live'[p], extent'[p])
    \/ \E p \in DOMAIN live, q \in DOMAIN live' : Move(p, q, live'[q], extent'[q])

ContractSpec == ContractInit /\ [][ContractNext]_cvars

-----------------------------------------------------------------------------
\* No two live pointers share memory, and each has all the memory it asked
\* for: HeapAllocator::allocate and the fallback blocks (HeapAllocator.h:79-96).
NoOverlap ==
    /\ DOMAIN live = DOMAIN extent
    /\ \A p \in DOMAIN live : Holds(extent[p], live[p])
    /\ \A p, q \in DOMAIN live : p # q => Disjoint(extent[p], extent[q])
=============================================================================
