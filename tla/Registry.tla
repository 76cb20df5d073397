------------------------------ MODULE Registry ------------------------------
(***************************************************************************)
(* A table of records with a fixed number of slots, as the registries of   *)
(* arenas and of purge callbacks are in src/src/ProtoGC.h.  A slot whose   *)
(* key is null is free.                                                    *)
(*                                                                         *)
(* A definition marked FAULT is the one after it with a slip in it; no     *)
(* specification uses it.  README.md says which property notices it.       *)
(***************************************************************************)
EXTENDS Integers

CONSTANT NoKey    \* nullptr

FreeSlot == [key |-> NoKey]
EmptyTable(n) == [i \in 1..n |-> FreeSlot]

at(table, key) == {i \in DOMAIN table : table[i].key = key}
has(table, key) == at(table, key) # {}
recordOf(table, key) == table[CHOOSE i \in at(table, key) : TRUE]
lowest(S) == CHOOSE i \in S : \A j \in S : i <= j

\* FAULT: one pass takes the key's slot or a free one, whichever comes first.
slotsOnePass(table, key) == at(table, key) \cup at(table, NoKey)

\* register, in two passes: the slot the key has, or else a free one.
slotsFor(table, key) == IF has(table, key) THEN at(table, key) ELSE at(table, NoKey)
accepts(table, key) == slotsFor(table, key) # {}

\* The first of these slots; a full table stays as it is.
register(table, record) ==
    IF ~accepts(table, record.key) THEN table
    ELSE [table EXCEPT ![lowest(slotsFor(table, record.key))] = record]

unregister(table, key) ==
    IF ~has(table, key) THEN table
    ELSE [table EXCEPT ![lowest(at(table, key))] = FreeSlot]

\* FAULT: stops at the first free slot.
scannedToHole(table) == {i \in DOMAIN table : \A j \in 1..i : table[j].key # NoKey}
scanned(table) == DOMAIN table

\* A snapshot of the keys in some slots, and what is left of it after the first.
snapshot(table, slots) ==
    [i \in DOMAIN table |-> IF i \in slots \cap scanned(table) THEN table[i].key ELSE NoKey]
pendingSlots(snap) == {i \in DOMAIN snap : snap[i] # NoKey}
keysOf(snap) == {snap[i] : i \in pendingSlots(snap)}
first(snap) == snap[lowest(pendingSlots(snap))]
rest(snap) == [snap EXCEPT ![lowest(pendingSlots(snap))] = NoKey]
=============================================================================
