--------------------------- MODULE DesktopBackend ---------------------------
(***************************************************************************)
(* The backend of src/src/pgc_desktop.cpp, one operator per step of        *)
(* pgc_malloc and pgc_free: two regions that are accounted separately over *)
(* one host heap, and the header in front of every payload.                *)
(*                                                                         *)
(* A capability word is the set of its bits.  A host block starts at some  *)
(* address modulo kAlignment; offsets in it are real.                      *)
(*                                                                         *)
(* A definition marked FAULT is the one after it with a slip in it; no     *)
(* specification uses it.  README.md says which property notices it.       *)
(***************************************************************************)
EXTENDS Integers, FiniteSets

CONSTANTS
    Cells,          \* blocks host malloc can hand out
    ForeignCell,    \* a block of somebody else's, with no header
    InternalBytes,  \* PGC_DESKTOP_INTERNAL_BYTES
    PsramBytes,     \* PGC_DESKTOP_SPIRAM_BYTES
    Word,           \* 2 ^ (bits of size_t)
    HeaderBytes,    \* sizeof(AllocHeader)
    Alignment       \* kAlignment

ASSUME CapacityAssumption ==
    /\ InternalBytes \in Nat /\ PsramBytes \in Nat /\ Word \in Nat
    /\ InternalBytes < Word /\ PsramBytes < Word
ASSUME LayoutAssumption == HeaderBytes \in Nat /\ Alignment \in Nat \ {0}
ASSUME ForeignAssumption == ForeignCell \notin Cells

Regions == {"internal", "psram"}
regionForCaps(caps) ==
    IF "SPIRAM" \in caps /\ "INTERNAL" \notin caps THEN "psram" ELSE "internal"
capacityFor(r) == IF r = "psram" THEN PsramBytes ELSE InternalBytes

\* The test in front of the compare-and-swap, on the value read before.
exceeds(r, bytes, current) ==
    bytes > capacityFor(r) \/ current > capacityFor(r) - bytes

\* fetch_sub, which wraps.
sub(n, bytes) == (n - bytes + Word) % Word

\* FAULT: no room for the header to move to an aligned place.
totalBare(bytes) == HeaderBytes + bytes
total(bytes) == HeaderBytes + (Alignment - 1) + bytes

\* Where the payload begins in a host block at this address.
aligned(address) ==
    HeaderBytes + ((Alignment - ((address + HeaderBytes) % Alignment)) % Alignment)

\* live is what header->magic = kAllocMagic says.
Header(r, bytes, address) ==
    [live |-> TRUE, region |-> r, size |-> bytes,
     payload |-> aligned(address), total |-> total(bytes)]
NoHeader == [live |-> FALSE, region |-> "internal", size |-> 0, payload |-> 0, total |-> 0]
=============================================================================
