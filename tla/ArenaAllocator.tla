--------------------------- MODULE ArenaAllocator ---------------------------
(***************************************************************************)
(* One arena of src/src/ArenaAllocator.h, one operator per method over the *)
(* value of the arena object.  Offsets are real and size_t is a number     *)
(* modulo Word.  mPeakOffset and mAllocCount are statistics and left out.  *)
(*                                                                         *)
(* A definition marked FAULT is the one after it with a slip in it; no     *)
(* specification uses it.  README.md says which property notices it.       *)
(***************************************************************************)
EXTENDS Integers

CONSTANT Word     \* 2 ^ (bits of size_t)

ASSUME WordAssumption == Word \in Nat \ {0}

\* The constructor; ready says that mBuffer is not null.
NewArena == [ready |-> FALSE, capacity |-> 0, offset |-> 0]

isReady(a) == a.ready

\* The outcome of pgc_malloc is an argument.  A begin that fails has released
\* the old buffer and keeps the old offset.
\* FAULT: nor does a begin that succeeds clear the offset.
beginKeepingOffset(a, bytes, got) ==
    [a EXCEPT !.ready = got, !.capacity = IF got THEN bytes ELSE 0]
begin(a, bytes, got) ==
    IF got THEN [ready |-> TRUE, capacity |-> bytes, offset |-> 0]
    ELSE [a EXCEPT !.ready = FALSE, !.capacity = 0]

reset(a) == [a EXCEPT !.offset = 0]

ensureCapacity(a, bytes, got) ==
    IF isReady(a) /\ a.capacity >= bytes THEN reset(a) ELSE begin(a, bytes, got)

end(a) == NewArena

PowersOfTwo == {n \in 1..Word : \E k \in 0..n : n = 2 ^ k}

\* alignment & (alignment - 1) is zero for the powers of two, and for zero.
effective(alignment) == IF alignment \in PowersOfTwo \cup {0} THEN alignment ELSE 4

\* (mOffset + mask) & ~mask, where a zero alignment leaves no bit of ~mask.
alignedOffset(offset, alignment) ==
    IF alignment = 0 THEN 0
    ELSE LET n == (offset + alignment - 1) % Word IN n - (n % alignment)

place(a, alignment) == alignedOffset(a.offset, effective(alignment))

\* alloc is this test, of the offset it reads, ...
\* FAULT: compares before it aligns.
fitsUnaligned(a, bytes, alignment) == isReady(a) /\ (a.offset + bytes) % Word <= a.capacity
fits(a, bytes, alignment) ==
    isReady(a) /\ (place(a, alignment) + bytes) % Word <= a.capacity

\* ... the block it hands out, and the end of it, which becomes the offset.
block(a, bytes, alignment) ==
    [lo |-> place(a, alignment), hi |-> place(a, alignment) + bytes]
move(a, blk) == [a EXCEPT !.offset = blk.hi % Word]

-----------------------------------------------------------------------------
\* A request far from the end of size_t, which alloc adds up without a test,
\* with an alignment other than zero.
Plain(a, bytes, alignment) ==
    effective(alignment) # 0 /\ a.offset + effective(alignment) + bytes <= Word

\* A block that alloc hands out is aligned, lies in the buffer, and above all
\* that was handed out since the last reset (ArenaAllocator.h:66-88).
AllocSound(a, bytes, alignment) ==
    Plain(a, bytes, alignment) /\ fits(a, bytes, alignment) =>
      LET b == block(a, bytes, alignment)
      IN  /\ b.lo % effective(alignment) = 0
          /\ a.offset <= b.lo /\ b.lo < a.offset + effective(alignment)
          /\ b.hi = b.lo + bytes /\ b.hi <= a.capacity
          /\ move(a, b).offset = b.hi
=============================================================================
