------------------------ MODULE HeapAllocator_proofs ------------------------
(***************************************************************************)
(* Lemmas about the operators of HeapAllocator, for every alignment, header *)
(* size, segment size and set of cells.                                    *)
(***************************************************************************)
EXTENDS HeapAllocator, SumTheorems

(* Arithmetic.                                                             *)

\* alignUp never rounds down, so a block of alignUp(n) bytes holds n bytes.
LEMMA AlignUpBound ==
    ASSUME NEW n \in Nat
    PROVE  alignUp(n) \in Nat /\ alignUp(n) >= n
  BY AlignmentAssumption DEF alignUp

Below == {pair \in Nat \X Nat : pair[1] < pair[2]}

\* A set of numbers that is not empty has a least element: the searches of
\* findFreeBlock find something whenever something fits.
LEMMA LeastElement ==
    ASSUME NEW S \in SUBSET Nat, S # {}
    PROVE  \E x \in S : \A y \in S : x <= y
<1>1. OpToRel(<, Nat) = Below
  BY Zenon DEF OpToRel, Below
<1>2. IsWellFoundedOn(Below, Nat)
  BY <1>1, NatLessThanWellFounded, Zenon
<1>3. PICK x \in S : \A y \in S : <<y, x>> \notin Below
  BY <1>2, WFMin
<1>4. \A y \in S : ~(y < x)
  BY <1>3 DEF Below
<1> QED
  BY <1>4

-----------------------------------------------------------------------------
(* Splitting and merging the blocks of a segment.                          *)

\* The parts of Tiles in the form the steps below use them.
LEMMA TilesFacts ==
    ASSUME NEW blk, NEW total \in Nat, Tiles(blk, total)
    PROVE  /\ FirstBlock \in DOMAIN blk /\ FirstBlock \in Nat /\ FirstBlock > NoBlock
           /\ BlockHeaderBytes \in Nat /\ BlockHeaderBytes > 0
           /\ NoBlock \notin DOMAIN blk
           /\ \A p \in DOMAIN blk :
                /\ p \in Nat /\ p >= FirstBlock
                /\ blk[p] \in BlockType
                /\ blk[p].size \in Nat /\ blk[p].free \in BOOLEAN
                /\ blk[p].prev \in Nat /\ blk[p].next \in Nat
                /\ p = FirstBlock => blk[p].prev = NoBlock
                /\ p # FirstBlock => /\ blk[p].prev \in DOMAIN blk
                                     /\ blk[blk[p].prev].next = p
                                     /\ blk[p].prev < p
                /\ blk[p].next = NoBlock => p + blk[p].size = total
                /\ blk[p].next # NoBlock =>
                     /\ blk[p].next \in DOMAIN blk
                     /\ blk[p].next = p + blk[p].size + BlockHeaderBytes
                     /\ blk[p].next > p
                     /\ blk[blk[p].next].prev = p
                     /\ blk[p].next # FirstBlock
           /\ \A p, q \in DOMAIN blk : p < q => p + blk[p].size + BlockHeaderBytes <= q
<1>1. /\ FirstBlock \in DOMAIN blk /\ FirstBlock \in Nat /\ FirstBlock > NoBlock
      /\ BlockHeaderBytes \in Nat /\ BlockHeaderBytes > 0
  BY HeaderAssumption DEF Tiles, FirstBlock, NoBlock
<1>2. \A p \in DOMAIN blk : /\ p \in Nat /\ p >= FirstBlock
                            /\ blk[p] \in BlockType
                            /\ blk[p].size \in Nat /\ blk[p].free \in BOOLEAN
                            /\ blk[p].prev \in Nat /\ blk[p].next \in Nat
  BY DEF Tiles, BlockType
<1>3. NoBlock \notin DOMAIN blk
  BY <1>1, <1>2 DEF NoBlock
<1>4. \A p \in DOMAIN blk :
        blk[p].next # NoBlock =>
          /\ blk[p].next \in DOMAIN blk
          /\ blk[p].next = p + blk[p].size + BlockHeaderBytes
          /\ blk[blk[p].next].prev = p
  BY DEF Tiles
<1>5. \A p \in DOMAIN blk :
        blk[p].next # NoBlock => blk[p].next > p /\ blk[p].next # FirstBlock
  BY <1>1, <1>2, <1>4
<1>6. \A p \in DOMAIN blk :
        p # FirstBlock => blk[p].prev \in DOMAIN blk /\ blk[blk[p].prev].next = p
  BY DEF Tiles
<1>7. \A p \in DOMAIN blk : p # FirstBlock => blk[p].prev < p
  BY <1>2, <1>3, <1>5, <1>6
<1>8. \A p \in DOMAIN blk : /\ p = FirstBlock => blk[p].prev = NoBlock
                            /\ blk[p].next = NoBlock => p + blk[p].size = total
  BY DEF Tiles
<1>9. \A p, q \in DOMAIN blk : p < q => p + blk[p].size + BlockHeaderBytes <= q
  BY DEF Tiles
<1> QED
  BY <1>1, <1>2, <1>3, <1>4, <1>5, <1>6, <1>7, <1>8, <1>9

\* What splitAt changes, block by block: o is cut after `wanted` bytes and the
\* rest of it becomes the block at `rest`.
SplitsInto(blk, o, wanted, rest, new) ==
    /\ rest \in Nat /\ rest \notin DOMAIN blk /\ rest > o
    /\ rest = o + wanted + BlockHeaderBytes
    /\ DOMAIN new = DOMAIN blk \cup {rest}
    /\ new[o] = [size |-> wanted, free |-> blk[o].free, prev |-> blk[o].prev, next |-> rest]
    /\ new[rest] = [size |-> blk[o].size - wanted - BlockHeaderBytes,
                    free |-> TRUE, prev |-> o, next |-> blk[o].next]
    /\ \A p \in DOMAIN blk \ {o} :
         new[p] = [size |-> blk[p].size, free |-> blk[p].free, next |-> blk[p].next,
                   prev |-> IF p = blk[o].next THEN rest ELSE blk[p].prev]

\* splitAt writes exactly the headers SplitsInto describes (splitBlock).
LEMMA SplitFields ==
    ASSUME NEW blk, NEW total \in Nat, Tiles(blk, total),
           NEW o \in DOMAIN blk, NEW wanted \in Nat, canSplit(blk[o].size, wanted)
    PROVE  SplitsInto(blk, o, wanted, o + wanted + BlockHeaderBytes, splitAt(blk, o, wanted))
<1> DEFINE rest == o + wanted + BlockHeaderBytes
           new == splitAt(blk, o, wanted)
<1>1. \A p \in DOMAIN blk : p \in Nat /\ blk[p] \in BlockType
  BY TilesFacts
<1>2. rest \in Nat /\ rest > o
  BY <1>1, HeaderAssumption
<1>3. rest \notin DOMAIN blk
  <2>1. o + blk[o].size + BlockHeaderBytes > rest
    BY <1>1, <1>2, HeaderAssumption DEF canSplit, BlockType
  <2> QED
    BY <1>1, <1>2, <2>1, TilesFacts
<1>4. blk[o].next # o /\ blk[o].next # rest
  <2>1. blk[o].next = NoBlock \/ (blk[o].next \in DOMAIN blk /\ blk[o].next > o)
    BY TilesFacts
  <2>2. NoBlock \notin DOMAIN blk /\ NoBlock # rest
    BY <1>2, TilesFacts DEF NoBlock
  <2> QED
    BY <1>1, <1>3, <2>1, <2>2
<1> HIDE DEF rest
<1>5. new = [p \in DOMAIN blk \cup {rest} |->
           CASE p = o -> [blk[o] EXCEPT !.size = wanted, !.next = rest]
             [] p = rest -> [size |-> blk[o].size - wanted - BlockHeaderBytes,
                             free |-> TRUE, prev |-> o, next |-> blk[o].next]
             [] p = blk[o].next -> [blk[p] EXCEPT !.prev = rest]
             [] OTHER -> blk[p]]
  BY DEF splitAt, rest
<1> HIDE DEF new
<1>6. DOMAIN new = DOMAIN blk \cup {rest}
  BY <1>5
<1>7. new[o] = [size |-> wanted, free |-> blk[o].free, prev |-> blk[o].prev, next |-> rest]
  <2>1. new[o] = [blk[o] EXCEPT !.size = wanted, !.next = rest]
    BY <1>2, <1>4, <1>5
  <2>2. blk[o] \in BlockType
    BY <1>1
  <2> QED
    BY <2>1, <2>2 DEF BlockType
<1>8. new[rest] = [size |-> blk[o].size - wanted - BlockHeaderBytes,
                   free |-> TRUE, prev |-> o, next |-> blk[o].next]
  BY <1>2, <1>3, <1>4, <1>5
<1>9. ASSUME NEW p \in DOMAIN blk \ {o}
      PROVE  new[p] = [size |-> blk[p].size, free |-> blk[p].free, next |-> blk[p].next,
                       prev |-> IF p = blk[o].next THEN rest ELSE blk[p].prev]
  BY <1>1, <1>3, <1>4, <1>5 DEF BlockType
<1> QED
  BY <1>2, <1>3, <1>6, <1>7, <1>8, <1>9 DEF SplitsInto, rest, new

\* Cutting a block leaves a tiling of the same segment (splitBlock and
\* shrinkBlock).
LEMMA SplitTiles ==
    ASSUME NEW blk, NEW total \in Nat, Tiles(blk, total),
           NEW o \in DOMAIN blk, NEW wanted \in Nat, canSplit(blk[o].size, wanted)
    PROVE  Tiles(splitAt(blk, o, wanted), total)
<1> DEFINE rest == o + wanted + BlockHeaderBytes
           new == splitAt(blk, o, wanted)
<1>0. SplitsInto(blk, o, wanted, rest, new)
  BY SplitFields
<1> HIDE DEF new, rest
<1>1. /\ rest \in Nat /\ rest \notin DOMAIN blk /\ rest > o
      /\ DOMAIN new = DOMAIN blk \cup {rest}
      /\ new[o] = [size |-> wanted, free |-> blk[o].free, prev |-> blk[o].prev, next |-> rest]
      /\ new[rest] = [size |-> blk[o].size - wanted - BlockHeaderBytes,
                      free |-> TRUE, prev |-> o, next |-> blk[o].next]
      /\ \A p \in DOMAIN blk \ {o} :
           new[p] = [size |-> blk[p].size, free |-> blk[p].free, next |-> blk[p].next,
                     prev |-> IF p = blk[o].next THEN rest ELSE blk[p].prev]
  BY <1>0 DEF SplitsInto
<1>2. rest = o + wanted + BlockHeaderBytes
  BY <1>0 DEF SplitsInto
<1>3. blk[o].size - wanted - BlockHeaderBytes \in Nat
  <2>1. blk[o].size \in Nat
    BY TilesFacts
  <2> QED
    BY <2>1, HeaderAssumption DEF canSplit
<1>4. \A p \in DOMAIN new : p \in Nat /\ p >= FirstBlock /\ new[p] \in BlockType
  <2> TAKE p \in DOMAIN new
  <2>1. CASE p = o
    BY <1>1, <2>1, TilesFacts DEF BlockType
  <2>2. CASE p = rest
    <3>1. o \in Nat /\ o >= FirstBlock /\ FirstBlock \in Nat /\ blk[o].next \in Nat
      BY TilesFacts
    <3>2. rest >= FirstBlock
      BY <1>1, <3>1
    <3>3. new[rest] \in BlockType
      BY <1>1, <1>3, <3>1 DEF BlockType
    <3> QED
      BY <1>1, <2>2, <3>2, <3>3
  <2>3. CASE p \in DOMAIN blk \ {o}
    <3>1. /\ p \in Nat /\ p >= FirstBlock /\ blk[p].size \in Nat
          /\ blk[p].free \in BOOLEAN /\ blk[p].prev \in Nat /\ blk[p].next \in Nat
      BY <2>3, TilesFacts
    <3>2. (IF p = blk[o].next THEN rest ELSE blk[p].prev) \in Nat
      BY <1>1, <3>1
    <3> QED
      BY <1>1, <2>3, <3>1, <3>2 DEF BlockType
  <2> QED
    BY <1>1, <2>1, <2>2, <2>3
<1>5. \A p \in DOMAIN new :
        IF p = FirstBlock THEN new[p].prev = NoBlock
        ELSE new[p].prev \in DOMAIN new /\ new[new[p].prev].next = p
  <2> TAKE p \in DOMAIN new
  <2>1. CASE p = o
    BY <1>1, <2>1, TilesFacts
  <2>2. CASE p = rest
    BY <1>1, <2>2, TilesFacts
  <2>3. CASE p \in DOMAIN blk \ {o} /\ p = blk[o].next
    BY <1>1, <2>3, TilesFacts
  <2>4. CASE p \in DOMAIN blk \ {o} /\ p # blk[o].next
    BY <1>1, <2>4, TilesFacts
  <2> QED
    BY <1>1, <2>1, <2>2, <2>3, <2>4
<1>6. \A p \in DOMAIN new :
        IF new[p].next = NoBlock THEN p + new[p].size = total
        ELSE /\ new[p].next \in DOMAIN new
             /\ new[p].next = p + new[p].size + BlockHeaderBytes
             /\ new[new[p].next].prev = p
  <2> TAKE p \in DOMAIN new
  <2>1. CASE p = o
    BY <1>1, <1>2, <2>1, TilesFacts DEF NoBlock
  <2>2. CASE p = rest
    BY <1>1, <1>2, <2>2, TilesFacts DEF NoBlock
  <2>3. CASE p \in DOMAIN blk \ {o}
    <3>1. new[p].size = blk[p].size /\ new[p].next = blk[p].next
      BY <1>1, <2>3
    <3>2. CASE blk[p].next # NoBlock
      <4>1. /\ blk[p].next \in DOMAIN blk /\ blk[blk[p].next].prev = p
            /\ blk[p].next = p + blk[p].size + BlockHeaderBytes
        BY <2>3, <3>2, TilesFacts
      <4>2. blk[p].next # blk[o].next
        BY <2>3, <4>1, TilesFacts
      <4>3. blk[p].next = o \/ new[blk[p].next].prev = blk[blk[p].next].prev
        BY <1>1, <4>1, <4>2
      <4>4. new[o].prev = blk[o].prev
        BY <1>1
      <4> QED
        BY <1>1, <3>1, <3>2, <4>1, <4>3, <4>4
    <3> QED
      BY <2>3, <3>1, <3>2, TilesFacts
  <2> QED
    BY <1>1, <2>1, <2>2, <2>3
<1>7. \A p, q \in DOMAIN new : p < q => p + new[p].size + BlockHeaderBytes <= q
  <2> TAKE p, q \in DOMAIN new
  <2>1. CASE p \in DOMAIN blk /\ q \in DOMAIN blk
    BY <1>1, <1>2, <1>3, <2>1, TilesFacts
  <2>2. CASE p = rest /\ q \in DOMAIN blk
    BY <1>1, <1>2, <2>2, TilesFacts
  <2>3. CASE p \in DOMAIN blk /\ q = rest
    <3>1. CASE p = o
      BY <1>1, <1>2, <3>1, <2>3, TilesFacts
    <3>2. CASE p < o
      BY <1>1, <1>2, <3>2, <2>3, TilesFacts
    <3>3. CASE p > o
      BY <1>1, <1>2, <1>3, <3>3, <2>3, TilesFacts
    <3> QED
      BY <2>3, <3>1, <3>2, <3>3, TilesFacts
  <2> QED
    BY <1>1, <2>1, <2>2, <2>3
<1>8. FirstBlock \in DOMAIN new
  BY <1>1, TilesFacts
<1> QED
  BY <1>4, <1>5, <1>6, <1>7, <1>8 DEF Tiles, new

\* What absorbNext changes, block by block: o swallows its successor n.
Swallows(blk, o, n, new) ==
    /\ n \in DOMAIN blk /\ n > o
    /\ DOMAIN new = DOMAIN blk \ {n}
    /\ new[o] = [size |-> blk[o].size + BlockHeaderBytes + blk[n].size,
                 free |-> blk[o].free, prev |-> blk[o].prev, next |-> blk[n].next]
    /\ \A p \in DOMAIN blk \ {o, n} :
         new[p] = [size |-> blk[p].size, free |-> blk[p].free, next |-> blk[p].next,
                   prev |-> IF p = blk[n].next THEN o ELSE blk[p].prev]

\* absorbNext writes exactly the headers Swallows describes (unlinkNextBlock).
LEMMA AbsorbFields ==
    ASSUME NEW blk, NEW total \in Nat, Tiles(blk, total),
           NEW o \in DOMAIN blk, blk[o].next # NoBlock
    PROVE  Swallows(blk, o, blk[o].next, absorbNext(blk, o))
<1> DEFINE n == blk[o].next
           new == absorbNext(blk, o)
<1>1. \A p \in DOMAIN blk : p \in Nat /\ blk[p] \in BlockType
  BY TilesFacts
<1>2. n \in DOMAIN blk /\ n > o
  BY TilesFacts
<1>3. blk[n].next # o
  <2>1. blk[n].next = NoBlock \/ blk[n].next > n
    BY <1>2, TilesFacts
  <2>2. NoBlock \notin DOMAIN blk
    BY TilesFacts
  <2>3. blk[n].next \in Nat
    BY <1>2, TilesFacts
  <2> QED
    BY <1>1, <1>2, <2>1, <2>2, <2>3
<1>4. new = [p \in DOMAIN blk \ {n} |->
           CASE p = o -> [blk[o] EXCEPT !.size = @ + BlockHeaderBytes + blk[n].size,
                                        !.next = blk[n].next]
             [] p = blk[n].next -> [blk[p] EXCEPT !.prev = o]
             [] OTHER -> blk[p]]
  BY DEF absorbNext
<1> HIDE DEF n, new
<1>5. DOMAIN new = DOMAIN blk \ {n}
  BY <1>4
<1>6. new[o] = [size |-> blk[o].size + BlockHeaderBytes + blk[n].size,
                free |-> blk[o].free, prev |-> blk[o].prev, next |-> blk[n].next]
  <2>1. new[o] = [blk[o] EXCEPT !.size = @ + BlockHeaderBytes + blk[n].size,
                                !.next = blk[n].next]
    BY <1>1, <1>2, <1>3, <1>4
  <2>2. blk[o] \in BlockType
    BY <1>1
  <2> QED
    BY <2>1, <2>2 DEF BlockType
<1>7. ASSUME NEW p \in DOMAIN blk \ {o, n}
      PROVE  new[p] = [size |-> blk[p].size, free |-> blk[p].free, next |-> blk[p].next,
                       prev |-> IF p = blk[n].next THEN o ELSE blk[p].prev]
  BY <1>1, <1>3, <1>4 DEF BlockType
<1> QED
  BY <1>2, <1>5, <1>6, <1>7 DEF Swallows, n, new

\* Absorbing the next block leaves a tiling of the same segment (coalesce).
LEMMA AbsorbTiles ==
    ASSUME NEW blk, NEW total \in Nat, Tiles(blk, total),
           NEW o \in DOMAIN blk, blk[o].next # NoBlock
    PROVE  Tiles(absorbNext(blk, o), total)
<1> DEFINE n == blk[o].next
           new == absorbNext(blk, o)
<1>0. Swallows(blk, o, n, new) /\ n = blk[o].next
  BY AbsorbFields
<1> HIDE DEF n, new
<1>1. /\ n \in DOMAIN blk /\ n > o
      /\ DOMAIN new = DOMAIN blk \ {n}
      /\ new[o] = [size |-> blk[o].size + BlockHeaderBytes + blk[n].size,
                   free |-> blk[o].free, prev |-> blk[o].prev, next |-> blk[n].next]
      /\ \A p \in DOMAIN blk \ {o, n} :
           new[p] = [size |-> blk[p].size, free |-> blk[p].free, next |-> blk[p].next,
                     prev |-> IF p = blk[n].next THEN o ELSE blk[p].prev]
  BY <1>0 DEF Swallows
<1>2. n = o + blk[o].size + BlockHeaderBytes /\ blk[n].prev = o /\ n # FirstBlock
  BY <1>0, TilesFacts
<1>a. /\ FirstBlock \in Nat /\ BlockHeaderBytes \in Nat /\ NoBlock \notin DOMAIN blk
      /\ \A p \in DOMAIN blk :
           /\ p \in Nat /\ p >= FirstBlock /\ blk[p].size \in Nat /\ blk[p].free \in BOOLEAN
           /\ blk[p].prev \in Nat /\ blk[p].next \in Nat
  BY TilesFacts
<1>b. \A p \in DOMAIN blk :
        /\ p = FirstBlock => blk[p].prev = NoBlock
        /\ p # FirstBlock => /\ blk[p].prev \in DOMAIN blk /\ blk[p].prev < p
                             /\ blk[blk[p].prev].next = p
  BY TilesFacts
<1>c. \A p \in DOMAIN blk :
        /\ blk[p].next = NoBlock => p + blk[p].size = total
        /\ blk[p].next # NoBlock =>
             /\ blk[p].next \in DOMAIN blk /\ blk[p].next > p
             /\ blk[p].next = p + blk[p].size + BlockHeaderBytes
             /\ blk[blk[p].next].prev = p
  BY TilesFacts
<1>d. \A p, q \in DOMAIN blk : p < q => p + blk[p].size + BlockHeaderBytes <= q
  BY TilesFacts
<1>e. \A p \in DOMAIN blk \ {o, n} :
        /\ new[p].size = blk[p].size /\ new[p].free = blk[p].free
        /\ new[p].next = blk[p].next
        /\ new[p].prev = IF p = blk[n].next THEN o ELSE blk[p].prev
  <2> TAKE p \in DOMAIN blk \ {o, n}
  <2> DEFINE back == IF p = blk[n].next THEN o ELSE blk[p].prev
  <2>1. new[p] = [size |-> blk[p].size, free |-> blk[p].free, next |-> blk[p].next,
                  prev |-> back]
    BY <1>1
  <2> HIDE DEF back
  <2>2. /\ new[p].size = blk[p].size /\ new[p].free = blk[p].free
        /\ new[p].next = blk[p].next /\ new[p].prev = back
    BY <2>1
  <2> QED
    BY <2>2 DEF back
<1>f. /\ new[o].size = blk[o].size + BlockHeaderBytes + blk[n].size
      /\ new[o].prev = blk[o].prev /\ new[o].next = blk[n].next
  BY <1>1
<1>3. \A p \in DOMAIN new : p \in Nat /\ p >= FirstBlock /\ new[p] \in BlockType
  <2> TAKE p \in DOMAIN new
  <2>1. CASE p = o
    BY <1>1, <1>a, <2>1 DEF BlockType
  <2>2. CASE p \in DOMAIN blk \ {o, n}
    <3> DEFINE back == IF p = blk[n].next THEN o ELSE blk[p].prev
    <3>1. back \in Nat
      BY <1>a, <2>2
    <3>2. new[p] = [size |-> blk[p].size, free |-> blk[p].free, next |-> blk[p].next,
                    prev |-> back]
      BY <1>1, <2>2
    <3> HIDE DEF back
    <3>3. new[p] \in BlockType
      BY <1>a, <2>2, <3>1, <3>2 DEF BlockType
    <3> QED
      BY <1>a, <2>2, <3>3
  <2> QED
    BY <1>1, <2>1, <2>2
<1>4. \A p \in DOMAIN new :
        IF p = FirstBlock THEN new[p].prev = NoBlock
        ELSE new[p].prev \in DOMAIN new /\ new[new[p].prev].next = p
  <2> TAKE p \in DOMAIN new
  <2>0. p \in DOMAIN blk /\ p # n
    BY <1>1
  <2>1. CASE p = o
    <3>1. p # FirstBlock => blk[o].prev \in DOMAIN blk \ {o, n} /\ blk[blk[o].prev].next = o
      BY <1>1, <1>a, <1>b, <2>1
    <3> QED
      BY <1>1, <1>b, <1>e, <1>f, <2>1, <3>1
  <2>2. CASE p # o /\ p = blk[n].next
    <3>1. p # FirstBlock
      BY <1>1, <1>a, <1>c, <2>0, <2>2
    <3> QED
      BY <1>1, <1>a, <1>e, <1>f, <2>0, <2>2, <3>1
  <2>3. CASE p # o /\ p # blk[n].next
    <3>1. p # FirstBlock => blk[p].prev \in DOMAIN blk \ {o, n} /\ blk[blk[p].prev].next = p
      BY <1>0, <1>1, <1>b, <2>0, <2>3
    <3> QED
      BY <1>1, <1>b, <1>e, <2>0, <2>3, <3>1
  <2> QED
    BY <2>1, <2>2, <2>3
<1>5. \A p \in DOMAIN new :
        IF new[p].next = NoBlock THEN p + new[p].size = total
        ELSE /\ new[p].next \in DOMAIN new
             /\ new[p].next = p + new[p].size + BlockHeaderBytes
             /\ new[new[p].next].prev = p
  <2> TAKE p \in DOMAIN new
  <2>0. p \in DOMAIN blk /\ p # n
    BY <1>1
  <2>1. CASE p = o
    <3>1. CASE blk[n].next = NoBlock
      <4>1. n + blk[n].size = total
        BY <1>1, <1>c, <3>1
      <4> QED
        BY <1>1, <1>2, <1>a, <1>f, <2>1, <3>1, <4>1
    <3>2. CASE blk[n].next # NoBlock
      <4>1. /\ blk[n].next \in DOMAIN blk \ {o, n}
            /\ blk[n].next = n + blk[n].size + BlockHeaderBytes
        BY <1>1, <1>a, <1>c, <3>2
      <4>2. blk[n].next = o + new[o].size + BlockHeaderBytes
        BY <1>1, <1>2, <1>a, <1>f, <4>1
      <4>3. new[blk[n].next].prev = o
        BY <1>e, <4>1
      <4> QED
        BY <1>1, <1>f, <2>1, <3>2, <4>1, <4>2, <4>3
    <3> QED
      BY <3>1, <3>2
  <2>2. CASE p # o /\ blk[p].next = NoBlock
    BY <1>c, <1>e, <2>0, <2>2
  <2>3. CASE p # o /\ blk[p].next # NoBlock
    <3>1. /\ blk[p].next \in DOMAIN blk /\ blk[blk[p].next].prev = p
          /\ blk[p].next = p + blk[p].size + BlockHeaderBytes
      BY <1>c, <2>0, <2>3
    <3>2. blk[p].next # n
      BY <1>2, <2>3, <3>1
    <3>3. blk[n].next = blk[p].next => FALSE
      BY <1>1, <1>c, <2>0, <2>3, <3>1
    <3>4. new[blk[p].next].prev = p
      BY <1>e, <1>f, <3>1, <3>2, <3>3
    <3> QED
      BY <1>1, <1>e, <2>0, <2>3, <3>1, <3>2, <3>4
  <2> QED
    BY <2>1, <2>2, <2>3
<1>6. \A p, q \in DOMAIN new : p < q => p + new[p].size + BlockHeaderBytes <= q
  <2> TAKE p, q \in DOMAIN new
  <2> HAVE p < q
  <2>1. p \in DOMAIN blk /\ q \in DOMAIN blk /\ q # n /\ p # n
    BY <1>1
  <2>2. CASE p = o
    <3>1. n <= q
      BY <1>2, <1>d, <2>1, <2>2
    <3>2. n + blk[n].size + BlockHeaderBytes <= q
      BY <1>1, <1>a, <1>d, <2>1, <3>1
    <3> QED
      BY <1>1, <1>2, <1>a, <1>f, <2>1, <2>2, <3>2
  <2>3. CASE p # o
    BY <1>d, <1>e, <2>1, <2>3
  <2> QED
    BY <2>2, <2>3
<1>7. FirstBlock \in DOMAIN new
  BY <1>1, <1>2, TilesFacts
<1> QED
  BY <1>3, <1>4, <1>5, <1>6, <1>7 DEF Tiles, new

\* Marking a block used or free does not move any boundary.
LEMMA FlagTiles ==
    ASSUME NEW blk, NEW total \in Nat, Tiles(blk, total),
           NEW o \in DOMAIN blk, NEW flag \in BOOLEAN
    PROVE  Tiles([blk EXCEPT ![o].free = flag], total)
<1> DEFINE new == [blk EXCEPT ![o].free = flag]
<1>1. DOMAIN new = DOMAIN blk
  OBVIOUS
<1>2. \A p \in DOMAIN blk : new[p] = IF p = o THEN [blk[o] EXCEPT !.free = flag] ELSE blk[p]
  OBVIOUS
<1> HIDE DEF new
<1>3. \A p \in DOMAIN blk : /\ p \in Nat /\ p >= FirstBlock /\ blk[p] \in BlockType
  BY DEF Tiles
<1>4. \A p \in DOMAIN blk : /\ new[p] \in BlockType
                            /\ new[p].size = blk[p].size
                            /\ new[p].prev = blk[p].prev /\ new[p].next = blk[p].next
  BY <1>2, <1>3 DEF BlockType
<1>5. Tiles(new, total)
  BY <1>1, <1>3, <1>4 DEF Tiles
<1> QED
  BY <1>5 DEF new

\* The free neighbours that the merge around o is about to remove.
OnlyAround(blk, o) ==
    \A p \in DOMAIN blk : blk[p].free /\ freeAt(blk, blk[p].next) => p = o \/ blk[p].next = o

\* coalesce leaves a tiling of the same segment in which no two neighbours are
\* free, when the only free neighbours were those of the block it is called on
\* (deallocate and shrinkBlock).
LEMMA CoalesceTiles ==
    ASSUME NEW blk, NEW total \in Nat, Tiles(blk, total),
           NEW o \in DOMAIN blk, blk[o].free, OnlyAround(blk, o)
    PROVE  Tiles(coalesce(blk, o), total) /\ Coalesced(coalesce(blk, o))
<1> DEFINE n == blk[o].next
           joined == IF freeAt(blk, n) THEN absorbNext(blk, o) ELSE blk
           q == joined[o].prev
           result == IF freeAt(joined, q) THEN absorbNext(joined, q) ELSE joined
<1>0. coalesce(blk, o) = result
  BY DEF coalesce
<1>1. /\ Tiles(joined, total) /\ o \in DOMAIN joined /\ joined[o].free
      /\ \A p \in DOMAIN joined :
           joined[p].free /\ freeAt(joined, joined[p].next) => joined[p].next = o
  <2>1. CASE freeAt(blk, n)
    <3>1. n # NoBlock /\ blk[n].free
      BY <2>1 DEF freeAt
    <3>2. Swallows(blk, o, n, absorbNext(blk, o)) /\ Tiles(absorbNext(blk, o), total)
      BY <3>1, AbsorbFields, AbsorbTiles
    <3>3. joined = absorbNext(blk, o)
      BY <2>1
    <3>b. n \in DOMAIN blk /\ n > o /\ n # o
      BY <3>2, TilesFacts DEF Swallows
    <3>a. /\ blk[n].next # NoBlock => blk[n].next \in DOMAIN blk /\ blk[n].next > n
          /\ n \in Nat /\ o \in Nat
      BY <3>b, TilesFacts
    <3>c. NoBlock \notin DOMAIN blk
      BY TilesFacts
    <3> HIDE DEF joined, n
    <3>4. /\ DOMAIN joined = DOMAIN blk \ {n}
          /\ joined[o].free = blk[o].free /\ joined[o].next = blk[n].next
          /\ \A p \in DOMAIN blk \ {o, n} :
               joined[p].free = blk[p].free /\ joined[p].next = blk[p].next
      <4>1. Swallows(blk, o, n, joined)
        BY <3>2, <3>3
      <4>2. ASSUME NEW p \in DOMAIN blk \ {o, n}
            PROVE  joined[p].free = blk[p].free /\ joined[p].next = blk[p].next
        <5> DEFINE back == IF p = blk[n].next THEN o ELSE blk[p].prev
        <5>1. joined[p] = [size |-> blk[p].size, free |-> blk[p].free,
                           next |-> blk[p].next, prev |-> back]
          BY <4>1 DEF Swallows
        <5> HIDE DEF back
        <5> QED
          BY <5>1
      <4>3. DOMAIN joined = DOMAIN blk \ {n}
        BY <4>1 DEF Swallows
      <4>4. joined[o].free = blk[o].free /\ joined[o].next = blk[n].next
        BY <4>1 DEF Swallows
      <4> QED
        BY <4>2, <4>3, <4>4
    <3>5. \A p \in DOMAIN blk : blk[p].next # NoBlock => blk[p].next \in DOMAIN blk
      BY TilesFacts
    <3>6. \A p \in DOMAIN blk : p # o => blk[p].next # n
      BY <3>1, TilesFacts DEF n
    <3>7. ASSUME NEW p \in DOMAIN joined, joined[p].free, freeAt(joined, joined[p].next)
          PROVE  joined[p].next = o
      <4>1. CASE p = o
        <5>1. blk[n].next # NoBlock /\ joined[blk[n].next].free
          BY <3>4, <3>7, <4>1 DEF freeAt
        <5>2. blk[n].next \in DOMAIN blk \ {o, n}
          BY <3>a, <3>b, <5>1
        <5>3. freeAt(blk, blk[n].next)
          BY <3>4, <5>1, <5>2 DEF freeAt
        <5> QED
          BY <3>1, <3>b, <5>2, <5>3 DEF OnlyAround
      <4>2. CASE p # o
        <5>1. p \in DOMAIN blk \ {o, n}
          BY <3>4, <4>2
        <5>2. joined[p].next = blk[p].next /\ blk[p].free
          BY <3>4, <3>7, <5>1
        <5>3. blk[p].next # NoBlock /\ joined[blk[p].next].free
          BY <3>7, <5>2 DEF freeAt
        <5>4. blk[p].next # o => blk[p].next \in DOMAIN blk \ {o, n}
          BY <3>5, <3>6, <5>1, <5>3
        <5>5. blk[p].next # o => freeAt(blk, blk[p].next)
          BY <3>4, <5>3, <5>4 DEF freeAt
        <5> QED
          BY <5>1, <5>2, <5>5, <4>2 DEF OnlyAround
      <4> QED
        BY <4>1, <4>2
    <3> QED
      BY <3>2, <3>3, <3>4, <3>7, <3>b
  <2>2. CASE ~freeAt(blk, n)
    BY <2>2 DEF OnlyAround
  <2> QED
    BY <2>1, <2>2
<1> HIDE DEF joined
<1>2. Tiles(result, total) /\ Coalesced(result)
  <2>0. \A p \in DOMAIN joined : joined[p].next # NoBlock => joined[p].next \in DOMAIN joined
    BY <1>1, TilesFacts
  <2>1. CASE freeAt(joined, q)
    <3>1. q # NoBlock /\ joined[q].free
      BY <2>1 DEF freeAt
    <3>2. q \in DOMAIN joined /\ joined[q].next = o /\ o # NoBlock /\ q # o
      BY <1>1, <3>1, TilesFacts
    <3> DEFINE new == absorbNext(joined, q)
    <3>3. Swallows(joined, q, o, new) /\ Tiles(new, total)
      BY <1>1, <3>2, AbsorbFields, AbsorbTiles
    <3>4. result = new
      BY <2>1
    <3> HIDE DEF new, q
    <3>5. DOMAIN new = DOMAIN joined \ {o} /\ new[q].free = joined[q].free
          /\ new[q].next = joined[o].next
      BY <3>3 DEF Swallows
    <3>6. ASSUME NEW p \in DOMAIN joined \ {q, o}
          PROVE  new[p].free = joined[p].free /\ new[p].next = joined[p].next
      <4> DEFINE back == IF p = joined[o].next THEN q ELSE joined[p].prev
      <4>1. new[p] = [size |-> joined[p].size, free |-> joined[p].free,
                      next |-> joined[p].next, prev |-> back]
        BY <3>3 DEF Swallows
      <4> HIDE DEF back
      <4> QED
        BY <4>1
    <3>7. \A p \in DOMAIN joined : joined[p].next = o => p = q
      BY <1>1, <3>2, TilesFacts
    <3>8. /\ joined[o].next # o
          /\ joined[o].next = NoBlock \/ joined[o].next > o
          /\ o > q /\ o \in Nat /\ q \in Nat /\ joined[o].next \in Nat
      BY <1>1, <3>2, TilesFacts
    <3>9. ASSUME NEW p \in DOMAIN new, new[p].free PROVE ~freeAt(new, new[p].next)
      <4>1. CASE p = q
        <5>1. SUFFICES ASSUME joined[o].next # NoBlock, new[joined[o].next].free PROVE FALSE
          BY <3>5, <4>1 DEF freeAt
        <5>2. joined[o].next \in DOMAIN joined \ {q, o}
          BY <1>1, <2>0, <3>8, <5>1
        <5>3. freeAt(joined, joined[o].next)
          BY <3>6, <5>1, <5>2 DEF freeAt
        <5> QED
          BY <1>1, <3>8, <5>3
      <4>2. CASE p # q
        <5>1. p \in DOMAIN joined \ {q, o}
          BY <3>5, <4>2
        <5>2. joined[p].free /\ new[p].next = joined[p].next /\ joined[p].next # o
          BY <3>6, <3>7, <3>9, <5>1
        <5>3. SUFFICES ASSUME joined[p].next # NoBlock, new[joined[p].next].free PROVE FALSE
          BY <5>2 DEF freeAt
        <5>4. joined[p].next \in DOMAIN joined \ {o}
          BY <2>0, <5>1, <5>2, <5>3
        <5>5. joined[joined[p].next].free
          BY <3>5, <3>6, <5>3, <5>4
        <5> QED
          BY <1>1, <5>1, <5>2, <5>3, <5>5 DEF freeAt
      <4> QED
        BY <4>1, <4>2
    <3> QED
      BY <3>3, <3>4, <3>9 DEF Coalesced
  <2>2. CASE ~freeAt(joined, q)
    <3>1. result = joined
      BY <2>2
    <3>2. ASSUME NEW p \in DOMAIN joined, joined[p].free, freeAt(joined, joined[p].next)
          PROVE  FALSE
      <4>1. joined[p].next = o
        BY <1>1, <3>2
      <4>2. joined[o].prev = p /\ p # NoBlock
        BY <1>1, <4>1, TilesFacts
      <4> QED
        BY <2>2, <3>2, <4>2 DEF freeAt
    <3> QED
      BY <1>1, <3>1, <3>2 DEF Coalesced
  <2> QED
    BY <2>1, <2>2
<1> QED
  BY <1>0, <1>2

-----------------------------------------------------------------------------
(* What an allocator's methods do to the segments they are given.          *)

Listed(h) == {h.segments[i] : i \in DOMAIN h.segments}
SoundSegment(s) == Tiles(s.blk, s.total) /\ Coalesced(s.blk)
SegmentsType(seg) ==
    /\ DOMAIN seg = Cells
    /\ \A c \in Cells : /\ DOMAIN seg[c] = {"total", "caps", "blk"}
                        /\ seg[c].total \in Nat /\ seg[c].caps \subseteq Flags

\* An allocator object between two calls.
Well(h, seg) ==
    /\ h \in AllocatorType /\ ListSound(h)
    /\ SegmentsType(seg)
    /\ \A c \in Listed(h) : SoundSegment(seg[c])

\* A call that leaves the segment list alone...
SameList(h, new) ==
    /\ new \in AllocatorType /\ ListSound(new)
    /\ new.segments = h.segments
    /\ new.requiredCaps = h.requiredCaps /\ new.forbiddenCaps = h.forbiddenCaps

\* ... and touches no segment that is not on it.
OnlyListed(h, seg, new) ==
    /\ SegmentsType(new)
    /\ \A c \in Cells : /\ new[c].total = seg[c].total /\ new[c].caps = seg[c].caps
                        /\ new[c] = seg[c] \/ (c \in Listed(h) /\ SoundSegment(new[c]))

HeapStep(h, seg, newH, newSeg) == SameList(h, newH) /\ OnlyListed(h, seg, newSeg)

\* The segment list of an allocator object lists cells.
LEMMA ListedFacts ==
    ASSUME NEW h \in AllocatorType
    PROVE  /\ h.segments \in Seq(Cells) /\ Listed(h) \subseteq Cells
           /\ \A i \in DOMAIN h.segments : h.segments[i] \in Listed(h)
<1>1. h.segments \in Seq(Cells)
  BY DEF AllocatorType
<1>2. \A i \in DOMAIN h.segments : h.segments[i] \in Cells
  BY <1>1
<1> QED
  BY <1>1, <1>2 DEF Listed

\* A call that fails is a step of the heap that changes nothing.
LEMMA StepReflexive ==
    ASSUME NEW h, NEW seg, Well(h, seg)
    PROVE  HeapStep(h, seg, h, seg)
  BY DEF Well, HeapStep, SameList, OnlyListed

\* Two steps of the heap in a row, as moveBlock takes, are one step.
LEMMA StepTransitive ==
    ASSUME NEW h1, NEW s1, NEW h2, NEW s2, NEW h3, NEW s3,
           HeapStep(h1, s1, h2, s2), HeapStep(h2, s2, h3, s3)
    PROVE  HeapStep(h1, s1, h3, s3)
<1>1. Listed(h2) = Listed(h1)
  BY DEF HeapStep, SameList, Listed
<1> QED
  BY <1>1 DEF HeapStep, SameList, OnlyListed

\* Such a call keeps the allocator well formed.
LEMMA StepKeepsWell ==
    ASSUME NEW h1, NEW s1, NEW h2, NEW s2, Well(h1, s1), HeapStep(h1, s1, h2, s2)
    PROVE  Well(h2, s2)
<1>1. Listed(h2) = Listed(h1) /\ Listed(h1) \subseteq Cells
  BY ListedFacts DEF HeapStep, SameList, Listed, Well
<1>2. \A c \in Listed(h1) : SoundSegment(s2[c])
  BY <1>1 DEF Well, HeapStep, OnlyListed
<1> QED
  BY <1>1, <1>2 DEF Well, HeapStep, SameList, OnlyListed

\* Rewriting the blocks of one listed segment.
LEMMA RewriteSegment ==
    ASSUME NEW h, NEW seg, Well(h, seg), NEW c \in Listed(h), NEW blk,
           Tiles(blk, seg[c].total), Coalesced(blk)
    PROVE  OnlyListed(h, seg, [seg EXCEPT ![c].blk = blk])
<1> DEFINE new == [seg EXCEPT ![c].blk = blk]
<1>1. c \in Cells /\ DOMAIN seg = Cells
  BY ListedFacts DEF Well, SegmentsType
<1>2. /\ DOMAIN new = Cells /\ new[c] = [seg[c] EXCEPT !.blk = blk]
      /\ \A d \in Cells \ {c} : new[d] = seg[d]
  BY <1>1
<1> HIDE DEF new
<1>3. \A d \in Cells : /\ DOMAIN seg[d] = {"total", "caps", "blk"}
                       /\ seg[d].total \in Nat /\ seg[d].caps \subseteq Flags
  BY DEF Well, SegmentsType
<1>4. /\ DOMAIN new[c] = {"total", "caps", "blk"}
      /\ new[c].total = seg[c].total /\ new[c].caps = seg[c].caps /\ new[c].blk = blk
  BY <1>1, <1>2, <1>3
<1>5. SegmentsType(new)
  BY <1>1, <1>2, <1>3, <1>4 DEF SegmentsType
<1>6. SoundSegment(new[c])
  BY <1>4 DEF SoundSegment
<1>7. OnlyListed(h, seg, new)
  BY <1>2, <1>4, <1>5, <1>6 DEF OnlyListed
<1> QED
  BY <1>7 DEF new

\* A fresh segment is one free block over its whole payload (createSegment).
LEMMA FreshSegment ==
    ASSUME NEW payload \in Nat, NEW caps \in SUBSET Flags
    PROVE  /\ SoundSegment(newSegment(payload, caps))
           /\ DOMAIN newSegment(payload, caps) = {"total", "caps", "blk"}
           /\ newSegment(payload, caps).total \in Nat
           /\ newSegment(payload, caps).caps \subseteq Flags
<1> DEFINE blk == [o \in {FirstBlock} |->
                     [size |-> payload, free |-> TRUE, prev |-> NoBlock, next |-> NoBlock]]
<1>1. FirstBlock \in Nat /\ FirstBlock > 0 /\ SegmentHeaderBytes \in Nat /\ BlockHeaderBytes \in Nat
  BY HeaderAssumption DEF FirstBlock
<1>2. /\ DOMAIN blk = {FirstBlock}
      /\ blk[FirstBlock] = [size |-> payload, free |-> TRUE, prev |-> NoBlock, next |-> NoBlock]
  OBVIOUS
<1> HIDE DEF blk
<1>3. blk[FirstBlock] \in BlockType
  BY <1>2 DEF BlockType, NoBlock
<1>4. FirstBlock + payload = totalBytes(payload)
  BY <1>1 DEF FirstBlock, totalBytes
<1>5. Tiles(blk, totalBytes(payload))
  <2>1. \A o \in DOMAIN blk : o = FirstBlock
    BY <1>2
  <2>2. /\ blk[FirstBlock].prev = NoBlock /\ blk[FirstBlock].next = NoBlock
        /\ blk[FirstBlock].size = payload
    BY <1>2
  <2>3. \A o, q \in DOMAIN blk : ~(o < q)
    BY <1>1, <2>1
  <2>4. \A o \in DOMAIN blk : /\ o \in Nat /\ o >= FirstBlock /\ blk[o] \in BlockType
                              /\ blk[o].prev = NoBlock /\ blk[o].next = NoBlock
                              /\ o + blk[o].size = totalBytes(payload)
    <3> TAKE o \in DOMAIN blk
    <3>1. o = FirstBlock
      BY <2>1
    <3> QED
      BY <1>1, <1>3, <1>4, <2>2, <3>1
  <2>5. FirstBlock \in DOMAIN blk
    BY <1>2
  <2> QED
    BY <2>1, <2>3, <2>4, <2>5 DEF Tiles
<1>6. Coalesced(blk)
  BY <1>2 DEF Coalesced, freeAt
<1>7. newSegment(payload, caps) = [total |-> totalBytes(payload), caps |-> caps, blk |-> blk]
  BY DEF newSegment, blk
<1>8. totalBytes(payload) \in Nat
  BY <1>1 DEF totalBytes
<1> QED
  BY <1>5, <1>6, <1>7, <1>8 DEF SoundSegment

\* Both attempts of createSegment ask for a natural number of bytes.
LEMMA PayloadsAreNumbers ==
    ASSUME NEW n \in Nat
    PROVE  segmentPayloads(n) \subseteq Nat
<1>1. (IF n > DefaultSegmentBytes THEN n ELSE DefaultSegmentBytes) \in Nat
  BY SegmentAssumption
<1> QED
  BY <1>1, AlignUpBound DEF segmentPayloads, defaultPayload

\* Best fit returns a block that fits whenever one does.
LEMMA BestFits ==
    ASSUME NEW seg, NEW c, Tiles(seg[c].blk, seg[c].total), seg[c].total \in Nat,
           NEW size, fits(seg, c, size) # {}
    PROVE  bestFit(seg, c, size) \in fits(seg, c, size)
<1> DEFINE F == fits(seg, c, size)
           blk == seg[c].blk
           sizes == {blk[o].size : o \in F}
<1>1. F \subseteq DOMAIN blk
  BY DEF fits
<1>2. \A o \in F : o \in Nat /\ blk[o].size \in Nat
  BY <1>1, TilesFacts
<1> HIDE DEF F, blk
<1>3. PICK least \in sizes : \A x \in sizes : least <= x
  <2>1. sizes \in SUBSET Nat /\ sizes # {}
    BY <1>2 DEF F
  <2> QED
    BY <2>1, LeastElement
<1> DEFINE small == {o \in F : blk[o].size = least}
<1>4. PICK o \in small : \A q \in small : o <= q
  <2>1. small \in SUBSET Nat /\ small # {}
    BY <1>2, <1>3
  <2> HIDE DEF small
  <2> QED
    BY <2>1, LeastElement
<1>5. \A q \in F : blk[o].size < blk[q].size \/ (blk[o].size = blk[q].size /\ o <= q)
  <2> TAKE q \in F
  <2>1. blk[o].size = least /\ o \in F
    BY <1>4
  <2>2. least <= blk[q].size /\ least \in Nat
    BY <1>2, <1>3
  <2>3. blk[q].size = least => o <= q
    BY <1>4
  <2> QED
    BY <1>2, <2>1, <2>2, <2>3
<1>6. o \in F
  BY <1>4
<1> QED
  BY <1>5, <1>6 DEF bestFit, F, blk

\* If some segment can serve the request, findFreeBlock returns a free block
\* that is large enough in one that can, wherever its search starts.
LEMMA ServedIsFree ==
    ASSUME NEW h, NEW seg, Well(h, seg), NEW size, NEW caps,
           servingPositions(h, seg, size, caps) # {}
    PROVE  \E c \in Listed(h) : \E o \in fits(seg, c, size) :
              findFreeBlock(h, seg, size, caps) = <<c, o>>
<1> DEFINE serving == servingPositions(h, seg, size, caps)
           visits == {visitedBefore(h, i) : i \in serving}
           first == CHOOSE i \in serving :
                      \A j \in serving : visitedBefore(h, i) <= visitedBefore(h, j)
           c == h.segments[first]
<1>1. serving # {} /\ findFreeBlock(h, seg, size, caps) = <<c, bestFit(seg, c, size)>>
  BY DEF findFreeBlock
<1>2. h.segments \in Seq(Cells) /\ \A i \in DOMAIN h.segments : h.segments[i] \in Listed(h)
  BY ListedFacts DEF Well
<1>3. \A i \in serving : /\ i \in DOMAIN h.segments /\ i \in 1..Len(h.segments)
                         /\ fits(seg, h.segments[i], size) # {}
  BY <1>2 DEF servingPositions
<1>4. \A i \in DOMAIN h.segments : visitedBefore(h, i) \in Nat
  <2> TAKE i \in DOMAIN h.segments
  <2> DEFINE start == IF h.hint = NoCell THEN 1
                      ELSE CHOOSE k \in DOMAIN h.segments : h.segments[k] = h.hint
  <2>1. DOMAIN h.segments = 1..Len(h.segments) /\ Len(h.segments) \in Nat
    BY <1>2
  <2>2. h.hint # NoCell => \E k \in DOMAIN h.segments : h.segments[k] = h.hint
    BY DEF Well, ListSound
  <2>3. start \in 1..Len(h.segments)
    BY <2>1, <2>2
  <2>4. visitedBefore(h, i) = IF i >= start THEN i - start ELSE i - start + Len(h.segments)
    BY DEF visitedBefore
  <2> HIDE DEF start
  <2> QED
    BY <2>1, <2>3, <2>4
<1>5. \E i \in serving : \A j \in serving : visitedBefore(h, i) <= visitedBefore(h, j)
  <2>1. visits \in SUBSET Nat /\ visits # {}
    BY <1>1, <1>3, <1>4
  <2> HIDE DEF visits
  <2>2. PICK v \in visits : \A w \in visits : v <= w
    BY <2>1, LeastElement
  <2> QED
    BY <2>2 DEF visits
<1>6. first \in serving
  BY <1>5
<1> HIDE DEF serving, first
<1>7. c \in Listed(h) /\ fits(seg, c, size) # {}
  BY <1>2, <1>3, <1>6
<1>8. Tiles(seg[c].blk, seg[c].total) /\ seg[c].total \in Nat
  BY <1>7, ListedFacts DEF Well, SoundSegment, SegmentsType
<1>9. bestFit(seg, c, size) \in fits(seg, c, size)
  BY <1>7, <1>8, BestFits
<1> QED
  BY <1>1, <1>7, <1>9

\* findFreeBlock returns nullptr, or a free block that is large enough in one
\* of the listed segments with the requested capabilities.
LEMMA FoundIsFree ==
    ASSUME NEW h, NEW seg, Well(h, seg), NEW size, NEW caps,
           findFreeBlock(h, seg, size, caps) # NoPtr
    PROVE  \E c \in Listed(h) : \E o \in fits(seg, c, size) :
              findFreeBlock(h, seg, size, caps) = <<c, o>>
<1>1. servingPositions(h, seg, size, caps) # {}
  BY DEF findFreeBlock
<1> QED
  BY <1>1, ServedIsFree

\* The counters change, the list and the hint do not dangle.
LEMMA CountersOnly ==
    ASSUME NEW h, NEW seg, Well(h, seg), NEW used \in Int, NEW free \in Int, NEW count \in Int,
           NEW hint, hint = h.hint \/ hint \in Listed(h)
    PROVE  SameList(h, [h EXCEPT !.usedBytes = used, !.freeBytes = free,
                                 !.allocationCount = count, !.hint = hint])
<1> DEFINE new == [h EXCEPT !.usedBytes = used, !.freeBytes = free,
                            !.allocationCount = count, !.hint = hint]
<1>1. h \in AllocatorType /\ ListSound(h)
  BY DEF Well
<1>2. hint \in Cells \cup {NoCell}
  BY <1>1, ListedFacts DEF AllocatorType
<1>3. new \in AllocatorType
  BY <1>1, <1>2 DEF AllocatorType
<1>4. /\ new.segments = h.segments /\ new.hint = hint
      /\ new.requiredCaps = h.requiredCaps /\ new.forbiddenCaps = h.forbiddenCaps
  BY <1>1 DEF AllocatorType
<1> HIDE DEF new
<1>5. ListSound(new)
  BY <1>1, <1>4 DEF ListSound, Listed
<1>6. SameList(h, new)
  BY <1>3, <1>4, <1>5 DEF SameList
<1> QED
  BY <1>6 DEF new

\* Rewriting the counters leaves the list and the hint alone (deallocate).
LEMMA CountersOnlyNoHint ==
    ASSUME NEW h, NEW seg, Well(h, seg), NEW used \in Int, NEW free \in Int, NEW count \in Int
    PROVE  SameList(h, [h EXCEPT !.usedBytes = used, !.freeBytes = free,
                                 !.allocationCount = count])
<1> DEFINE new == [h EXCEPT !.usedBytes = used, !.freeBytes = free, !.allocationCount = count]
<1>1. h \in AllocatorType /\ ListSound(h)
  BY DEF Well
<1>2. new \in AllocatorType
  BY <1>1 DEF AllocatorType
<1>3. /\ new.segments = h.segments /\ new.hint = h.hint
      /\ new.requiredCaps = h.requiredCaps /\ new.forbiddenCaps = h.forbiddenCaps
  BY <1>1 DEF AllocatorType
<1> HIDE DEF new
<1>4. ListSound(new)
  BY <1>1, <1>3 DEF ListSound
<1>5. SameList(h, new)
  BY <1>2, <1>3, <1>4 DEF SameList
<1> QED
  BY <1>5 DEF new

\* Splitting a free block and marking its front used leaves the segment sound.
LEMMA TakeBlocks ==
    ASSUME NEW blk, NEW total \in Nat, Tiles(blk, total), Coalesced(blk),
           NEW o \in DOMAIN blk, blk[o].free, NEW size \in Nat, NEW cut,
           cut = IF canSplit(blk[o].size, size) THEN splitAt(blk, o, size) ELSE blk
    PROVE  /\ o \in DOMAIN cut /\ cut[o].size \in Nat /\ Tiles(cut, total)
           /\ Tiles([cut EXCEPT ![o].free = FALSE], total)
           /\ Coalesced([cut EXCEPT ![o].free = FALSE])
<1> DEFINE rest == o + size + BlockHeaderBytes
           new == [cut EXCEPT ![o].free = FALSE]
<1>1. Tiles(cut, total)
  BY SplitTiles
<1>2. canSplit(blk[o].size, size) => SplitsInto(blk, o, size, rest, cut)
  BY SplitFields
<1> HIDE DEF rest
<1>3. o \in DOMAIN cut
  BY <1>2 DEF SplitsInto
<1>4. Tiles(new, total) /\ cut[o].size \in Nat
  BY <1>1, <1>3, FlagTiles, TilesFacts
<1>5. DOMAIN new = DOMAIN cut
  OBVIOUS
<1>6. /\ new[o].free = FALSE /\ new[o].next = cut[o].next
      /\ \A p \in DOMAIN cut \ {o} : new[p] = cut[p]
  <2>1. new[o] = [cut[o] EXCEPT !.free = FALSE] /\ \A p \in DOMAIN cut \ {o} : new[p] = cut[p]
    BY <1>3
  <2>2. cut[o] \in BlockType
    BY <1>1, <1>3, TilesFacts
  <2> QED
    BY <2>1, <2>2 DEF BlockType
<1>7. \A p \in DOMAIN blk : blk[p].next # NoBlock => blk[p].next \in DOMAIN blk /\ blk[p].next # p
  BY TilesFacts
<1> HIDE DEF new
<1>8. ASSUME NEW p \in DOMAIN new, new[p].free PROVE ~freeAt(new, new[p].next)
  <2>0. p \in DOMAIN cut \ {o} /\ new[p] = cut[p]
    BY <1>5, <1>6, <1>8
  <2>1. CASE ~canSplit(blk[o].size, size)
    <3>1. cut = blk
      BY <2>1
    <3>2. SUFFICES ASSUME blk[p].next # NoBlock, new[blk[p].next].free PROVE FALSE
      BY <2>0, <3>1 DEF freeAt
    <3>3. blk[p].next \in DOMAIN blk \ {o}
      BY <1>6, <1>7, <2>0, <3>1, <3>2
    <3> QED
      BY <1>6, <1>8, <2>0, <3>1, <3>2, <3>3 DEF Coalesced, freeAt
  <2>2. CASE canSplit(blk[o].size, size)
    <3>1. /\ rest \notin DOMAIN blk /\ DOMAIN cut = DOMAIN blk \cup {rest}
          /\ cut[rest].next = blk[o].next
      BY <1>2, <2>2 DEF SplitsInto
    <3>2. ASSUME NEW q \in DOMAIN blk \ {o}
          PROVE  cut[q].free = blk[q].free /\ cut[q].next = blk[q].next
      <4> DEFINE back == IF q = blk[o].next THEN rest ELSE blk[q].prev
      <4>1. cut[q] = [size |-> blk[q].size, free |-> blk[q].free, next |-> blk[q].next,
                      prev |-> back]
        BY <1>2, <2>2 DEF SplitsInto
      <4> HIDE DEF back
      <4> QED
        BY <4>1
    <3>3. PICK q \in DOMAIN blk : new[p].next = blk[q].next /\ blk[q].free
      BY <1>8, <2>0, <3>1, <3>2
    <3>4. SUFFICES ASSUME blk[q].next # NoBlock, new[blk[q].next].free PROVE FALSE
      BY <3>3 DEF freeAt
    <3>5. blk[q].next \in DOMAIN blk \ {o}
      BY <1>6, <1>7, <3>4
    <3>6. blk[blk[q].next].free
      BY <1>6, <3>1, <3>2, <3>4, <3>5
    <3> QED
      BY <3>3, <3>4, <3>6 DEF Coalesced, freeAt
  <2> QED
    BY <2>1, <2>2
<1>9. Coalesced(new)
  BY <1>8 DEF Coalesced
<1> QED
  BY <1>1, <1>3, <1>4, <1>9 DEF new

\* takeBlock keeps the heap well formed and returns the block it was given.
LEMMA TakeBlockStep ==
    ASSUME NEW h, NEW seg, Well(h, seg), NEW c \in Listed(h), NEW size \in Nat,
           NEW o \in fits(seg, c, size)
    PROVE  LET r == takeBlock(h, seg, <<c, o>>, size)
           IN  HeapStep(h, seg, r.h, r.seg) /\ r.ptr = <<c, o>>
<1> DEFINE blk == seg[c].blk
           cut == IF canSplit(blk[o].size, size) THEN splitAt(blk, o, size) ELSE blk
           left == h.freeBytes - (IF canSplit(blk[o].size, size) THEN BlockHeaderBytes ELSE 0)
           r == takeBlock(h, seg, <<c, o>>, size)
<1>1. /\ seg[c].total \in Nat /\ Tiles(blk, seg[c].total) /\ Coalesced(blk)
      /\ h.freeBytes \in Int /\ h.usedBytes \in Int /\ h.allocationCount \in Int
      /\ BlockHeaderBytes \in Int
  BY ListedFacts, HeaderAssumption DEF Well, SoundSegment, SegmentsType, AllocatorType
<1>2. o \in DOMAIN blk /\ blk[o].free
  BY DEF fits
<1>3. /\ r.ptr = <<c, o>>
      /\ r.seg = [seg EXCEPT ![c].blk = [cut EXCEPT ![o].free = FALSE]]
      /\ r.h = [h EXCEPT !.usedBytes = h.usedBytes + cut[o].size,
                         !.freeBytes = saturating(left, cut[o].size),
                         !.allocationCount = h.allocationCount + 1,
                         !.hint = c]
  BY DEF takeBlock
<1> HIDE DEF blk, r
<1>4. /\ cut[o].size \in Nat
      /\ Tiles([cut EXCEPT ![o].free = FALSE], seg[c].total)
      /\ Coalesced([cut EXCEPT ![o].free = FALSE])
  BY <1>1, <1>2, TakeBlocks
<1>5. left \in Int
  BY <1>1
<1> DEFINE taken == [cut EXCEPT ![o].free = FALSE]
           used == h.usedBytes + cut[o].size
           free == saturating(left, cut[o].size)
           count == h.allocationCount + 1
<1> HIDE DEF cut, left
<1>6. OnlyListed(h, seg, r.seg)
  <2>1. r.seg = [seg EXCEPT ![c].blk = taken]
    BY <1>3
  <2>2. Tiles(taken, seg[c].total) /\ Coalesced(taken)
    BY <1>4
  <2> HIDE DEF taken
  <2>3. OnlyListed(h, seg, [seg EXCEPT ![c].blk = taken])
    BY <2>2, RewriteSegment
  <2> QED
    BY <2>1, <2>3
<1>7. used \in Int /\ free \in Int /\ count \in Int
  BY <1>1, <1>4, <1>5 DEF saturating
<1>8. SameList(h, r.h)
  <2>1. r.h = [h EXCEPT !.usedBytes = used, !.freeBytes = free,
                        !.allocationCount = count, !.hint = c]
    BY <1>3
  <2> HIDE DEF used, free, count
  <2>2. SameList(h, [h EXCEPT !.usedBytes = used, !.freeBytes = free,
                              !.allocationCount = count, !.hint = c])
    BY <1>7, CountersOnly
  <2> QED
    BY <2>1, <2>2
<1> QED
  BY <1>3, <1>6, <1>8 DEF HeapStep, r

\* What a call of allocate may do: fail and change nothing, or hand out a block
\* of a listed segment.
LEMMA AllocateStep ==
    ASSUME NEW h, NEW seg, Well(h, seg), NEW n \in Nat, NEW caps
    PROVE  LET r == allocate(h, seg, n, caps)
           IN  /\ HeapStep(h, seg, r.h, r.seg)
               /\ r.ptr = NoPtr \/ (r.ptr[1] \in Listed(h) /\ r.ptr \in Cells \X Nat)
<1> DEFINE size == alignUp(IF n = 0 THEN 1 ELSE n)
           p == findFreeBlock(h, seg, size, caps)
           r == allocate(h, seg, n, caps)
<1>1. size \in Nat
  BY AlignUpBound
<1>2. r = IF isEligibleCaps(h, caps) /\ p # NoPtr
          THEN takeBlock(h, seg, p, size)
          ELSE [h |-> h, seg |-> seg, ptr |-> NoPtr]
  BY DEF allocate
<1> HIDE DEF r, size
<1>3. CASE isEligibleCaps(h, caps) /\ p # NoPtr
  <2>1. PICK c \in Listed(h) : \E o \in fits(seg, c, size) : p = <<c, o>>
    BY <1>3, FoundIsFree
  <2>2. PICK o \in fits(seg, c, size) : p = <<c, o>>
    BY <2>1
  <2>3. r = takeBlock(h, seg, <<c, o>>, size)
    BY <1>2, <1>3, <2>2
  <2>4. HeapStep(h, seg, r.h, r.seg) /\ r.ptr = <<c, o>>
    BY <1>1, <2>3, TakeBlockStep
  <2>5. c \in Cells /\ o \in Nat
    <3>1. c \in Cells
      BY ListedFacts DEF Well
    <3>2. Tiles(seg[c].blk, seg[c].total) /\ seg[c].total \in Nat
      BY <3>1 DEF Well, SoundSegment, SegmentsType
    <3>3. o \in DOMAIN seg[c].blk
      BY DEF fits
    <3> QED
      BY <3>1, <3>2, <3>3, TilesFacts
  <2>6. r.ptr[1] \in Listed(h) /\ r.ptr \in Cells \X Nat
    BY <2>4, <2>5
  <2> QED
    BY <2>4, <2>6 DEF r
<1>4. CASE ~(isEligibleCaps(h, caps) /\ p # NoPtr)
  <2>1. r = [h |-> h, seg |-> seg, ptr |-> NoPtr]
    BY <1>2, <1>4
  <2>2. HeapStep(h, seg, r.h, r.seg) /\ r.ptr = NoPtr
    BY <2>1, StepReflexive
  <2> QED
    BY <2>2 DEF r
<1> QED
  BY <1>3, <1>4

\* The pointer of a used block names a cell of the list.
LEMMA OwnedFacts ==
    ASSUME NEW h, NEW seg, Well(h, seg), NEW p, owns(h, seg, p)
    PROVE  /\ p[1] \in Listed(h) /\ p[1] \in Cells
           /\ p[2] \in DOMAIN seg[p[1]].blk
           /\ Tiles(seg[p[1]].blk, seg[p[1]].total) /\ Coalesced(seg[p[1]].blk)
           /\ seg[p[1]].total \in Nat
           /\ seg[p[1]].blk[p[2]].size \in Nat
<1>1. p[1] \in Listed(h) /\ p[2] \in DOMAIN seg[p[1]].blk
  BY DEF owns, Listed
<1>2. p[1] \in Cells
  BY <1>1, ListedFacts DEF Well
<1>3. /\ Tiles(seg[p[1]].blk, seg[p[1]].total) /\ Coalesced(seg[p[1]].blk)
      /\ seg[p[1]].total \in Nat
  BY <1>1, <1>2 DEF Well, SoundSegment, SegmentsType
<1> QED
  BY <1>1, <1>2, <1>3, TilesFacts

\* What coalesce adds to mFreeBytes is a number.
LEMMA GainIsNumber == ASSUME NEW blk, NEW o PROVE coalesceGain(blk, o) \in Int
  BY HeaderAssumption DEF coalesceGain

\* deallocate, of a pointer of whatever origin, keeps the heap well formed.
LEMMA DeallocateStep ==
    ASSUME NEW h, NEW seg, Well(h, seg), NEW p
    PROVE  LET r == deallocate(h, seg, p)
           IN  HeapStep(h, seg, r.h, r.seg) /\ (r.ok => p[1] \in Listed(h))
<1> DEFINE blk == seg[p[1]].blk
           o == p[2]
           freed == [blk EXCEPT ![o].free = TRUE]
           r == deallocate(h, seg, p)
<1>1. CASE ~owns(h, seg, p) \/ blk[o].free
  <2>1. r = [ok |-> FALSE, h |-> h, seg |-> seg]
    BY <1>1 DEF deallocate
  <2>2. HeapStep(h, seg, r.h, r.seg) /\ ~r.ok
    BY <2>1, StepReflexive
  <2> QED
    BY <2>2
<1>2. CASE owns(h, seg, p) /\ ~blk[o].free
  <2>1. /\ p[1] \in Listed(h) /\ p[1] \in Cells
        /\ o \in DOMAIN blk /\ Tiles(blk, seg[p[1]].total) /\ Coalesced(blk)
        /\ seg[p[1]].total \in Nat
    BY <1>2, OwnedFacts
  <2>2. /\ r.seg = [seg EXCEPT ![p[1]].blk = coalesce(freed, o)]
        /\ r.h = [h EXCEPT !.usedBytes = saturating(h.usedBytes, freed[o].size),
                           !.freeBytes = h.freeBytes + freed[o].size + coalesceGain(freed, o),
                           !.allocationCount = saturating(h.allocationCount, 1)]
    BY <1>2 DEF deallocate
  <2> HIDE DEF blk, o, r
  <2>3. /\ DOMAIN freed = DOMAIN blk /\ freed[o] = [blk[o] EXCEPT !.free = TRUE]
        /\ \A q \in DOMAIN blk \ {o} : freed[q] = blk[q]
    BY <2>1
  <2>4. blk[o] \in BlockType
    BY <2>1, TilesFacts
  <2>5. freed[o].free /\ freed[o].next = blk[o].next /\ freed[o].size \in Nat
    BY <2>3, <2>4 DEF BlockType
  <2>6. Tiles(freed, seg[p[1]].total)
    BY <2>1, FlagTiles
  <2> HIDE DEF freed
  <2>7. OnlyAround(freed, o)
    <3>0. \A q \in DOMAIN blk : blk[q].next # NoBlock => blk[q].next \in DOMAIN blk
      BY <2>1, TilesFacts
    <3>1. SUFFICES ASSUME NEW q \in DOMAIN freed, freed[q].free, freeAt(freed, freed[q].next),
                          q # o, freed[q].next # o
                   PROVE  FALSE
      BY DEF OnlyAround
    <3>2. blk[q].free /\ blk[q].next # NoBlock /\ blk[q].next # o /\ freed[blk[q].next].free
      BY <2>3, <3>1 DEF freeAt
    <3>3. blk[q].next \in DOMAIN blk \ {o}
      BY <2>3, <3>0, <3>2
    <3>4. freeAt(blk, blk[q].next)
      BY <2>3, <3>2, <3>3 DEF freeAt
    <3> QED
      BY <2>1, <2>3, <3>2, <3>4 DEF Coalesced
  <2>8. Tiles(coalesce(freed, o), seg[p[1]].total) /\ Coalesced(coalesce(freed, o))
    BY <2>1, <2>3, <2>5, <2>6, <2>7, CoalesceTiles
  <2>9. OnlyListed(h, seg, r.seg)
    BY <2>1, <2>2, <2>8, RewriteSegment
  <2> DEFINE used == saturating(h.usedBytes, freed[o].size)
             free == h.freeBytes + freed[o].size + coalesceGain(freed, o)
             count == saturating(h.allocationCount, 1)
  <2>10. used \in Int /\ free \in Int /\ count \in Int
    <3>1. h.usedBytes \in Int /\ h.freeBytes \in Int /\ h.allocationCount \in Int
      BY DEF Well, AllocatorType
    <3>2. coalesceGain(freed, o) \in Int
      BY GainIsNumber
    <3> QED
      BY <2>5, <3>1, <3>2 DEF saturating
  <2>11. r.h = [h EXCEPT !.usedBytes = used, !.freeBytes = free, !.allocationCount = count]
    BY <2>2
  <2>12. SameList(h, r.h)
    <3> HIDE DEF used, free, count
    <3>1. SameList(h, [h EXCEPT !.usedBytes = used, !.freeBytes = free,
                                !.allocationCount = count])
      BY <2>10, CountersOnlyNoHint
    <3> QED
      BY <2>11, <3>1
  <2> QED
    BY <2>1, <2>9, <2>12 DEF HeapStep, r
<1> QED
  BY <1>1, <1>2

\* shrinkBlock gives the tail of a used block back without moving the block.
LEMMA ShrinkStep ==
    ASSUME NEW h, NEW seg, Well(h, seg), NEW p, owns(h, seg, p), ~seg[p[1]].blk[p[2]].free,
           NEW size \in Nat
    PROVE  LET r == shrinkBlock(h, seg, p, size)
           IN  HeapStep(h, seg, r.h, r.seg) /\ r.status = "Done" /\ r.ptr = p
<1> DEFINE blk == seg[p[1]].blk
           o == p[2]
           rest == o + size + BlockHeaderBytes
           cut == splitAt(blk, o, size)
           r == shrinkBlock(h, seg, p, size)
<1>1. CASE blk[o].size <= size \/ ~canSplit(blk[o].size, size)
  <2>1. r = [status |-> "Done", h |-> h, seg |-> seg, ptr |-> p]
    BY <1>1 DEF shrinkBlock
  <2> QED
    BY <2>1, StepReflexive
<1>2. CASE ~(blk[o].size <= size) /\ canSplit(blk[o].size, size)
  <2>1. /\ p[1] \in Listed(h) /\ o \in DOMAIN blk /\ ~blk[o].free
        /\ Tiles(blk, seg[p[1]].total) /\ Coalesced(blk)
        /\ seg[p[1]].total \in Nat /\ blk[o].size \in Nat
    BY OwnedFacts
  <2> DEFINE used == h.usedBytes - (blk[o].size - size)
             free == h.freeBytes + cut[rest].size + coalesceGain(cut, rest)
             count == h.allocationCount
  <2>2. /\ r.seg = [seg EXCEPT ![p[1]].blk = coalesce(cut, rest)]
        /\ r.h = [h EXCEPT !.usedBytes = used, !.freeBytes = free]
        /\ r.status = "Done" /\ r.ptr = p
    BY <1>2 DEF shrinkBlock
  <2>3. SplitsInto(blk, o, size, rest, cut) /\ Tiles(cut, seg[p[1]].total)
    BY <1>2, <2>1, SplitFields, SplitTiles
  <2> HIDE DEF blk, o, r, cut, rest
  <2>4. /\ rest \in DOMAIN cut /\ rest \notin DOMAIN blk /\ cut[rest].free
        /\ DOMAIN cut = DOMAIN blk \cup {rest}
        /\ cut[o].free = blk[o].free /\ cut[o].next = rest
        /\ cut[rest].next = blk[o].next
    BY <2>3 DEF SplitsInto
  <2>5. ASSUME NEW q \in DOMAIN blk \ {o}
        PROVE  cut[q].free = blk[q].free /\ cut[q].next = blk[q].next
    <3> DEFINE back == IF q = blk[o].next THEN rest ELSE blk[q].prev
    <3>1. cut[q] = [size |-> blk[q].size, free |-> blk[q].free, next |-> blk[q].next,
                    prev |-> back]
      BY <2>3 DEF SplitsInto
    <3> HIDE DEF back
    <3> QED
      BY <3>1
  <2>6. OnlyAround(cut, rest)
    <3>0. \A q \in DOMAIN blk : blk[q].next # NoBlock => blk[q].next \in DOMAIN blk
      BY <2>1, TilesFacts
    <3>1. SUFFICES ASSUME NEW q \in DOMAIN cut, cut[q].free, freeAt(cut, cut[q].next),
                          q # rest, cut[q].next # rest
                   PROVE  FALSE
      BY DEF OnlyAround
    <3>2. q \in DOMAIN blk \ {o}
      BY <2>1, <2>4, <3>1
    <3>3. blk[q].free /\ blk[q].next # NoBlock /\ cut[blk[q].next].free
      BY <2>5, <3>1, <3>2 DEF freeAt
    <3>4. blk[q].next \in DOMAIN blk \ {o}
      BY <2>1, <2>4, <3>0, <3>2, <3>3
    <3>5. freeAt(blk, blk[q].next)
      BY <2>5, <3>3, <3>4 DEF freeAt
    <3> QED
      BY <2>1, <3>2, <3>3, <3>5 DEF Coalesced
  <2>7. Tiles(coalesce(cut, rest), seg[p[1]].total) /\ Coalesced(coalesce(cut, rest))
    BY <2>1, <2>3, <2>4, <2>6, CoalesceTiles
  <2>8. OnlyListed(h, seg, r.seg)
    <3>1. OnlyListed(h, seg, [seg EXCEPT ![p[1]].blk = coalesce(cut, rest)])
      BY <2>1, <2>7, RewriteSegment
    <3> QED
      BY <2>2, <3>1
  <2>9. used \in Int /\ free \in Int /\ count \in Int /\ h \in AllocatorType
    <3>1. /\ h.usedBytes \in Int /\ h.freeBytes \in Int /\ h.allocationCount \in Int
          /\ h \in AllocatorType
      BY DEF Well, AllocatorType
    <3>2. coalesceGain(cut, rest) \in Int
      BY GainIsNumber
    <3>3. cut[rest].size \in Nat
      BY <2>1, <2>3, <2>4, TilesFacts
    <3> QED
      BY <2>1, <3>1, <3>2, <3>3
  <2>10. SameList(h, r.h)
    <3> HIDE DEF used, free
    <3>1. SameList(h, [h EXCEPT !.usedBytes = used, !.freeBytes = free])
      <4> DEFINE new == [h EXCEPT !.usedBytes = used, !.freeBytes = free]
      <4>1. new \in AllocatorType
        BY <2>9 DEF AllocatorType
      <4>2. /\ new.segments = h.segments /\ new.hint = h.hint
            /\ new.requiredCaps = h.requiredCaps /\ new.forbiddenCaps = h.forbiddenCaps
        BY <2>9 DEF AllocatorType
      <4> HIDE DEF new
      <4>3. ListSound(new)
        BY <4>2 DEF ListSound, Well
      <4>4. SameList(h, new)
        BY <4>1, <4>2, <4>3 DEF SameList
      <4> QED
        BY <4>4 DEF new
    <3> QED
      BY <2>2, <3>1
  <2> QED
    BY <2>2, <2>8, <2>10 DEF HeapStep, r
<1> QED
  BY <1>1, <1>2

\* Moving a block: fail and change nothing, or hand out a block of the list.
LEMMA MoveStep ==
    ASSUME NEW h, NEW seg, Well(h, seg), NEW p, NEW size \in Nat, NEW caps
    PROVE  LET r == moveBlock(h, seg, p, size, caps)
           IN  /\ HeapStep(h, seg, r.h, r.seg)
               /\ r.status \in {"Done", "NeedsGrowth"}
               /\ r.status = "Done" => r.ptr[1] \in Listed(h) /\ r.ptr \in Cells \X Nat
<1> DEFINE new == allocate(h, seg, size, caps)
           old == deallocate(new.h, new.seg, p)
           r == moveBlock(h, seg, p, size, caps)
<1>1. /\ HeapStep(h, seg, new.h, new.seg)
      /\ new.ptr = NoPtr \/ (new.ptr[1] \in Listed(h) /\ new.ptr \in Cells \X Nat)
  BY AllocateStep
<1>2. r = IF new.ptr = NoPtr
          THEN [status |-> "NeedsGrowth", h |-> h, seg |-> seg, ptr |-> NoPtr]
          ELSE [status |-> "Done", h |-> old.h, seg |-> old.seg, ptr |-> new.ptr]
  BY DEF moveBlock
<1> HIDE DEF new, r
<1>3. Well(new.h, new.seg)
  BY <1>1, StepKeepsWell
<1>4. HeapStep(new.h, new.seg, old.h, old.seg)
  BY <1>3, DeallocateStep
<1> HIDE DEF old
<1>5. HeapStep(h, seg, old.h, old.seg) /\ HeapStep(h, seg, h, seg)
  BY <1>1, <1>4, StepTransitive, StepReflexive
<1>6. CASE new.ptr = NoPtr
  <2>1. r = [status |-> "NeedsGrowth", h |-> h, seg |-> seg, ptr |-> NoPtr]
    BY <1>2, <1>6
  <2>2. HeapStep(h, seg, r.h, r.seg) /\ r.status = "NeedsGrowth"
    BY <1>5, <2>1
  <2> QED
    BY <2>2 DEF r
<1>7. CASE new.ptr # NoPtr
  <2>1. r = [status |-> "Done", h |-> old.h, seg |-> old.seg, ptr |-> new.ptr]
    BY <1>2, <1>7
  <2>2. HeapStep(h, seg, r.h, r.seg) /\ r.status = "Done" /\ r.ptr = new.ptr
    BY <1>5, <2>1
  <2> QED
    BY <1>1, <1>7, <2>2 DEF r
<1> QED
  BY <1>6, <1>7

\* reallocate changes the segments only when it is Done, and then returns a
\* pointer into a listed segment.
LEMMA ReallocateStep ==
    ASSUME NEW h, NEW seg, Well(h, seg), NEW X, NEW p \in X \X Nat, NEW n \in Nat, NEW caps
    PROVE  LET r == reallocate(h, seg, p, n, caps)
           IN  /\ HeapStep(h, seg, r.h, r.seg)
               /\ r.status \in {"Done", "NeedsGrowth", "NotOwned"}
               /\ r.status = "Done" => /\ p[1] \in Listed(h) /\ r.ptr[1] \in Listed(h)
                                       /\ r.ptr \in Cells \X Nat
<1> DEFINE size == alignUp(n)
           blk == seg[p[1]].blk
           r == reallocate(h, seg, p, n, caps)
<1>1. size \in Nat
  BY AlignUpBound
<1>2. r = IF ~owns(h, seg, p) \/ blk[p[2]].free
          THEN [status |-> "NotOwned", h |-> h, seg |-> seg, ptr |-> NoPtr]
          ELSE IF blk[p[2]].size >= size
               THEN shrinkBlock(h, seg, p, size)
               ELSE moveBlock(h, seg, p, size, caps)
  BY DEF reallocate
<1> HIDE DEF r, size
<1>3. CASE ~owns(h, seg, p) \/ blk[p[2]].free
  <2>1. r = [status |-> "NotOwned", h |-> h, seg |-> seg, ptr |-> NoPtr]
    BY <1>2, <1>3
  <2>2. HeapStep(h, seg, r.h, r.seg) /\ r.status = "NotOwned"
    BY <2>1, StepReflexive
  <2> QED
    BY <2>2 DEF r
<1>4. CASE owns(h, seg, p) /\ ~blk[p[2]].free
  <2>1. p[1] \in Listed(h) /\ p[1] \in Cells /\ p \in Cells \X Nat
    BY <1>4, OwnedFacts
  <2>2. CASE blk[p[2]].size >= size
    <3>1. r = shrinkBlock(h, seg, p, size)
      BY <1>2, <1>4, <2>2
    <3>2. HeapStep(h, seg, r.h, r.seg) /\ r.status = "Done" /\ r.ptr = p
      BY <1>1, <1>4, <3>1, ShrinkStep
    <3> QED
      BY <2>1, <3>2 DEF r
  <2>3. CASE ~(blk[p[2]].size >= size)
    <3>1. r = moveBlock(h, seg, p, size, caps)
      BY <1>2, <1>4, <2>3
    <3>2. /\ HeapStep(h, seg, r.h, r.seg)
          /\ r.status \in {"Done", "NeedsGrowth"}
          /\ r.status = "Done" => r.ptr[1] \in Listed(h) /\ r.ptr \in Cells \X Nat
      BY <1>1, <3>1, MoveStep
    <3> QED
      BY <2>1, <3>2 DEF r
  <2> QED
    BY <2>2, <2>3
<1> QED
  BY <1>3, <1>4

-----------------------------------------------------------------------------
(* The segment list.                                                       *)

\* linkSegment pushes a segment that is on no list in front.
LEMMA LinkFacts ==
    ASSUME NEW h, NEW seg, Well(h, seg), NEW c \in Cells, c \notin Listed(h),
           SoundSegment(seg[c])
    PROVE  /\ Well(linkSegment(h, seg, c), seg)
           /\ Listed(linkSegment(h, seg, c)) = Listed(h) \cup {c}
<1> DEFINE new == linkSegment(h, seg, c)
           count == h.segmentCount + 1
           bytes == h.segmentBytes + seg[c].total
           free == h.freeBytes + seg[c].blk[FirstBlock].size
           list == <<c>> \o h.segments
<1>1. /\ h \in AllocatorType /\ ListSound(h) /\ SegmentsType(seg)
      /\ h.segments \in Seq(Cells)
      /\ h.segmentCount \in Int /\ h.segmentBytes \in Int /\ h.freeBytes \in Int
  BY DEF Well, AllocatorType
<1>2. seg[c].total \in Nat /\ seg[c].blk[FirstBlock].size \in Nat
  <2>1. seg[c].total \in Nat /\ Tiles(seg[c].blk, seg[c].total)
    BY <1>1 DEF SegmentsType, SoundSegment
  <2> QED
    BY <2>1, TilesFacts
<1>3. new = [h EXCEPT !.segments = list, !.segmentCount = count,
                      !.segmentBytes = bytes, !.freeBytes = free]
  BY DEF linkSegment
<1>4. count \in Int /\ bytes \in Int /\ free \in Int
  BY <1>1, <1>2
<1>5. /\ list \in Seq(Cells) /\ Len(list) = Len(h.segments) + 1 /\ list[1] = c
      /\ \A i \in 1..Len(h.segments) : list[i + 1] = h.segments[i]
  BY <1>1
<1>6. DOMAIN list = 1..(Len(h.segments) + 1) /\ DOMAIN h.segments = 1..Len(h.segments)
      /\ Len(h.segments) \in Nat
  BY <1>1, <1>5
<1> HIDE DEF new, list, count, bytes, free
<1>7. \A j \in DOMAIN list : j = 1 \/ \E i \in DOMAIN h.segments : j = i + 1
  <2> TAKE j \in DOMAIN list
  <2>1. j # 1 => (j - 1) \in 1..Len(h.segments) /\ j = (j - 1) + 1
    BY <1>6
  <2> QED
    BY <1>6, <2>1
<1>8. new \in AllocatorType
  BY <1>1, <1>3, <1>4, <1>5 DEF AllocatorType
<1>9. new.segments = list /\ new.hint = h.hint
  BY <1>1, <1>3 DEF AllocatorType
<1>10. Listed(new) = Listed(h) \cup {c}
  <2>1. ASSUME NEW d \in Listed(new) PROVE d \in Listed(h) \cup {c}
    BY <1>5, <1>6, <1>7, <1>9, <2>1 DEF Listed
  <2>2. ASSUME NEW d \in Listed(h) PROVE d \in Listed(new)
    <3>1. PICK i \in DOMAIN h.segments : d = h.segments[i]
      BY <2>2 DEF Listed
    <3>2. i + 1 \in DOMAIN list /\ list[i + 1] = d
      BY <1>5, <1>6, <3>1
    <3> QED
      BY <1>9, <3>2 DEF Listed
  <2>3. c \in Listed(new)
    BY <1>5, <1>6, <1>9 DEF Listed
  <2> QED
    BY <2>1, <2>2, <2>3
<1>11. ListSound(new)
  <2>1. ASSUME NEW i \in DOMAIN list, NEW j \in DOMAIN list, list[i] = list[j] PROVE i = j
    <3>1. \A k \in DOMAIN h.segments : h.segments[k] # c
      BY DEF Listed
    <3>2. CASE i = 1 \/ j = 1
      BY <1>5, <1>6, <1>7, <2>1, <3>1, <3>2
    <3>3. CASE i # 1 /\ j # 1
      <4>1. PICK k \in DOMAIN h.segments : i = k + 1
        BY <1>7, <3>3
      <4>2. PICK m \in DOMAIN h.segments : j = m + 1
        BY <1>7, <3>3
      <4>3. h.segments[k] = h.segments[m]
        BY <1>5, <1>6, <2>1, <4>1, <4>2
      <4> QED
        BY <1>1, <4>1, <4>2, <4>3 DEF ListSound
    <3> QED
      BY <3>2, <3>3
  <2>2. h.hint = NoCell \/ h.hint \in Listed(new)
    BY <1>1, <1>10 DEF ListSound, Listed
  <2> QED
    BY <1>9, <2>1, <2>2 DEF ListSound, Listed
<1>12. Well(new, seg)
  BY <1>1, <1>8, <1>10, <1>11 DEF Well
<1> QED
  BY <1>10, <1>12 DEF new

\* unlinkSegment takes one segment off the list and repairs the hint.
LEMMA UnlinkFacts ==
    ASSUME NEW h, NEW seg, Well(h, seg), NEW i \in DOMAIN h.segments
    PROVE  /\ Well(unlinkSegment(h, seg, i), seg)
           /\ Listed(unlinkSegment(h, seg, i)) = Listed(h) \ {h.segments[i]}
           /\ h.segments[i] \in Listed(h)
<1> DEFINE c == h.segments[i]
           rest == RemoveAt(h.segments, i)
           n == Len(h.segments)
           new == unlinkSegment(h, seg, i)
           payload == seg[c].blk[FirstBlock].size
           count == saturating(h.segmentCount, 1)
           bytes == IF h.segmentBytes >= seg[c].total THEN h.segmentBytes - seg[c].total
                                                      ELSE h.segmentBytes
           free == IF h.freeBytes >= payload THEN h.freeBytes - payload ELSE h.freeBytes
           hint == IF h.hint # c THEN h.hint
                   ELSE IF i < n THEN h.segments[i + 1]
                   ELSE IF rest = << >> THEN NoCell ELSE rest[1]
<1>1. /\ h \in AllocatorType /\ ListSound(h) /\ SegmentsType(seg)
      /\ h.segments \in Seq(Cells) /\ n \in Nat /\ DOMAIN h.segments = 1..n /\ i \in 1..n
      /\ h.segmentCount \in Int /\ h.segmentBytes \in Int /\ h.freeBytes \in Int
  <2>1. /\ h \in AllocatorType /\ ListSound(h) /\ SegmentsType(seg)
        /\ h.segments \in Seq(Cells)
        /\ h.segmentCount \in Int /\ h.segmentBytes \in Int /\ h.freeBytes \in Int
    BY DEF Well, AllocatorType
  <2> QED
    BY <2>1
<1>2. c \in Listed(h) /\ Listed(h) \subseteq Cells
  BY <1>1, ListedFacts
<1>3. seg[c].total \in Nat /\ payload \in Nat
  <2>1. seg[c].total \in Nat /\ Tiles(seg[c].blk, seg[c].total)
    BY <1>2 DEF SegmentsType, SoundSegment, Well
  <2> QED
    BY <2>1, TilesFacts
<1>4. new = [h EXCEPT !.segments = rest, !.segmentCount = count, !.segmentBytes = bytes,
                      !.freeBytes = free, !.hint = hint]
  BY DEF unlinkSegment
<1>5. /\ rest \in Seq(Cells) /\ Len(rest) = n - 1
      /\ \A k \in 1..(n - 1) : rest[k] = IF k < i THEN h.segments[k] ELSE h.segments[k + 1]
  <2> DEFINE s == SubSeq(h.segments, 1, i - 1)
             t == SubSeq(h.segments, i + 1, n)
  <2>1. /\ s \in Seq(Cells) /\ Len(s) = i - 1
        /\ \A k \in 1..(i - 1) : s[k] = h.segments[k]
    BY <1>1
  <2>2. /\ t \in Seq(Cells) /\ Len(t) = n - i
        /\ \A k \in 1..(n - i) : t[k] = h.segments[i + k]
    BY <1>1
  <2>3. rest = s \o t
    BY DEF RemoveAt
  <2>a. i \in Int /\ n \in Nat /\ 1 <= i /\ i <= n
    BY <1>1
  <2> HIDE DEF s, t, rest, n
  <2>b. /\ rest \in Seq(Cells) /\ Len(rest) = Len(s) + Len(t)
        /\ \A k \in 1..(Len(s) + Len(t)) :
             rest[k] = IF k <= Len(s) THEN s[k] ELSE t[k - Len(s)]
    <3>1. s \in Seq(Cells) /\ t \in Seq(Cells)
      BY <2>1, <2>2
    <3> QED
      BY <2>3, <3>1
  <2>4. rest \in Seq(Cells) /\ Len(rest) = n - 1
    BY <2>a, <2>b, <2>1, <2>2
  <2>5. ASSUME NEW k \in 1..(n - 1)
        PROVE  rest[k] = IF k < i THEN h.segments[k] ELSE h.segments[k + 1]
    <3>0. rest[k] = IF k <= i - 1 THEN s[k] ELSE t[k - (i - 1)]
      BY <2>a, <2>b, <2>1, <2>2
    <3>1. CASE k < i
      <4>1. k \in 1..(i - 1)
        BY <2>a, <3>1
      <4> QED
        BY <2>a, <2>1, <3>0, <3>1, <4>1
    <3>2. CASE ~(k < i)
      <4>1. rest[k] = t[k - (i - 1)] /\ k - (i - 1) \in 1..(n - i)
        BY <2>a, <3>0, <3>2
      <4>2. t[k - (i - 1)] = h.segments[i + (k - (i - 1))]
        BY <2>2, <4>1
      <4>3. i + (k - (i - 1)) = k + 1
        BY <2>a
      <4> QED
        BY <3>2, <4>1, <4>2, <4>3
    <3> QED
      BY <3>1, <3>2
  <2> QED
    BY <2>4, <2>5
<1>6. DOMAIN rest = 1..(n - 1)
  BY <1>1, <1>5
<1>7. \A k, m \in DOMAIN h.segments : h.segments[k] = h.segments[m] => k = m
  BY <1>1 DEF ListSound
<1> HIDE DEF rest, n
<1>8. {rest[k] : k \in DOMAIN rest} = Listed(h) \ {c}
  <2>1. ASSUME NEW k \in DOMAIN rest PROVE rest[k] \in Listed(h) \ {c}
    <3>0. k \in 1..(n - 1)
      BY <1>6
    <3>a. CASE k < i
      <4>1. k \in 1..n /\ k # i /\ rest[k] = h.segments[k]
        BY <1>1, <1>5, <3>0, <3>a
      <4> QED
        BY <1>1, <1>7, <4>1 DEF Listed
    <3>b. CASE ~(k < i)
      <4>1. k + 1 \in 1..n /\ k + 1 # i /\ rest[k] = h.segments[k + 1]
        BY <1>1, <1>5, <3>0, <3>b
      <4> QED
        BY <1>1, <1>7, <4>1 DEF Listed
    <3> QED
      BY <3>a, <3>b
  <2>2. ASSUME NEW d \in Listed(h) \ {c} PROVE \E k \in DOMAIN rest : rest[k] = d
    <3>1. PICK m \in 1..n : d = h.segments[m]
      BY <1>1, <2>2 DEF Listed
    <3>2. m # i
      BY <2>2, <3>1
    <3>3. CASE m < i
      <4>1. m \in 1..(n - 1) /\ rest[m] = h.segments[m]
        BY <1>1, <1>5, <3>3
      <4> QED
        BY <1>6, <3>1, <4>1
    <3>4. CASE m > i
      <4>1. m - 1 \in 1..(n - 1) /\ ~(m - 1 < i) /\ (m - 1) + 1 = m
        BY <1>1, <3>4
      <4>2. rest[m - 1] = h.segments[m]
        BY <1>5, <4>1
      <4> QED
        BY <1>6, <3>1, <4>1, <4>2
    <3> QED
      BY <1>1, <3>2, <3>3, <3>4
  <2> QED
    BY <2>1, <2>2
<1>9. \A k, m \in DOMAIN rest : rest[k] = rest[m] => k = m
  <2> TAKE k, m \in DOMAIN rest
  <2> DEFINE at(x) == IF x < i THEN x ELSE x + 1
  <2>1. /\ k \in Int /\ m \in Int /\ at(k) \in 1..n /\ at(m) \in 1..n
        /\ at(k) = at(m) => k = m
    BY <1>1, <1>6
  <2>2. rest[k] = h.segments[at(k)] /\ rest[m] = h.segments[at(m)]
    BY <1>5, <1>6
  <2> HIDE DEF at
  <2> QED
    BY <1>1, <1>7, <2>1, <2>2
<1>10. hint = NoCell \/ hint \in Listed(h) \ {c}
  <2>1. CASE h.hint # c
    BY <1>1, <2>1 DEF ListSound, Listed
  <2>2. CASE h.hint = c /\ i < n
    <3>1. i + 1 \in DOMAIN h.segments /\ i + 1 # i
      BY <1>1, <2>2
    <3>2. h.segments[i + 1] \in Listed(h) /\ h.segments[i + 1] # c
      BY <1>1, <1>7, <3>1 DEF Listed
    <3> QED
      BY <2>2, <3>2
  <2>3. CASE h.hint = c /\ ~(i < n) /\ rest = << >>
    BY <2>3
  <2>4. CASE h.hint = c /\ ~(i < n) /\ rest # << >>
    <3>1. 1 \in DOMAIN rest
      BY <1>1, <1>5, <1>6, <2>4
    <3>2. rest[1] \in Listed(h) \ {c}
      BY <1>8, <3>1
    <3> QED
      BY <2>4, <3>2
  <2> QED
    BY <2>1, <2>2, <2>3, <2>4
<1>11. count \in Int /\ bytes \in Int /\ free \in Int
  <2> DEFINE total == seg[c].total
             keep(a, b) == IF a >= b THEN a - b ELSE a
  <2>1. ASSUME NEW a \in Int, NEW b \in Int
        PROVE  keep(a, b) \in Int /\ saturating(a, b) \in Int
    BY DEF saturating
  <2>2. bytes = keep(h.segmentBytes, total) /\ free = keep(h.freeBytes, payload)
    OBVIOUS
  <2>3. /\ h.segmentCount \in Int /\ h.segmentBytes \in Int /\ h.freeBytes \in Int
        /\ total \in Int /\ payload \in Int /\ 1 \in Int
    BY <1>1, <1>3
  <2> HIDE DEF keep, bytes, free, total, payload
  <2> QED
    BY <2>1, <2>2, <2>3
<1>12. hint \in Cells \cup {NoCell}
  BY <1>2, <1>10
<1> HIDE DEF new, count, bytes, free, hint, payload
<1>13. new \in AllocatorType
  BY <1>1, <1>4, <1>5, <1>11, <1>12 DEF AllocatorType
<1>14. new.segments = rest /\ new.hint = hint
  BY <1>1, <1>4 DEF AllocatorType
<1>15. Listed(new) = Listed(h) \ {c}
  BY <1>8, <1>14 DEF Listed
<1>16. ListSound(new)
  <2>1. hint = NoCell \/ \E k \in DOMAIN rest : rest[k] = hint
    BY <1>8, <1>10
  <2> QED
    BY <1>9, <1>14, <2>1 DEF ListSound
<1>17. Well(new, seg)
  BY <1>1, <1>13, <1>15, <1>16 DEF Well
<1> QED
  BY <1>2, <1>15, <1>17 DEF new
-----------------------------------------------------------------------------
(* Which blocks are used, and how large they are, before and after a call. *)

Used(blk) == {o \in DOMAIN blk : ~blk[o].free}

\* Blocks come and go, and boundaries move, among the free blocks only.
SameUse(blk, new) ==
    /\ Used(new) = Used(blk)
    /\ \A o \in Used(blk) : new[o].size = blk[o].size

\* Cutting a block leaves the other used blocks as they are (splitBlock).
LEMMA SplitUse ==
    ASSUME NEW blk, NEW o, NEW wanted, NEW rest, NEW new, o \in DOMAIN blk,
           SplitsInto(blk, o, wanted, rest, new)
    PROVE  /\ Used(new) = Used(blk)
           /\ \A p \in Used(blk) \ {o} : new[p].size = blk[p].size
           /\ new[o].size = wanted /\ new[o].free = blk[o].free
<1>1. /\ rest \notin DOMAIN blk /\ DOMAIN new = DOMAIN blk \cup {rest}
      /\ new[o].size = wanted /\ new[o].free = blk[o].free
      /\ new[rest].free
  BY DEF SplitsInto
<1>2. ASSUME NEW p \in DOMAIN blk \ {o}
      PROVE  new[p].size = blk[p].size /\ new[p].free = blk[p].free
  <2> DEFINE back == IF p = blk[o].next THEN rest ELSE blk[p].prev
  <2>1. new[p] = [size |-> blk[p].size, free |-> blk[p].free, next |-> blk[p].next,
                  prev |-> back]
    BY DEF SplitsInto
  <2> HIDE DEF back
  <2> QED
    BY <2>1
<1> QED
  BY <1>1, <1>2 DEF Used

\* A free block that swallows its free successor disturbs no used block.
LEMMA AbsorbUse ==
    ASSUME NEW blk, NEW o, NEW n, NEW new, o \in DOMAIN blk,
           Swallows(blk, o, n, new), blk[o].free, blk[n].free
    PROVE  SameUse(blk, new)
<1>1. /\ n \in DOMAIN blk /\ DOMAIN new = DOMAIN blk \ {n} /\ new[o].free
  BY DEF Swallows
<1>2. ASSUME NEW p \in DOMAIN blk \ {o, n}
      PROVE  new[p].size = blk[p].size /\ new[p].free = blk[p].free
  <2> DEFINE back == IF p = blk[n].next THEN o ELSE blk[p].prev
  <2>1. new[p] = [size |-> blk[p].size, free |-> blk[p].free, next |-> blk[p].next,
                  prev |-> back]
    BY DEF Swallows
  <2> HIDE DEF back
  <2> QED
    BY <2>1
<1> QED
  BY <1>1, <1>2 DEF Used, SameUse

\* Merging a free block with its free neighbours disturbs no used block.
LEMMA CoalesceUse ==
    ASSUME NEW blk, NEW total \in Nat, Tiles(blk, total), NEW o \in DOMAIN blk, blk[o].free
    PROVE  SameUse(blk, coalesce(blk, o))
<1> DEFINE n == blk[o].next
           joined == IF freeAt(blk, n) THEN absorbNext(blk, o) ELSE blk
           q == joined[o].prev
           result == IF freeAt(joined, q) THEN absorbNext(joined, q) ELSE joined
<1>0. coalesce(blk, o) = result
  BY DEF coalesce
<1>1. SameUse(blk, joined) /\ Tiles(joined, total) /\ o \in DOMAIN joined /\ joined[o].free
  <2>1. CASE freeAt(blk, n)
    <3>1. n # NoBlock /\ blk[n].free
      BY <2>1 DEF freeAt
    <3>2. Swallows(blk, o, n, joined) /\ Tiles(joined, total)
      BY <2>1, <3>1, AbsorbFields, AbsorbTiles
    <3> HIDE DEF joined
    <3>3. n > o /\ o \in DOMAIN joined /\ joined[o].free
      BY <3>2, TilesFacts DEF Swallows
    <3> QED
      BY <3>1, <3>2, <3>3, AbsorbUse
  <2>2. CASE ~freeAt(blk, n)
    BY <2>2 DEF SameUse
  <2> QED
    BY <2>1, <2>2
<1> HIDE DEF joined
<1>2. SameUse(joined, result)
  <2>1. CASE freeAt(joined, q)
    <3>1. q # NoBlock /\ joined[q].free
      BY <2>1 DEF freeAt
    <3>2. q \in DOMAIN joined /\ joined[q].next = o /\ o # NoBlock
      BY <1>1, <3>1, TilesFacts
    <3>3. Swallows(joined, q, o, result)
      BY <1>1, <2>1, <3>2, AbsorbFields
    <3> HIDE DEF result, q
    <3> QED
      BY <1>1, <3>1, <3>2, <3>3, AbsorbUse
  <2>2. CASE ~freeAt(joined, q)
    BY <2>2 DEF SameUse
  <2> QED
    BY <2>1, <2>2
<1> HIDE DEF result
<1> QED
  BY <1>0, <1>1, <1>2 DEF SameUse

\* A segment that trimUnlink takes for completely free has no used block.
LEMMA FreeSegmentUse ==
    ASSUME NEW seg, NEW c, SoundSegment(seg[c]), seg[c].total \in Nat,
           segmentIsCompletelyFree(seg, c)
    PROVE  Used(seg[c].blk) = {} /\ DOMAIN seg[c].blk = {FirstBlock}
<1> DEFINE blk == seg[c].blk
           others == DOMAIN blk \ {FirstBlock}
<1>1. Tiles(blk, seg[c].total) /\ blk[FirstBlock].free /\ blk[FirstBlock].next = NoBlock
  BY DEF SoundSegment, segmentIsCompletelyFree
<1>2. others = {}
  <2>1. SUFFICES ASSUME others # {} PROVE FALSE
    OBVIOUS
  <2>2. others \in SUBSET Nat
    BY <1>1, TilesFacts
  <2>3. PICK q \in others : \A p \in others : q <= p
    BY <2>1, <2>2, LeastElement
  <2>4. blk[q].prev \in DOMAIN blk /\ blk[blk[q].prev].next = q /\ blk[q].prev < q
        /\ q # NoBlock /\ blk[q].prev \in Nat /\ q \in Nat
    BY <1>1, TilesFacts
  <2>5. blk[q].prev = FirstBlock
    BY <2>3, <2>4
  <2> QED
    BY <1>1, <2>4, <2>5
<1> QED
  BY <1>1, <1>2, TilesFacts DEF Used

\* The used blocks of all segments, as the pointers their owners have, and the
\* bytes behind each.
UsedAt(seg) == {p \in Cells \X Nat : p[2] \in Used(seg[p[1]].blk)}
sizeAt(seg, p) == seg[p[1]].blk[p[2]].size

\* The used blocks outside P are the same, and as large, before and after.
SameUseBut(seg, new, P) ==
    /\ UsedAt(new) \ P = UsedAt(seg) \ P
    /\ \A p \in UsedAt(seg) \ P : sizeAt(new, p) = sizeAt(seg, p)

\* Rewriting one segment leaves alone the used blocks it leaves alone.
LEMMA RewriteUse ==
    ASSUME NEW seg, DOMAIN seg = Cells, NEW c \in Cells, NEW blk, NEW o,
           DOMAIN seg[c] = {"total", "caps", "blk"},
           Used(blk) \ {o} = Used(seg[c].blk) \ {o},
           \A q \in Used(blk) \ {o} : blk[q].size = seg[c].blk[q].size
    PROVE  LET new == [seg EXCEPT ![c].blk = blk]
           IN  /\ SameUseBut(seg, new, {<<c, o>>})
               /\ new[c].blk = blk
<1> DEFINE new == [seg EXCEPT ![c].blk = blk]
<1>1. new[c].blk = blk /\ \A d \in Cells \ {c} : new[d] = seg[d]
  <2>1. new[c] = [seg[c] EXCEPT !.blk = blk] /\ \A d \in Cells \ {c} : new[d] = seg[d]
    OBVIOUS
  <2> HIDE DEF new
  <2> QED
    BY <2>1
<1> HIDE DEF new
<1>2. ASSUME NEW p \in Cells \X Nat, p # <<c, o>>
      PROVE  /\ p \in UsedAt(new) <=> p \in UsedAt(seg)
             /\ p \in UsedAt(seg) => sizeAt(new, p) = sizeAt(seg, p)
  <2>1. CASE p[1] # c
    BY <1>1, <2>1 DEF UsedAt, sizeAt
  <2>2. CASE p[1] = c
    <3>1. p[2] # o /\ p = <<p[1], p[2]>>
      BY <1>2, <2>2
    <3> QED
      BY <1>1, <2>2, <3>1 DEF UsedAt, sizeAt
  <2> QED
    BY <2>1, <2>2
<1>3. SameUseBut(seg, new, {<<c, o>>})
  BY <1>2 DEF SameUseBut, UsedAt
<1> QED
  BY <1>1, <1>3 DEF new

\* takeBlock makes one block used that was free, and it is large enough.
LEMMA TakeUse ==
    ASSUME NEW h, NEW seg, Well(h, seg), NEW c \in Listed(h), NEW size \in Nat,
           NEW o \in fits(seg, c, size)
    PROVE  LET r == takeBlock(h, seg, <<c, o>>, size)
           IN  /\ SameUseBut(seg, r.seg, {<<c, o>>})
               /\ <<c, o>> \in UsedAt(r.seg) \ UsedAt(seg)
               /\ sizeAt(r.seg, <<c, o>>) \in Nat /\ sizeAt(r.seg, <<c, o>>) >= size
<1> DEFINE blk == seg[c].blk
           cut == IF canSplit(blk[o].size, size) THEN splitAt(blk, o, size) ELSE blk
           taken == [cut EXCEPT ![o].free = FALSE]
           r == takeBlock(h, seg, <<c, o>>, size)
<1>1. /\ seg[c].total \in Nat /\ Tiles(blk, seg[c].total) /\ Coalesced(blk)
      /\ DOMAIN seg = Cells /\ c \in Cells /\ DOMAIN seg[c] = {"total", "caps", "blk"}
  BY ListedFacts DEF Well, SoundSegment, SegmentsType
<1>2. o \in DOMAIN blk /\ blk[o].free /\ blk[o].size >= size /\ blk[o].size \in Nat /\ o \in Nat
  BY <1>1, TilesFacts DEF fits
<1>3. r.seg = [seg EXCEPT ![c].blk = taken]
  BY DEF takeBlock
<1> HIDE DEF blk, r
<1>4. /\ o \in DOMAIN cut /\ Tiles(cut, seg[c].total)
      /\ Used(cut) = Used(blk) /\ cut[o].size >= size /\ cut[o].size \in Nat
      /\ \A p \in Used(blk) \ {o} : cut[p].size = blk[p].size
  <2>1. Tiles(cut, seg[c].total) /\ o \in DOMAIN cut /\ cut[o].size \in Nat
    BY <1>1, <1>2, TakeBlocks
  <2>2. CASE canSplit(blk[o].size, size)
    <3>1. SplitsInto(blk, o, size, o + size + BlockHeaderBytes, cut)
      BY <1>1, <1>2, <2>2, SplitFields
    <3> HIDE DEF cut
    <3> QED
      BY <1>2, <2>1, <3>1, SplitUse
  <2>3. CASE ~canSplit(blk[o].size, size)
    BY <1>2, <2>1, <2>3
  <2> QED
    BY <2>2, <2>3
<1> HIDE DEF cut
<1>5. /\ DOMAIN taken = DOMAIN cut /\ taken[o].free = FALSE /\ taken[o].size = cut[o].size
      /\ \A p \in DOMAIN cut \ {o} : taken[p] = cut[p]
  <2>1. cut[o] \in BlockType
    BY <1>1, <1>4, TilesFacts
  <2>2. taken[o] = [cut[o] EXCEPT !.free = FALSE] /\ \A p \in DOMAIN cut \ {o} : taken[p] = cut[p]
    BY <1>4
  <2> QED
    BY <2>1, <2>2 DEF BlockType
<1> HIDE DEF taken
<1>6. /\ Used(taken) = Used(blk) \cup {o} /\ o \notin Used(blk)
      /\ \A p \in Used(taken) \ {o} : taken[p].size = blk[p].size
  BY <1>2, <1>4, <1>5 DEF Used
<1>7. /\ SameUseBut(seg, [seg EXCEPT ![c].blk = taken], {<<c, o>>})
      /\ [seg EXCEPT ![c].blk = taken][c].blk = taken
  <2>1. /\ Used(taken) \ {o} = Used(seg[c].blk) \ {o}
        /\ \A q \in Used(taken) \ {o} : taken[q].size = seg[c].blk[q].size
    BY <1>6 DEF blk
  <2> QED
    BY <1>1, <2>1, RewriteUse
<1>8. SameUseBut(seg, r.seg, {<<c, o>>}) /\ r.seg[c].blk = taken
  BY <1>3, <1>7
<1>9. <<c, o>> \in UsedAt(r.seg) /\ <<c, o>> \notin UsedAt(seg)
  BY <1>1, <1>2, <1>6, <1>8 DEF UsedAt, blk
<1> QED
  BY <1>4, <1>5, <1>8, <1>9 DEF r, sizeAt

\* allocate returns nullptr and changes nothing, or one block becomes used.
LEMMA AllocateUse ==
    ASSUME NEW h, NEW seg, Well(h, seg), NEW n \in Nat, NEW caps
    PROVE  LET r == allocate(h, seg, n, caps)
           IN  /\ r.ptr = NoPtr => r.seg = seg /\ r.h = h
               /\ r.ptr # NoPtr => /\ SameUseBut(seg, r.seg, {r.ptr})
                                   /\ r.ptr \in UsedAt(r.seg) \ UsedAt(seg)
                                   /\ sizeAt(r.seg, r.ptr) \in Nat
                                   /\ sizeAt(r.seg, r.ptr) >= n
<1> DEFINE size == alignUp(IF n = 0 THEN 1 ELSE n)
           p == findFreeBlock(h, seg, size, caps)
           r == allocate(h, seg, n, caps)
<1>1. size \in Nat /\ size >= n
  <2>1. (IF n = 0 THEN 1 ELSE n) \in Nat /\ (IF n = 0 THEN 1 ELSE n) >= n
    OBVIOUS
  <2>2. size >= (IF n = 0 THEN 1 ELSE n) /\ size \in Nat
    BY <2>1, AlignUpBound
  <2> QED
    BY <2>1, <2>2
<1>2. r = IF isEligibleCaps(h, caps) /\ p # NoPtr
          THEN takeBlock(h, seg, p, size)
          ELSE [h |-> h, seg |-> seg, ptr |-> NoPtr]
  BY DEF allocate
<1> HIDE DEF r, size
<1>3. CASE isEligibleCaps(h, caps) /\ p # NoPtr
  <2>1. PICK c \in Listed(h) : \E o \in fits(seg, c, size) : p = <<c, o>>
    BY <1>3, FoundIsFree
  <2>2. PICK o \in fits(seg, c, size) : p = <<c, o>>
    BY <2>1
  <2>3. r = takeBlock(h, seg, <<c, o>>, size)
    BY <1>2, <1>3, <2>2
  <2>4. r.ptr = <<c, o>>
    BY <1>1, <2>3, TakeBlockStep
  <2>5. /\ SameUseBut(seg, r.seg, {<<c, o>>})
        /\ <<c, o>> \in UsedAt(r.seg) \ UsedAt(seg)
        /\ sizeAt(r.seg, <<c, o>>) \in Nat /\ sizeAt(r.seg, <<c, o>>) >= size
    BY <1>1, <2>3, TakeUse
  <2>6. sizeAt(r.seg, <<c, o>>) >= n
    BY <1>1, <2>5
  <2>7. r.ptr # NoPtr
    BY <1>3, <2>2, <2>4
  <2> QED
    BY <2>4, <2>5, <2>6, <2>7 DEF r
<1>4. CASE ~(isEligibleCaps(h, caps) /\ p # NoPtr)
  <2>1. r = [h |-> h, seg |-> seg, ptr |-> NoPtr]
    BY <1>2, <1>4
  <2>2. r.ptr = NoPtr /\ r.seg = seg /\ r.h = h
    BY <2>1
  <2> QED
    BY <2>2 DEF r
<1> QED
  BY <1>3, <1>4

\* deallocate gives back the block of the pointer, or refuses and changes nothing.
LEMMA DeallocateUse ==
    ASSUME NEW h, NEW seg, Well(h, seg), NEW p \in Cells \X Nat
    PROVE  LET r == deallocate(h, seg, p)
           IN  /\ r.ok = (p \in UsedAt(seg) /\ p[1] \in Listed(h))
               /\ ~r.ok => r.seg = seg /\ r.h = h
               /\ r.ok => SameUseBut(seg, r.seg, {p}) /\ p \notin UsedAt(r.seg)
<1> DEFINE blk == seg[p[1]].blk
           o == p[2]
           freed == [blk EXCEPT ![o].free = TRUE]
           r == deallocate(h, seg, p)
<1>0. owns(h, seg, p) <=> p[1] \in Listed(h) /\ o \in DOMAIN blk
  BY DEF owns, Listed
<1>1. CASE ~owns(h, seg, p) \/ blk[o].free
  <2>1. r = [ok |-> FALSE, h |-> h, seg |-> seg]
    BY <1>1 DEF deallocate
  <2>2. r.ok = FALSE /\ r.seg = seg /\ r.h = h
    BY <2>1
  <2>3. ~(p \in UsedAt(seg) /\ p[1] \in Listed(h))
    BY <1>0, <1>1 DEF UsedAt, Used
  <2> QED
    BY <2>2, <2>3
<1>2. CASE owns(h, seg, p) /\ ~blk[o].free
  <2>1. /\ p[1] \in Listed(h) /\ p[1] \in Cells
        /\ o \in DOMAIN blk /\ Tiles(blk, seg[p[1]].total)
        /\ seg[p[1]].total \in Nat
        /\ DOMAIN seg = Cells /\ DOMAIN seg[p[1]] = {"total", "caps", "blk"}
    BY <1>2, OwnedFacts DEF Well, SegmentsType
  <2>2. r.seg = [seg EXCEPT ![p[1]].blk = coalesce(freed, o)] /\ r.ok = TRUE
    BY <1>2 DEF deallocate
  <2>3. p \in UsedAt(seg) /\ p = <<p[1], o>>
    BY <1>2, <2>1 DEF UsedAt, Used
  <2> HIDE DEF blk, o, r
  <2>4. /\ DOMAIN freed = DOMAIN blk /\ freed[o] = [blk[o] EXCEPT !.free = TRUE]
        /\ \A q \in DOMAIN blk \ {o} : freed[q] = blk[q]
    BY <2>1
  <2>5. freed[o].free /\ Tiles(freed, seg[p[1]].total)
    <3>1. blk[o] \in BlockType
      BY <2>1, TilesFacts
    <3>2. freed[o].free
      BY <2>4, <3>1 DEF BlockType
    <3> QED
      BY <2>1, <3>2, FlagTiles
  <2> HIDE DEF freed
  <2> DEFINE new == coalesce(freed, o)
  <2>6. SameUse(freed, new)
    BY <2>1, <2>4, <2>5, CoalesceUse
  <2> HIDE DEF new
  <2>7. /\ Used(new) = Used(blk) \ {o}
        /\ \A q \in Used(new) \ {o} : new[q].size = blk[q].size
    BY <2>4, <2>5, <2>6 DEF SameUse, Used
  <2>8. /\ SameUseBut(seg, [seg EXCEPT ![p[1]].blk = new], {<<p[1], o>>})
        /\ [seg EXCEPT ![p[1]].blk = new][p[1]].blk = new
    <3>1. /\ Used(new) \ {o} = Used(seg[p[1]].blk) \ {o}
          /\ \A q \in Used(new) \ {o} : new[q].size = seg[p[1]].blk[q].size
      BY <2>7 DEF blk
    <3> QED
      BY <2>1, <3>1, RewriteUse
  <2>9. SameUseBut(seg, r.seg, {p}) /\ r.seg[p[1]].blk = new
    BY <2>2, <2>3, <2>8 DEF new
  <2>10. p \notin UsedAt(r.seg)
    BY <2>7, <2>9 DEF UsedAt, o
  <2> QED
    BY <2>1, <2>2, <2>3, <2>9, <2>10 DEF r
<1> QED
  BY <1>1, <1>2

\* shrinkBlock keeps the block of p used, in its place and large enough.
LEMMA ShrinkUse ==
    ASSUME NEW h, NEW seg, Well(h, seg), NEW p \in Cells \X Nat, owns(h, seg, p),
           ~seg[p[1]].blk[p[2]].free, NEW size \in Nat, seg[p[1]].blk[p[2]].size >= size
    PROVE  LET r == shrinkBlock(h, seg, p, size)
           IN  /\ SameUseBut(seg, r.seg, {p})
               /\ p \in UsedAt(seg) /\ p \in UsedAt(r.seg)
               /\ sizeAt(r.seg, p) \in Nat /\ sizeAt(r.seg, p) >= size
<1> DEFINE blk == seg[p[1]].blk
           o == p[2]
           rest == o + size + BlockHeaderBytes
           cut == splitAt(blk, o, size)
           r == shrinkBlock(h, seg, p, size)
<1>0. /\ p[1] \in Listed(h) /\ p[1] \in Cells
      /\ o \in DOMAIN blk /\ Tiles(blk, seg[p[1]].total)
      /\ seg[p[1]].total \in Nat /\ blk[o].size \in Nat
      /\ DOMAIN seg = Cells /\ DOMAIN seg[p[1]] = {"total", "caps", "blk"}
  BY OwnedFacts DEF Well, SegmentsType
<1>1. p \in UsedAt(seg) /\ p = <<p[1], o>>
  BY <1>0 DEF UsedAt, Used
<1>2. CASE blk[o].size <= size \/ ~canSplit(blk[o].size, size)
  <2>1. r = [status |-> "Done", h |-> h, seg |-> seg, ptr |-> p]
    BY <1>2 DEF shrinkBlock
  <2>2. r.seg = seg
    BY <2>1
  <2> QED
    BY <1>0, <1>1, <2>2 DEF SameUseBut, sizeAt
<1>3. CASE ~(blk[o].size <= size) /\ canSplit(blk[o].size, size)
  <2>1. r.seg = [seg EXCEPT ![p[1]].blk = coalesce(cut, rest)]
    BY <1>3 DEF shrinkBlock
  <2>2. SplitsInto(blk, o, size, rest, cut) /\ Tiles(cut, seg[p[1]].total)
    BY <1>0, <1>3, SplitFields, SplitTiles
  <2>3. ~blk[o].free
    OBVIOUS
  <2> HIDE DEF blk, o, r, cut, rest
  <2>4. /\ Used(cut) = Used(blk) /\ \A q \in Used(blk) \ {o} : cut[q].size = blk[q].size
        /\ cut[o].size = size /\ o \in Used(blk)
    BY <1>0, <2>2, <2>3, SplitUse DEF Used
  <2>5. rest \in DOMAIN cut /\ cut[rest].free
    BY <2>2 DEF SplitsInto
  <2> DEFINE new == coalesce(cut, rest)
  <2>6. SameUse(cut, new)
    BY <1>0, <2>2, <2>5, CoalesceUse
  <2> HIDE DEF new
  <2>7. /\ Used(new) = Used(blk) /\ \A q \in Used(new) \ {o} : new[q].size = blk[q].size
        /\ new[o].size = size
    BY <2>4, <2>6 DEF SameUse
  <2>8. /\ SameUseBut(seg, [seg EXCEPT ![p[1]].blk = new], {<<p[1], o>>})
        /\ [seg EXCEPT ![p[1]].blk = new][p[1]].blk = new
    <3>1. /\ Used(new) \ {o} = Used(seg[p[1]].blk) \ {o}
          /\ \A q \in Used(new) \ {o} : new[q].size = seg[p[1]].blk[q].size
      BY <2>7 DEF blk
    <3> QED
      BY <1>0, <3>1, RewriteUse
  <2>9. SameUseBut(seg, r.seg, {p}) /\ r.seg[p[1]].blk = new
    BY <1>1, <2>1, <2>8 DEF new
  <2>10. p \in UsedAt(r.seg) /\ sizeAt(r.seg, p) = size
    BY <2>4, <2>7, <2>9 DEF UsedAt, sizeAt, o
  <2> QED
    BY <1>1, <2>9, <2>10 DEF r
<1> QED
  BY <1>2, <1>3

\* Two used blocks of one segment share no byte.
LEMMA UsedApart ==
    ASSUME NEW h, NEW seg, Well(h, seg), NEW p \in UsedAt(seg), NEW q \in UsedAt(seg),
           p # q, p[1] = q[1], p[1] \in Listed(h)
    PROVE  \/ p[2] + sizeAt(seg, p) <= q[2]
           \/ q[2] + sizeAt(seg, q) <= p[2]
<1> DEFINE blk == seg[p[1]].blk
<1>1. p[1] \in Cells /\ Tiles(blk, seg[p[1]].total) /\ seg[p[1]].total \in Nat
  BY ListedFacts DEF Well, SoundSegment, SegmentsType
<1>2. p[2] \in DOMAIN blk /\ q[2] \in DOMAIN blk /\ p[2] # q[2]
  <2>1. p = <<p[1], p[2]>> /\ q = <<q[1], q[2]>>
    BY DEF UsedAt
  <2> QED
    BY <2>1 DEF UsedAt, Used
<1>3. \A a, b \in DOMAIN blk : /\ a \in Nat /\ blk[a].size \in Nat
                               /\ a < b => a + blk[a].size + BlockHeaderBytes <= b
  BY <1>1, TilesFacts
<1>4. BlockHeaderBytes \in Nat
  BY HeaderAssumption
<1> QED
  BY <1>2, <1>3, <1>4 DEF sizeAt

\* moveBlock fails and changes nothing, or makes another block used that shares
\* no byte with the old one, and then gives the old one back.
LEMMA MoveUse ==
    ASSUME NEW h, NEW seg, Well(h, seg), NEW p \in Cells \X Nat, p[1] \in Listed(h),
           p \in UsedAt(seg), NEW size \in Nat, NEW caps
    PROVE  LET r == moveBlock(h, seg, p, size, caps)
           IN  /\ r.status # "Done" => r.seg = seg /\ r.h = h
               /\ r.status = "Done" =>
                    /\ SameUseBut(seg, r.seg, {p, r.ptr})
                    /\ p \notin UsedAt(r.seg)
                    /\ r.ptr \in UsedAt(r.seg) \ UsedAt(seg)
                    /\ sizeAt(r.seg, r.ptr) \in Nat /\ sizeAt(r.seg, r.ptr) >= size
                    /\ r.ptr[1] = p[1] => \/ p[2] + sizeAt(seg, p) <= r.ptr[2]
                                          \/ r.ptr[2] + sizeAt(r.seg, r.ptr) <= p[2]
<1> DEFINE new == allocate(h, seg, size, caps)
           old == deallocate(new.h, new.seg, p)
           r == moveBlock(h, seg, p, size, caps)
<1>1. /\ HeapStep(h, seg, new.h, new.seg)
      /\ new.ptr = NoPtr \/ (new.ptr[1] \in Listed(h) /\ new.ptr \in Cells \X Nat)
  BY AllocateStep
<1>2. new.ptr # NoPtr => /\ SameUseBut(seg, new.seg, {new.ptr})
                         /\ new.ptr \in UsedAt(new.seg) \ UsedAt(seg)
                         /\ sizeAt(new.seg, new.ptr) \in Nat
                         /\ sizeAt(new.seg, new.ptr) >= size
  BY AllocateUse
<1>3. r = IF new.ptr = NoPtr
          THEN [status |-> "NeedsGrowth", h |-> h, seg |-> seg, ptr |-> NoPtr]
          ELSE [status |-> "Done", h |-> old.h, seg |-> old.seg, ptr |-> new.ptr]
  BY DEF moveBlock
<1> HIDE DEF new, r
<1>4. Well(new.h, new.seg) /\ Listed(new.h) = Listed(h)
  <2>1. Well(new.h, new.seg)
    BY <1>1, StepKeepsWell
  <2>2. Listed(new.h) = Listed(h)
    BY <1>1 DEF HeapStep, SameList, Listed
  <2> QED
    BY <2>1, <2>2
<1>5. /\ old.ok = (p \in UsedAt(new.seg) /\ p[1] \in Listed(new.h))
      /\ old.ok => SameUseBut(new.seg, old.seg, {p}) /\ p \notin UsedAt(old.seg)
  BY <1>4, DeallocateUse
<1> HIDE DEF old
<1>6. CASE new.ptr = NoPtr
  <2>1. r = [status |-> "NeedsGrowth", h |-> h, seg |-> seg, ptr |-> NoPtr]
    BY <1>3, <1>6
  <2>2. r.status # "Done" /\ r.seg = seg /\ r.h = h
    BY <2>1
  <2> QED
    BY <2>2 DEF r
<1>7. CASE new.ptr # NoPtr
  <2>1. r = [status |-> "Done", h |-> old.h, seg |-> old.seg, ptr |-> new.ptr]
    BY <1>3, <1>7
  <2>2. r.status = "Done" /\ r.seg = old.seg /\ r.ptr = new.ptr
    BY <2>1
  <2>3. /\ new.ptr # p /\ p \in UsedAt(new.seg) /\ sizeAt(new.seg, p) = sizeAt(seg, p)
        /\ old.ok
    BY <1>2, <1>4, <1>5, <1>7 DEF SameUseBut
  <2>4. /\ new.ptr \in UsedAt(old.seg) /\ sizeAt(old.seg, new.ptr) = sizeAt(new.seg, new.ptr)
    BY <1>2, <1>5, <1>7, <2>3 DEF SameUseBut
  <2>5. SameUseBut(seg, old.seg, {p, new.ptr})
    BY <1>2, <1>5, <1>7, <2>3 DEF SameUseBut
  <2>6. new.ptr[1] = p[1] => \/ p[2] + sizeAt(new.seg, p) <= new.ptr[2]
                             \/ new.ptr[2] + sizeAt(new.seg, new.ptr) <= p[2]
    BY <1>2, <1>4, <1>7, <2>3, UsedApart
  <2> QED
    BY <1>2, <1>5, <1>7, <2>2, <2>3, <2>4, <2>5, <2>6 DEF r
<1> QED
  BY <1>6, <1>7

\* reallocate, when it is Done: p was used; its block was resized where it is,
\* or another one became used instead of it.
ReallocatedUse(seg, new, p, q, n) ==
    /\ SameUseBut(seg, new, {p, q})
    /\ p \in UsedAt(seg) /\ q \in UsedAt(new)
    /\ sizeAt(new, q) \in Nat /\ sizeAt(new, q) >= n
    /\ p # q => /\ p \notin UsedAt(new) /\ q \notin UsedAt(seg)
                /\ q[1] = p[1] => \/ p[2] + sizeAt(seg, p) <= q[2]
                                  \/ q[2] + sizeAt(new, q) <= p[2]

\* reallocate leaves everything alone, or is Done and exchanges p for its result.
LEMMA ReallocateUse ==
    ASSUME NEW h, NEW seg, Well(h, seg), NEW p, p[1] \in Cells => p \in Cells \X Nat,
           NEW n \in Nat, NEW caps
    PROVE  LET r == reallocate(h, seg, p, n, caps)
           IN  /\ r.status # "Done" => r.seg = seg /\ r.h = h
               /\ r.status = "Done" => ReallocatedUse(seg, r.seg, p, r.ptr, n)
<1> DEFINE size == alignUp(n)
           blk == seg[p[1]].blk
           r == reallocate(h, seg, p, n, caps)
<1>1. size \in Nat /\ size >= n
  BY AlignUpBound
<1>2. r = IF ~owns(h, seg, p) \/ blk[p[2]].free
          THEN [status |-> "NotOwned", h |-> h, seg |-> seg, ptr |-> NoPtr]
          ELSE IF blk[p[2]].size >= size
               THEN shrinkBlock(h, seg, p, size)
               ELSE moveBlock(h, seg, p, size, caps)
  BY DEF reallocate
<1> HIDE DEF r, size
<1>3. CASE ~owns(h, seg, p) \/ blk[p[2]].free
  <2>1. r = [status |-> "NotOwned", h |-> h, seg |-> seg, ptr |-> NoPtr]
    BY <1>2, <1>3
  <2>2. r.status # "Done" /\ r.seg = seg /\ r.h = h
    BY <2>1
  <2> QED
    BY <2>2 DEF r
<1>4. CASE owns(h, seg, p) /\ ~blk[p[2]].free
  <2>1. p[1] \in Listed(h) /\ p \in Cells \X Nat /\ p \in UsedAt(seg)
    BY <1>4, OwnedFacts DEF UsedAt, Used
  <2>2. CASE blk[p[2]].size >= size
    <3>1. r = shrinkBlock(h, seg, p, size)
      BY <1>2, <1>4, <2>2
    <3>2. r.status = "Done" /\ r.ptr = p
      BY <1>1, <1>4, <3>1, ShrinkStep
    <3>3. /\ SameUseBut(seg, r.seg, {p}) /\ p \in UsedAt(r.seg)
          /\ sizeAt(r.seg, p) \in Nat /\ sizeAt(r.seg, p) >= size
      BY <1>1, <1>4, <2>1, <2>2, <3>1, ShrinkUse
    <3>4. sizeAt(r.seg, p) >= n
      BY <1>1, <3>3
    <3>5. ReallocatedUse(seg, r.seg, p, r.ptr, n)
      BY <2>1, <3>2, <3>3, <3>4 DEF ReallocatedUse
    <3> QED
      BY <3>2, <3>5 DEF r
  <2>3. CASE ~(blk[p[2]].size >= size)
    <3>1. r = moveBlock(h, seg, p, size, caps)
      BY <1>2, <1>4, <2>3
    <3>2. /\ r.status # "Done" => r.seg = seg /\ r.h = h
          /\ r.status = "Done" =>
               /\ SameUseBut(seg, r.seg, {p, r.ptr})
               /\ p \notin UsedAt(r.seg)
               /\ r.ptr \in UsedAt(r.seg) \ UsedAt(seg)
               /\ sizeAt(r.seg, r.ptr) \in Nat /\ sizeAt(r.seg, r.ptr) >= size
               /\ r.ptr[1] = p[1] => \/ p[2] + sizeAt(seg, p) <= r.ptr[2]
                                     \/ r.ptr[2] + sizeAt(r.seg, r.ptr) <= p[2]
      BY <1>1, <2>1, <3>1, MoveUse
    <3>3. r.status = "Done" => ReallocatedUse(seg, r.seg, p, r.ptr, n)
      BY <1>1, <2>1, <3>2 DEF ReallocatedUse
    <3> QED
      BY <3>2, <3>3 DEF r
  <2> QED
    BY <2>2, <2>3
<1> QED
  BY <1>3, <1>4

-----------------------------------------------------------------------------
(* Which requests are served.                                              *)

\* Multiplying keeps the order.
LEMMA TimesOrder ==
    ASSUME NEW a \in Nat, NEW b \in Nat, NEW k \in Nat, a <= b
    PROVE  a * k <= b * k
<1>1. PICK d \in Nat : b = a + d
  <2>1. b - a \in Nat /\ b = a + (b - a)
    OBVIOUS
  <2> QED
    BY <2>1
<1>2. b * k = a * k + d * k
  BY <1>1
<1>3. d * k \in Nat /\ a * k \in Nat
  OBVIOUS
<1> QED
  BY <1>2, <1>3

\* alignUp gives the least multiple of the alignment that is large enough.
LEMMA AlignUpIs ==
    ASSUME NEW n \in Nat
    PROVE  \E k \in Nat : /\ alignUp(n) = k * Alignment
                          /\ \A m \in Nat : n <= m * Alignment => k <= m
<1> DEFINE k == (n + Alignment - 1) \div Alignment
<1>1. k \in Nat /\ alignUp(n) = k * Alignment
  BY AlignmentAssumption DEF alignUp
<1>2. k * Alignment <= n + Alignment - 1
  BY AlignmentAssumption
<1> HIDE DEF k
<1>3. ASSUME NEW m \in Nat, n <= m * Alignment, m < k PROVE FALSE
  <2>1. m + 1 \in Nat /\ m + 1 <= k /\ Alignment \in Nat \ {0}
    BY <1>1, <1>3, AlignmentAssumption
  <2>2. (m + 1) * Alignment <= k * Alignment
    BY <1>1, <2>1, TimesOrder
  <2>3. (m + 1) * Alignment = m * Alignment + Alignment /\ m * Alignment \in Nat
    BY <2>1
  <2>4. k * Alignment \in Nat
    BY <1>1, <2>1
  <2> QED
    BY <1>2, <1>3, <2>1, <2>2, <2>3, <2>4
<1> QED
  BY <1>1, <1>3

\* alignUp keeps the order, leaves multiples alone and makes something of something.
LEMMA AlignUpOrder ==
    /\ \A m, n \in Nat : m <= n => alignUp(m) <= alignUp(n)
    /\ \A n \in Nat : alignUp(alignUp(n)) = alignUp(n)
    /\ \A n \in Nat \ {0} : alignUp(n) # 0
<1>1. ASSUME NEW n \in Nat, NEW k \in Nat, n <= k * Alignment
      PROVE  alignUp(n) <= k * Alignment
  <2>1. PICK j \in Nat : /\ alignUp(n) = j * Alignment
                         /\ \A m \in Nat : n <= m * Alignment => j <= m
    BY AlignUpIs
  <2>2. j <= k
    BY <1>1, <2>1
  <2> QED
    BY <2>1, <2>2, TimesOrder, AlignmentAssumption
<1>2. ASSUME NEW m \in Nat, NEW n \in Nat, m <= n PROVE alignUp(m) <= alignUp(n)
  <2>1. PICK k \in Nat : alignUp(n) = k * Alignment
    BY AlignUpIs
  <2>2. n <= alignUp(n) /\ alignUp(n) \in Nat
    BY AlignUpBound
  <2>3. m <= alignUp(n)
    BY <1>2, <2>2
  <2> QED
    BY <1>1, <2>1, <2>3
<1>3. ASSUME NEW n \in Nat PROVE alignUp(alignUp(n)) = alignUp(n)
  <2>1. PICK k \in Nat : alignUp(n) = k * Alignment
    BY AlignUpIs
  <2>2. alignUp(n) \in Nat
    BY AlignUpBound
  <2>3. alignUp(alignUp(n)) <= alignUp(n)
    BY <1>1, <2>1, <2>2
  <2>4. alignUp(alignUp(n)) \in Nat /\ alignUp(alignUp(n)) >= alignUp(n)
    BY <2>2, AlignUpBound
  <2> QED
    BY <2>2, <2>3, <2>4
<1> QED
  BY <1>2, <1>3, AlignUpBound

\* findFreeBlock finds a block whenever a segment of the requested kind has one,
\* wherever the search starts.
LEMMA SearchFinds ==
    ASSUME NEW h, NEW seg, Well(h, seg), NEW size, NEW caps, NEW c \in Listed(h),
           caps \subseteq seg[c].caps, fits(seg, c, size) # {}
    PROVE  findFreeBlock(h, seg, size, caps) # NoPtr
<1>1. servingPositions(h, seg, size, caps) # {}
  BY DEF Listed, servingPositions, segmentSatisfiesCaps
<1>2. PICK d \in Listed(h) : \E o : findFreeBlock(h, seg, size, caps) = <<d, o>>
  BY <1>1, ServedIsFree
<1>3. d \in Cells
  BY ListedFacts DEF Well
<1> QED
  BY <1>2, <1>3, NoCellAssumption DEF NoPtr

\* allocate succeeds if its heap accepts the capabilities and has such a segment.
LEMMA AllocateServes ==
    ASSUME NEW h, NEW seg, Well(h, seg), NEW n \in Nat \ {0}, NEW caps,
           isEligibleCaps(h, caps), NEW c \in Listed(h),
           caps \subseteq seg[c].caps, fits(seg, c, alignUp(n)) # {}
    PROVE  allocate(h, seg, n, caps).ptr # NoPtr
<1>1. findFreeBlock(h, seg, alignUp(n), caps) # NoPtr
  BY SearchFinds
<1>2. (IF n = 0 THEN 1 ELSE n) = n
  OBVIOUS
<1> QED
  BY <1>1, <1>2 DEF allocate, takeBlock

\* reallocate succeeds for a used block of its heap, if allocate would.
LEMMA ReallocateServes ==
    ASSUME NEW h, NEW seg, Well(h, seg), NEW n \in Nat \ {0}, NEW caps,
           isEligibleCaps(h, caps), NEW c \in Listed(h),
           caps \subseteq seg[c].caps, fits(seg, c, alignUp(n)) # {},
           NEW p \in UsedAt(seg), p[1] \in Listed(h)
    PROVE  reallocate(h, seg, p, n, caps).status = "Done"
<1> DEFINE size == alignUp(n)
           r == reallocate(h, seg, p, n, caps)
<1>1. owns(h, seg, p) /\ ~seg[p[1]].blk[p[2]].free
  BY DEF owns, Listed, UsedAt, Used
<1>2. size \in Nat \ {0} /\ alignUp(size) = size
  BY AlignUpBound, AlignUpOrder
<1>3. r = IF seg[p[1]].blk[p[2]].size >= size
          THEN shrinkBlock(h, seg, p, size)
          ELSE moveBlock(h, seg, p, size, caps)
  BY <1>1 DEF reallocate
<1> HIDE DEF r, size
<1>4. allocate(h, seg, size, caps).ptr # NoPtr
  BY <1>2, AllocateServes DEF size
<1>5. moveBlock(h, seg, p, size, caps).status = "Done"
  BY <1>4 DEF moveBlock
<1>6. shrinkBlock(h, seg, p, size).status = "Done"
  BY DEF shrinkBlock
<1> QED
  BY <1>3, <1>5, <1>6 DEF r

\* A payload of createSegment holds what was asked for.
LEMMA PayloadHolds ==
    ASSUME NEW n \in Nat, NEW payload \in segmentPayloads(n)
    PROVE  payload \in Nat /\ payload >= alignUp(n)
<1>1. (IF n > DefaultSegmentBytes THEN n ELSE DefaultSegmentBytes) \in Nat
      /\ n <= (IF n > DefaultSegmentBytes THEN n ELSE DefaultSegmentBytes)
  BY SegmentAssumption
<1>2. alignUp(n) <= defaultPayload(n)
  BY <1>1, AlignUpOrder DEF defaultPayload
<1>3. alignUp(n) \in Nat /\ defaultPayload(n) \in Nat
  BY <1>1, AlignUpBound DEF defaultPayload
<1> QED
  BY <1>2, <1>3 DEF segmentPayloads

\* A fresh segment serves the request it was created for.
LEMMA FreshServes ==
    ASSUME NEW n \in Nat, NEW payload \in segmentPayloads(n), NEW caps, NEW seg, NEW c,
           seg[c] = newSegment(payload, caps)
    PROVE  fits(seg, c, alignUp(n)) # {} /\ seg[c].caps = caps
<1>1. /\ seg[c].caps = caps /\ FirstBlock \in DOMAIN seg[c].blk
      /\ seg[c].blk[FirstBlock].free /\ seg[c].blk[FirstBlock].size = payload
  BY DEF newSegment
<1> QED
  BY <1>1, PayloadHolds DEF fits

-----------------------------------------------------------------------------
(* Every block stays aligned.                                              *)

Aligned(n) == n \in Nat /\ alignUp(n) = n
AlignedBlocks(blk) == \A o \in DOMAIN blk : Aligned(o) /\ Aligned(blk[o].size)
AlignedAll(seg) == \A c \in Cells : AlignedBlocks(seg[c].blk)

\* What alignUp leaves alone are the multiples of the alignment.
LEMMA AlignedIs ==
    ASSUME NEW n \in Nat
    PROVE  Aligned(n) <=> \E k \in Nat : n = k * Alignment
<1>1. PICK j \in Nat : /\ alignUp(n) = j * Alignment
                       /\ \A m \in Nat : n <= m * Alignment => j <= m
  BY AlignUpIs
<1>2. ASSUME NEW k \in Nat, n = k * Alignment PROVE alignUp(n) = n
  <2>1. Alignment \in Nat /\ j <= k
    BY <1>1, <1>2, AlignmentAssumption
  <2>2. j * Alignment <= k * Alignment
    BY <2>1, TimesOrder
  <2>3. alignUp(n) \in Nat /\ alignUp(n) >= n
    BY AlignUpBound
  <2> QED
    BY <1>1, <1>2, <2>2, <2>3
<1> QED
  BY <1>1, <1>2 DEF Aligned

\* Sums and differences of aligned sizes are aligned.
LEMMA AlignedSums ==
    ASSUME NEW a, NEW b, Aligned(a), Aligned(b)
    PROVE  Aligned(a + b) /\ (a >= b => Aligned(a - b))
<1>1. a \in Nat /\ b \in Nat /\ Alignment \in Nat \ {0}
  BY AlignmentAssumption DEF Aligned
<1>2. PICK j \in Nat : a = j * Alignment
  BY <1>1, AlignedIs
<1>3. PICK k \in Nat : b = k * Alignment
  BY <1>1, AlignedIs
<1>4. a + b = (j + k) * Alignment /\ j + k \in Nat
  BY <1>1, <1>2, <1>3
<1>5. ASSUME a >= b PROVE Aligned(a - b)
  <2>1. CASE j >= k
    <3>1. a - b = (j - k) * Alignment /\ j - k \in Nat
      BY <1>1, <1>2, <1>3, <2>1
    <3>2. a - b \in Nat
      BY <1>1, <1>5
    <3> QED
      BY <3>1, <3>2, AlignedIs
  <2>2. CASE j <= k
    <3>1. a <= b
      BY <1>1, <1>2, <1>3, <2>2, TimesOrder
    <3>2. a - b = 0 * Alignment /\ a - b \in Nat
      BY <1>1, <1>5, <3>1
    <3> QED
      BY <3>2, AlignedIs
  <2> QED
    BY <2>1, <2>2
<1> QED
  BY <1>1, <1>4, <1>5, AlignedIs

\* The least aligned size that is large enough; the headers are aligned.
LEMMA AlignedSizes ==
    /\ \A n \in Nat : Aligned(alignUp(n))
    /\ \A n \in Nat : \A m : Aligned(m) /\ n <= m => alignUp(n) <= m
    /\ Aligned(BlockHeaderBytes) /\ Aligned(FirstBlock)
<1>1. ASSUME NEW n \in Nat PROVE Aligned(alignUp(n))
  BY AlignUpBound, AlignUpOrder DEF Aligned
<1>2. ASSUME NEW n \in Nat, NEW m, Aligned(m), n <= m PROVE alignUp(n) <= m
  BY <1>2, AlignUpOrder DEF Aligned
<1>3. Aligned(BlockHeaderBytes) /\ Aligned(SegmentHeaderBytes)
  BY HeaderAssumption, HeaderAlignment DEF Aligned
<1> QED
  BY <1>1, <1>2, <1>3, AlignedSums DEF FirstBlock

\* Cutting an aligned block at an aligned size leaves two aligned blocks.
LEMMA SplitAligned ==
    ASSUME NEW blk, NEW total \in Nat, Tiles(blk, total), AlignedBlocks(blk),
           NEW o \in DOMAIN blk, NEW wanted, Aligned(wanted), canSplit(blk[o].size, wanted)
    PROVE  AlignedBlocks(splitAt(blk, o, wanted))
<1> DEFINE rest == o + wanted + BlockHeaderBytes
           new == splitAt(blk, o, wanted)
           left == blk[o].size - wanted - BlockHeaderBytes
<1>1. /\ wanted \in Nat /\ BlockHeaderBytes \in Nat /\ MinSplitBytes \in Nat
      /\ o \in Nat /\ blk[o].size \in Nat
  BY TilesFacts, HeaderAssumption DEF Aligned
<1>2. SplitsInto(blk, o, wanted, rest, new)
  BY <1>1, SplitFields
<1>3. Aligned(o) /\ Aligned(blk[o].size) /\ Aligned(BlockHeaderBytes)
  BY AlignedSizes DEF AlignedBlocks
<1>4. Aligned(rest)
  <2>1. Aligned(o + wanted)
    BY <1>3, AlignedSums
  <2> QED
    BY <1>3, <2>1, AlignedSums
<1>5. Aligned(left)
  <2>1. blk[o].size >= wanted /\ blk[o].size - wanted >= BlockHeaderBytes
    BY <1>1 DEF canSplit
  <2>2. Aligned(blk[o].size - wanted)
    BY <1>3, <2>1, AlignedSums
  <2> QED
    BY <1>3, <2>1, <2>2, AlignedSums
<1> HIDE DEF new, rest
<1>6. /\ DOMAIN new = DOMAIN blk \cup {rest}
      /\ new[o].size = wanted /\ new[rest].size = left
  BY <1>2 DEF SplitsInto
<1>7. ASSUME NEW p \in DOMAIN blk \ {o} PROVE new[p].size = blk[p].size
  <2> DEFINE back == IF p = blk[o].next THEN rest ELSE blk[p].prev
  <2>1. new[p] = [size |-> blk[p].size, free |-> blk[p].free, next |-> blk[p].next,
                  prev |-> back]
    BY <1>2 DEF SplitsInto
  <2> HIDE DEF back
  <2> QED
    BY <2>1
<1> HIDE DEF left
<1>8. AlignedBlocks(new)
  BY <1>3, <1>4, <1>5, <1>6, <1>7 DEF AlignedBlocks
<1> QED
  BY <1>8 DEF new

\* A block that swallows its successor is aligned if both were.
LEMMA AbsorbAligned ==
    ASSUME NEW blk, NEW total \in Nat, Tiles(blk, total), AlignedBlocks(blk),
           NEW o \in DOMAIN blk, blk[o].next # NoBlock
    PROVE  AlignedBlocks(absorbNext(blk, o))
<1> DEFINE n == blk[o].next
           new == absorbNext(blk, o)
           sum == blk[o].size + BlockHeaderBytes + blk[n].size
<1>1. Swallows(blk, o, n, new) /\ n \in DOMAIN blk
  BY AbsorbFields, TilesFacts
<1>2. Aligned(sum)
  <2>1. Aligned(blk[o].size) /\ Aligned(BlockHeaderBytes) /\ Aligned(blk[n].size)
    BY <1>1, AlignedSizes DEF AlignedBlocks
  <2>2. Aligned(blk[o].size + BlockHeaderBytes)
    BY <2>1, AlignedSums
  <2> QED
    BY <2>1, <2>2, AlignedSums
<1> HIDE DEF new, n
<1>3. DOMAIN new = DOMAIN blk \ {n} /\ new[o].size = sum
  BY <1>1 DEF Swallows
<1>4. ASSUME NEW p \in DOMAIN blk \ {o, n} PROVE new[p].size = blk[p].size
  <2> DEFINE back == IF p = blk[n].next THEN o ELSE blk[p].prev
  <2>1. new[p] = [size |-> blk[p].size, free |-> blk[p].free, next |-> blk[p].next,
                  prev |-> back]
    BY <1>1 DEF Swallows
  <2> HIDE DEF back
  <2> QED
    BY <2>1
<1> HIDE DEF sum
<1>5. AlignedBlocks(new)
  BY <1>2, <1>3, <1>4 DEF AlignedBlocks
<1> QED
  BY <1>5 DEF new

\* Merging a free block with its neighbours keeps the blocks aligned.
LEMMA CoalesceAligned ==
    ASSUME NEW blk, NEW total \in Nat, Tiles(blk, total), AlignedBlocks(blk), NEW o \in DOMAIN blk
    PROVE  AlignedBlocks(coalesce(blk, o))
<1> DEFINE n == blk[o].next
           joined == IF freeAt(blk, n) THEN absorbNext(blk, o) ELSE blk
           q == joined[o].prev
           result == IF freeAt(joined, q) THEN absorbNext(joined, q) ELSE joined
<1>0. coalesce(blk, o) = result
  BY DEF coalesce
<1>1. AlignedBlocks(joined) /\ Tiles(joined, total) /\ o \in DOMAIN joined
  <2>1. CASE freeAt(blk, n)
    <3>1. n # NoBlock
      BY <2>1 DEF freeAt
    <3>2. /\ Swallows(blk, o, n, joined) /\ Tiles(joined, total)
          /\ AlignedBlocks(joined)
      BY <2>1, <3>1, AbsorbFields, AbsorbTiles, AbsorbAligned
    <3> HIDE DEF joined
    <3>3. n > o /\ o \in DOMAIN joined
      BY <3>1, <3>2, TilesFacts DEF Swallows
    <3> QED
      BY <3>2, <3>3
  <2>2. CASE ~freeAt(blk, n)
    BY <2>2
  <2> QED
    BY <2>1, <2>2
<1> HIDE DEF joined
<1>2. AlignedBlocks(result)
  <2>1. CASE freeAt(joined, q)
    <3>1. q # NoBlock
      BY <2>1 DEF freeAt
    <3>2. q \in DOMAIN joined /\ joined[q].next = o /\ o # NoBlock
      BY <1>1, <3>1, TilesFacts
    <3>3. AlignedBlocks(absorbNext(joined, q))
      BY <1>1, <3>2, AbsorbAligned
    <3> QED
      BY <2>1, <3>3
  <2>2. CASE ~freeAt(joined, q)
    BY <1>1, <2>2
  <2> QED
    BY <2>1, <2>2
<1> QED
  BY <1>0, <1>2

\* Marking a block used or free keeps the blocks aligned.
LEMMA FlagAligned ==
    ASSUME NEW blk, NEW total \in Nat, Tiles(blk, total), AlignedBlocks(blk),
           NEW o \in DOMAIN blk, NEW flag \in BOOLEAN
    PROVE  AlignedBlocks([blk EXCEPT ![o].free = flag])
<1> DEFINE new == [blk EXCEPT ![o].free = flag]
<1>1. DOMAIN new = DOMAIN blk
  OBVIOUS
<1>2. \A p \in DOMAIN blk : new[p] = IF p = o THEN [blk[o] EXCEPT !.free = flag] ELSE blk[p]
  OBVIOUS
<1>3. blk[o] \in BlockType
  BY TilesFacts
<1> HIDE DEF new
<1>4. \A p \in DOMAIN blk : new[p].size = blk[p].size
  BY <1>2, <1>3 DEF BlockType
<1>5. AlignedBlocks(new)
  BY <1>1, <1>4 DEF AlignedBlocks
<1> QED
  BY <1>5 DEF new

\* Rewriting one segment with aligned blocks.
LEMMA RewriteAligned ==
    ASSUME NEW seg, SegmentsType(seg), AlignedAll(seg), NEW c \in Cells, NEW blk,
           AlignedBlocks(blk)
    PROVE  AlignedAll([seg EXCEPT ![c].blk = blk])
<1> DEFINE new == [seg EXCEPT ![c].blk = blk]
<1>1. DOMAIN seg = Cells /\ DOMAIN seg[c] = {"total", "caps", "blk"}
  BY DEF SegmentsType
<1>2. new[c] = [seg[c] EXCEPT !.blk = blk] /\ \A d \in Cells \ {c} : new[d] = seg[d]
  BY <1>1
<1> HIDE DEF new
<1>3. new[c].blk = blk
  BY <1>1, <1>2
<1>4. AlignedAll(new)
  BY <1>2, <1>3 DEF AlignedAll
<1> QED
  BY <1>4 DEF new

\* Taking a block for an aligned size keeps the blocks aligned.
LEMMA TakeAligned ==
    ASSUME NEW h, NEW seg, Well(h, seg), AlignedAll(seg), NEW c \in Listed(h),
           NEW size, Aligned(size), NEW o \in fits(seg, c, size)
    PROVE  AlignedAll(takeBlock(h, seg, <<c, o>>, size).seg)
<1> DEFINE blk == seg[c].blk
           cut == IF canSplit(blk[o].size, size) THEN splitAt(blk, o, size) ELSE blk
           taken == [cut EXCEPT ![o].free = FALSE]
<1>1. /\ seg[c].total \in Nat /\ Tiles(blk, seg[c].total) /\ Coalesced(blk)
      /\ c \in Cells /\ SegmentsType(seg) /\ AlignedBlocks(blk)
  BY ListedFacts DEF Well, SoundSegment, SegmentsType, AlignedAll
<1>2. o \in DOMAIN blk /\ blk[o].free /\ size \in Nat
  BY DEF fits, Aligned
<1>3. takeBlock(h, seg, <<c, o>>, size).seg = [seg EXCEPT ![c].blk = taken]
  BY DEF takeBlock
<1> HIDE DEF blk
<1>4. o \in DOMAIN cut /\ Tiles(cut, seg[c].total)
  BY <1>1, <1>2, TakeBlocks
<1>5. AlignedBlocks(cut)
  BY <1>1, <1>2, SplitAligned
<1> HIDE DEF cut
<1>6. AlignedBlocks(taken)
  BY <1>1, <1>4, <1>5, FlagAligned
<1> HIDE DEF taken
<1> QED
  BY <1>1, <1>3, <1>6, RewriteAligned

\* allocate keeps the blocks aligned.
LEMMA AllocateAligned ==
    ASSUME NEW h, NEW seg, Well(h, seg), AlignedAll(seg), NEW n \in Nat, NEW caps
    PROVE  AlignedAll(allocate(h, seg, n, caps).seg)
<1> DEFINE size == alignUp(IF n = 0 THEN 1 ELSE n)
           p == findFreeBlock(h, seg, size, caps)
           r == allocate(h, seg, n, caps)
<1>1. Aligned(size)
  BY AlignedSizes
<1>2. r = IF isEligibleCaps(h, caps) /\ p # NoPtr
          THEN takeBlock(h, seg, p, size)
          ELSE [h |-> h, seg |-> seg, ptr |-> NoPtr]
  BY DEF allocate
<1> HIDE DEF r, size
<1>3. CASE isEligibleCaps(h, caps) /\ p # NoPtr
  <2>1. PICK c \in Listed(h) : \E o \in fits(seg, c, size) : p = <<c, o>>
    BY <1>3, FoundIsFree
  <2>2. PICK o \in fits(seg, c, size) : p = <<c, o>>
    BY <2>1
  <2>3. r = takeBlock(h, seg, <<c, o>>, size)
    BY <1>2, <1>3, <2>2
  <2> QED
    BY <1>1, <2>3, TakeAligned DEF r
<1>4. CASE ~(isEligibleCaps(h, caps) /\ p # NoPtr)
  <2>1. r = [h |-> h, seg |-> seg, ptr |-> NoPtr]
    BY <1>2, <1>4
  <2>2. r.seg = seg
    BY <2>1
  <2> QED
    BY <2>2 DEF r
<1> QED
  BY <1>3, <1>4

\* deallocate keeps the blocks aligned.
LEMMA DeallocateAligned ==
    ASSUME NEW h, NEW seg, Well(h, seg), AlignedAll(seg), NEW p
    PROVE  AlignedAll(deallocate(h, seg, p).seg)
<1> DEFINE blk == seg[p[1]].blk
           o == p[2]
           freed == [blk EXCEPT ![o].free = TRUE]
           r == deallocate(h, seg, p)
<1>1. CASE ~owns(h, seg, p) \/ blk[o].free
  <2>1. r = [ok |-> FALSE, h |-> h, seg |-> seg]
    BY <1>1 DEF deallocate
  <2>2. r.seg = seg
    BY <2>1
  <2> QED
    BY <2>2 DEF r
<1>2. CASE owns(h, seg, p) /\ ~blk[o].free
  <2>1. /\ p[1] \in Cells /\ o \in DOMAIN blk /\ Tiles(blk, seg[p[1]].total)
        /\ seg[p[1]].total \in Nat /\ SegmentsType(seg) /\ AlignedBlocks(blk)
    BY <1>2, OwnedFacts DEF Well, AlignedAll
  <2>2. r.seg = [seg EXCEPT ![p[1]].blk = coalesce(freed, o)]
    BY <1>2 DEF deallocate
  <2> HIDE DEF blk, o, r
  <2>3. Tiles(freed, seg[p[1]].total) /\ AlignedBlocks(freed) /\ o \in DOMAIN freed
    BY <2>1, FlagTiles, FlagAligned
  <2> HIDE DEF freed
  <2>4. AlignedBlocks(coalesce(freed, o))
    BY <2>1, <2>3, CoalesceAligned
  <2> QED
    BY <2>1, <2>2, <2>4, RewriteAligned DEF r
<1> QED
  BY <1>1, <1>2

\* shrinkBlock to an aligned size keeps the blocks aligned.
LEMMA ShrinkAligned ==
    ASSUME NEW h, NEW seg, Well(h, seg), AlignedAll(seg), NEW p, owns(h, seg, p),
           NEW size, Aligned(size)
    PROVE  AlignedAll(shrinkBlock(h, seg, p, size).seg)
<1> DEFINE blk == seg[p[1]].blk
           o == p[2]
           rest == o + size + BlockHeaderBytes
           cut == splitAt(blk, o, size)
           r == shrinkBlock(h, seg, p, size)
<1>1. /\ p[1] \in Cells /\ o \in DOMAIN blk /\ Tiles(blk, seg[p[1]].total)
      /\ seg[p[1]].total \in Nat /\ SegmentsType(seg) /\ AlignedBlocks(blk)
      /\ size \in Nat
  BY OwnedFacts DEF Well, AlignedAll, Aligned
<1>2. CASE blk[o].size <= size \/ ~canSplit(blk[o].size, size)
  <2>1. r = [status |-> "Done", h |-> h, seg |-> seg, ptr |-> p]
    BY <1>2 DEF shrinkBlock
  <2>2. r.seg = seg
    BY <2>1
  <2> QED
    BY <2>2 DEF r
<1>3. CASE ~(blk[o].size <= size) /\ canSplit(blk[o].size, size)
  <2>1. r.seg = [seg EXCEPT ![p[1]].blk = coalesce(cut, rest)]
    BY <1>3 DEF shrinkBlock
  <2>2. /\ SplitsInto(blk, o, size, rest, cut) /\ Tiles(cut, seg[p[1]].total)
        /\ AlignedBlocks(cut)
    BY <1>1, <1>3, SplitFields, SplitTiles, SplitAligned
  <2> HIDE DEF blk, o, r, cut, rest
  <2>3. rest \in DOMAIN cut
    BY <2>2 DEF SplitsInto
  <2>4. AlignedBlocks(coalesce(cut, rest))
    BY <1>1, <2>2, <2>3, CoalesceAligned
  <2> QED
    BY <1>1, <2>1, <2>4, RewriteAligned DEF r
<1> QED
  BY <1>2, <1>3

\* moveBlock keeps the blocks aligned.
LEMMA MoveAligned ==
    ASSUME NEW h, NEW seg, Well(h, seg), AlignedAll(seg), NEW p, NEW size \in Nat, NEW caps
    PROVE  AlignedAll(moveBlock(h, seg, p, size, caps).seg)
<1> DEFINE new == allocate(h, seg, size, caps)
           old == deallocate(new.h, new.seg, p)
           r == moveBlock(h, seg, p, size, caps)
<1>1. HeapStep(h, seg, new.h, new.seg) /\ AlignedAll(new.seg)
  BY AllocateStep, AllocateAligned
<1>2. r = IF new.ptr = NoPtr
          THEN [status |-> "NeedsGrowth", h |-> h, seg |-> seg, ptr |-> NoPtr]
          ELSE [status |-> "Done", h |-> old.h, seg |-> old.seg, ptr |-> new.ptr]
  BY DEF moveBlock
<1> HIDE DEF new, r
<1>3. AlignedAll(old.seg)
  BY <1>1, StepKeepsWell, DeallocateAligned
<1> HIDE DEF old
<1>4. r.seg = seg \/ r.seg = old.seg
  BY <1>2
<1> QED
  BY <1>3, <1>4 DEF r

\* reallocate keeps the blocks aligned.
LEMMA ReallocateAligned ==
    ASSUME NEW h, NEW seg, Well(h, seg), AlignedAll(seg), NEW p, NEW n \in Nat, NEW caps
    PROVE  AlignedAll(reallocate(h, seg, p, n, caps).seg)
<1> DEFINE size == alignUp(n)
           blk == seg[p[1]].blk
           r == reallocate(h, seg, p, n, caps)
<1>1. size \in Nat /\ Aligned(size)
  BY AlignedSizes DEF Aligned
<1>2. r = IF ~owns(h, seg, p) \/ blk[p[2]].free
          THEN [status |-> "NotOwned", h |-> h, seg |-> seg, ptr |-> NoPtr]
          ELSE IF blk[p[2]].size >= size
               THEN shrinkBlock(h, seg, p, size)
               ELSE moveBlock(h, seg, p, size, caps)
  BY DEF reallocate
<1> HIDE DEF r, size
<1>3. CASE ~owns(h, seg, p) \/ blk[p[2]].free
  <2>1. r = [status |-> "NotOwned", h |-> h, seg |-> seg, ptr |-> NoPtr]
    BY <1>2, <1>3
  <2>2. r.seg = seg
    BY <2>1
  <2> QED
    BY <2>2 DEF r
<1>4. CASE owns(h, seg, p) /\ ~blk[p[2]].free
  <2>1. r = shrinkBlock(h, seg, p, size) \/ r = moveBlock(h, seg, p, size, caps)
    BY <1>2, <1>4
  <2> QED
    BY <1>1, <1>4, <2>1, ShrinkAligned, MoveAligned DEF r
<1> QED
  BY <1>3, <1>4

\* Both attempts of createSegment format an aligned segment.
LEMMA FreshAligned ==
    ASSUME NEW n \in Nat, NEW payload \in segmentPayloads(n), NEW caps
    PROVE  AlignedBlocks(newSegment(payload, caps).blk)
<1>1. (IF n > DefaultSegmentBytes THEN n ELSE DefaultSegmentBytes) \in Nat
  BY SegmentAssumption
<1>2. Aligned(payload)
  BY <1>1, AlignedSizes DEF segmentPayloads, defaultPayload
<1>3. /\ DOMAIN newSegment(payload, caps).blk = {FirstBlock}
      /\ newSegment(payload, caps).blk[FirstBlock].size = payload
  BY DEF newSegment
<1> QED
  BY <1>2, <1>3, AlignedSizes DEF AlignedBlocks
-----------------------------------------------------------------------------
(* The counters of a heap.                                                 *)

sizesIn(blk) == [o \in DOMAIN blk |-> blk[o].size]
FreeIn(blk) == {o \in DOMAIN blk : blk[o].free}
usedSum(blk) == SumOf(sizesIn(blk), Used(blk))
freeSum(blk) == SumOf(sizesIn(blk), FreeIn(blk))

\* Blocks that can be added up.
Countable(blk) ==
    /\ IsFiniteSet(DOMAIN blk)
    /\ \A o \in DOMAIN blk : blk[o].size \in Nat /\ blk[o].free \in BOOLEAN

\* The sums are over finite sets of natural numbers.
LEMMA SumsAre ==
    ASSUME NEW blk, Countable(blk)
    PROVE  /\ IsFiniteSet(Used(blk)) /\ IsFiniteSet(FreeIn(blk))
           /\ \A o \in DOMAIN blk : sizesIn(blk)[o] = blk[o].size
           /\ usedSum(blk) \in Nat /\ freeSum(blk) \in Nat
           /\ \A o \in Used(blk) : blk[o].size <= usedSum(blk)
           /\ \A o \in FreeIn(blk) : blk[o].size <= freeSum(blk)
<1>1. IsFiniteSet(Used(blk)) /\ IsFiniteSet(FreeIn(blk))
  <2>1. Used(blk) \subseteq DOMAIN blk /\ FreeIn(blk) \subseteq DOMAIN blk
    BY DEF Used, FreeIn
  <2> QED
    BY <2>1, FS_Subset DEF Countable
<1>2. \A o \in DOMAIN blk : sizesIn(blk)[o] = blk[o].size /\ blk[o].size \in Nat
  BY DEF sizesIn, Countable
<1> DEFINE f == sizesIn(blk)
<1>3. \A S \in SUBSET DOMAIN blk : IsFiniteSet(S) =>
        SumOf(f, S) \in Nat /\ \A o \in S : blk[o].size <= SumOf(f, S)
  <2> SUFFICES ASSUME NEW S \in SUBSET DOMAIN blk, IsFiniteSet(S)
               PROVE  SumOf(f, S) \in Nat /\ \A o \in S : blk[o].size <= SumOf(f, S)
    OBVIOUS
  <2>1. \A o \in S : f[o] = blk[o].size /\ f[o] \in Nat
    BY <1>2
  <2> HIDE DEF f
  <2>2. SumOf(f, S) \in Nat /\ \A o \in S : f[o] <= SumOf(f, S)
    BY <2>1, SumNat
  <2> QED
    BY <2>1, <2>2
<1>4. Used(blk) \in SUBSET DOMAIN blk /\ FreeIn(blk) \in SUBSET DOMAIN blk
  BY DEF Used, FreeIn
<1> QED
  BY <1>1, <1>2, <1>3, <1>4 DEF usedSum, freeSum

\* Two sets of blocks with the same used blocks, or the same free ones.
LEMMA SameSums ==
    ASSUME NEW blk, Countable(blk), NEW new, Countable(new)
    PROVE  /\ SameUse(blk, new) => usedSum(new) = usedSum(blk)
           /\ FreeIn(new) = FreeIn(blk) /\ (\A o \in FreeIn(blk) : new[o].size = blk[o].size)
                => freeSum(new) = freeSum(blk)
<1>1. ASSUME NEW S \in SUBSET DOMAIN blk, S \in SUBSET DOMAIN new, IsFiniteSet(S),
             \A o \in S : new[o].size = blk[o].size
      PROVE  SumOf(sizesIn(new), S) = SumOf(sizesIn(blk), S)
  <2> DEFINE f == sizesIn(blk)
             g == sizesIn(new)
  <2>1. \A o \in S : f[o] = g[o]
    BY <1>1, SumsAre
  <2> HIDE DEF f, g
  <2>2. SumOf(f, S) = SumOf(g, S)
    BY <1>1, <2>1, SumSame
  <2> QED
    BY <2>2 DEF f, g
<1>2. /\ Used(blk) \in SUBSET DOMAIN blk /\ FreeIn(blk) \in SUBSET DOMAIN blk
      /\ Used(new) \in SUBSET DOMAIN new /\ FreeIn(new) \in SUBSET DOMAIN new
      /\ IsFiniteSet(Used(blk)) /\ IsFiniteSet(FreeIn(blk))
  BY SumsAre DEF Used, FreeIn
<1>3. ASSUME SameUse(blk, new) PROVE usedSum(new) = usedSum(blk)
  <2>1. Used(new) = Used(blk) /\ \A o \in Used(blk) : new[o].size = blk[o].size
    BY <1>3 DEF SameUse
  <2> QED
    BY <1>1, <1>2, <2>1 DEF usedSum
<1>4. ASSUME FreeIn(new) = FreeIn(blk), \A o \in FreeIn(blk) : new[o].size = blk[o].size
      PROVE  freeSum(new) = freeSum(blk)
  BY <1>1, <1>2, <1>4 DEF freeSum
<1> QED
  BY <1>3, <1>4

\* One block changes its size, in a set that is otherwise the same.
LEMMA ResizeSum ==
    ASSUME NEW blk, Countable(blk), NEW new, Countable(new), NEW S, IsFiniteSet(S),
           S \subseteq DOMAIN blk, S \subseteq DOMAIN new, NEW x \in S,
           \A o \in S \ {x} : new[o].size = blk[o].size
    PROVE  SumOf(sizesIn(new), S) = SumOf(sizesIn(blk), S) + (new[x].size - blk[x].size)
<1> DEFINE f == sizesIn(blk)
           g == sizesIn(new)
<1>1. \A o \in S : /\ f[o] = blk[o].size /\ g[o] = new[o].size
                   /\ f[o] \in Int /\ g[o] \in Int
  BY SumsAre DEF Countable
<1> HIDE DEF f, g
<1>a. (\A y \in S : f[y] \in Int /\ g[y] \in Int) /\ \A y \in S \ {x} : f[y] = g[y]
  BY <1>1
<1>2. SumOf(g, S) = SumOf(f, S) + (g[x] - f[x])
  BY <1>a, SumChange
<1>3. g[x] - f[x] = new[x].size - blk[x].size
  BY <1>1
<1>4. SumOf(g, S) = SumOf(f, S) + (new[x].size - blk[x].size)
  BY <1>2, <1>3
<1> QED
  BY <1>4 DEF f, g

\* The sum over the blocks of S and one more.
LEMMA MoreSum ==
    ASSUME NEW blk, Countable(blk), NEW S, IsFiniteSet(S), S \subseteq DOMAIN blk,
           NEW x \in DOMAIN blk, x \notin S
    PROVE  /\ SumOf(sizesIn(blk), S) \in Int
           /\ SumOf(sizesIn(blk), S \cup {x}) = SumOf(sizesIn(blk), S) + blk[x].size
<1> DEFINE f == sizesIn(blk)
<1>1. \A o \in S \cup {x} : f[o] \in Int
  BY SumsAre DEF Countable
<1>2. f[x] = blk[x].size
  BY SumsAre
<1> HIDE DEF f
<1>3. SumOf(f, S \cup {x}) = SumOf(f, S) + f[x]
  BY <1>1, SumPut
<1>4. SumOf(f, S) \in Int
  BY <1>1, SumAdds
<1> QED
  BY <1>2, <1>3, <1>4 DEF f

\* splitBlock: a free block loses a header to the free bytes, a used one gives
\* its tail to them.
LEMMA SplitSums ==
    ASSUME NEW blk, Countable(blk), NEW o \in DOMAIN blk, NEW wanted \in Nat, NEW rest, NEW new,
           SplitsInto(blk, o, wanted, rest, new), new[rest].size \in Nat
    PROVE  /\ Countable(new)
           /\ blk[o].free => /\ usedSum(new) = usedSum(blk)
                             /\ freeSum(new) = freeSum(blk) - BlockHeaderBytes
           /\ ~blk[o].free => /\ usedSum(new) = usedSum(blk) - (blk[o].size - wanted)
                              /\ freeSum(new) = freeSum(blk) + new[rest].size
<1>1. /\ rest \notin DOMAIN blk /\ DOMAIN new = DOMAIN blk \cup {rest} /\ rest # o
      /\ new[o].size = wanted /\ new[o].free = blk[o].free
      /\ new[rest].size = blk[o].size - wanted - BlockHeaderBytes
      /\ new[rest].free
  BY DEF SplitsInto
<1>2. \A p \in DOMAIN blk \ {o} : new[p].size = blk[p].size /\ new[p].free = blk[p].free
  <2> TAKE p \in DOMAIN blk \ {o}
  <2> DEFINE back == IF p = blk[o].next THEN rest ELSE blk[p].prev
  <2>1. new[p] = [size |-> blk[p].size, free |-> blk[p].free, next |-> blk[p].next,
                  prev |-> back]
    BY DEF SplitsInto
  <2> HIDE DEF back
  <2> QED
    BY <2>1
<1>r. new[rest].free = TRUE
  BY DEF SplitsInto
<1>3. Countable(new)
  <2>1. IsFiniteSet(DOMAIN new)
    BY <1>1, FS_AddElement DEF Countable
  <2>2. \A p \in DOMAIN new : new[p].size \in Nat
    BY <1>1, <1>2 DEF Countable
  <2>3. \A p \in DOMAIN new : new[p].free \in BOOLEAN
    BY <1>1, <1>2, <1>r DEF Countable
  <2> QED
    BY <2>1, <2>2, <2>3 DEF Countable
<1>4. /\ Used(new) = Used(blk) /\ FreeIn(new) = FreeIn(blk) \cup {rest}
      /\ rest \notin FreeIn(blk)
  BY <1>1, <1>2 DEF Used, FreeIn
<1>5. /\ IsFiniteSet(Used(blk)) /\ IsFiniteSet(FreeIn(blk))
      /\ usedSum(blk) \in Nat /\ freeSum(blk) \in Nat
      /\ Used(blk) \subseteq DOMAIN blk /\ FreeIn(blk) \subseteq DOMAIN blk
      /\ blk[o].size \in Nat /\ BlockHeaderBytes \in Nat
  BY SumsAre, HeaderAssumption DEF Used, FreeIn, Countable
<1>6. freeSum(new) = SumOf(sizesIn(new), FreeIn(blk)) + new[rest].size
  <2>1. FreeIn(blk) \subseteq DOMAIN new /\ rest \in DOMAIN new
    BY <1>1, <1>5
  <2>2. SumOf(sizesIn(new), FreeIn(blk) \cup {rest})
          = SumOf(sizesIn(new), FreeIn(blk)) + new[rest].size
    BY <1>3, <1>4, <1>5, <2>1, MoreSum
  <2> QED
    BY <1>4, <2>2 DEF freeSum
<1>7. CASE blk[o].free
  <2>1. SameUse(blk, new)
    BY <1>2, <1>4, <1>7 DEF SameUse, Used
  <2>2. usedSum(new) = usedSum(blk)
    BY <1>3, <2>1, SameSums
  <2>3. SumOf(sizesIn(new), FreeIn(blk)) = freeSum(blk) + (new[o].size - blk[o].size)
    <3>1. o \in FreeIn(blk) /\ FreeIn(blk) \subseteq DOMAIN new
      BY <1>1, <1>5, <1>7 DEF FreeIn
    <3>2. \A p \in FreeIn(blk) \ {o} : new[p].size = blk[p].size
      BY <1>2, <1>5
    <3> QED
      BY <1>3, <1>5, <3>1, <3>2, ResizeSum DEF freeSum
  <2>4. freeSum(new) = freeSum(blk) - BlockHeaderBytes
    BY <1>1, <1>5, <1>6, <2>3
  <2> QED
    BY <1>3, <1>7, <2>2, <2>4
<1>8. CASE ~blk[o].free
  <2>1. SumOf(sizesIn(new), FreeIn(blk)) = freeSum(blk)
    <3>1. FreeIn(blk) \subseteq DOMAIN blk \ {o}
      BY <1>5, <1>8 DEF FreeIn
    <3> DEFINE f == sizesIn(blk)
               g == sizesIn(new)
    <3>2. \A p \in FreeIn(blk) : f[p] = g[p]
      <4> TAKE p \in FreeIn(blk)
      <4>1. f[p] = blk[p].size /\ g[p] = new[p].size /\ p \in DOMAIN blk \ {o}
        BY <1>1, <1>3, <3>1, SumsAre
      <4> QED
        BY <1>2, <4>1
    <3> HIDE DEF f, g
    <3>3. SumOf(f, FreeIn(blk)) = SumOf(g, FreeIn(blk))
      BY <1>5, <3>2, SumSame
    <3> QED
      BY <3>3 DEF f, g, freeSum
  <2>2. usedSum(new) = usedSum(blk) + (new[o].size - blk[o].size)
    <3>1. o \in Used(blk) /\ Used(blk) \subseteq DOMAIN new
      BY <1>1, <1>5, <1>8 DEF Used
    <3>2. \A p \in Used(blk) \ {o} : new[p].size = blk[p].size
      BY <1>2, <1>5
    <3>3. SumOf(sizesIn(new), Used(blk))
            = SumOf(sizesIn(blk), Used(blk)) + (new[o].size - blk[o].size)
      BY <1>3, <1>5, <3>1, <3>2, ResizeSum
    <3> QED
      BY <1>4, <3>3 DEF usedSum
  <2>3. usedSum(new) = usedSum(blk) - (blk[o].size - wanted)
    BY <1>1, <1>5, <2>2
  <2>4. freeSum(new) = freeSum(blk) + new[rest].size
    BY <1>6, <2>1
  <2> QED
    BY <1>3, <1>8, <2>3, <2>4
<1> QED
  BY <1>7, <1>8

\* A merge of two free blocks gains a header (coalesce).
LEMMA AbsorbSums ==
    ASSUME NEW blk, Countable(blk), NEW o \in DOMAIN blk, NEW n, NEW new,
           Swallows(blk, o, n, new), n # o, blk[o].free, blk[n].free
    PROVE  /\ Countable(new)
           /\ usedSum(new) = usedSum(blk)
           /\ freeSum(new) = freeSum(blk) + BlockHeaderBytes
<1>1. /\ n \in DOMAIN blk /\ DOMAIN new = DOMAIN blk \ {n}
      /\ new[o].size = blk[o].size + BlockHeaderBytes + blk[n].size
      /\ new[o].free = blk[o].free
  BY DEF Swallows
<1>2. \A p \in DOMAIN blk \ {o, n} : new[p].size = blk[p].size /\ new[p].free = blk[p].free
  <2> TAKE p \in DOMAIN blk \ {o, n}
  <2> DEFINE back == IF p = blk[n].next THEN o ELSE blk[p].prev
  <2>1. new[p] = [size |-> blk[p].size, free |-> blk[p].free, next |-> blk[p].next,
                  prev |-> back]
    BY DEF Swallows
  <2> HIDE DEF back
  <2> QED
    BY <2>1
<1>3. Countable(new)
  <2>1. IsFiniteSet(DOMAIN new)
    BY <1>1, FS_RemoveElement DEF Countable
  <2>2. \A p \in DOMAIN new : new[p].size \in Nat
    BY <1>1, <1>2, HeaderAssumption DEF Countable
  <2>3. \A p \in DOMAIN new : new[p].free \in BOOLEAN
    BY <1>1, <1>2 DEF Countable
  <2> QED
    BY <2>1, <2>2, <2>3 DEF Countable
<1>4. usedSum(new) = usedSum(blk)
  BY <1>3, AbsorbUse, SameSums
<1> DEFINE S == FreeIn(blk) \ {n}
<1>5. /\ FreeIn(new) = S /\ o \in S /\ n \notin S /\ FreeIn(blk) = S \cup {n}
      /\ S \subseteq DOMAIN blk /\ S \subseteq DOMAIN new
  BY <1>1, <1>2 DEF FreeIn
<1>6. IsFiniteSet(S)
  BY SumsAre, FS_RemoveElement
<1>7. \A p \in S \ {o} : new[p].size = blk[p].size
  BY <1>2, <1>5
<1> HIDE DEF S
<1>8. SumOf(sizesIn(new), S) = SumOf(sizesIn(blk), S) + (new[o].size - blk[o].size)
  BY <1>3, <1>5, <1>6, <1>7, ResizeSum
<1>9. /\ SumOf(sizesIn(blk), S \cup {n}) = SumOf(sizesIn(blk), S) + blk[n].size
      /\ SumOf(sizesIn(blk), S) \in Int
  BY <1>1, <1>5, <1>6, MoreSum
<1>10. freeSum(new) = SumOf(sizesIn(new), S) /\ freeSum(blk) = SumOf(sizesIn(blk), S \cup {n})
  BY <1>5 DEF freeSum
<1>11. /\ blk[o].size \in Nat /\ blk[n].size \in Nat /\ BlockHeaderBytes \in Nat
       /\ freeSum(blk) \in Nat /\ freeSum(new) \in Nat
  BY <1>1, <1>3, SumsAre, HeaderAssumption DEF Countable
<1>12. freeSum(new) = freeSum(blk) + BlockHeaderBytes
  BY <1>1, <1>8, <1>9, <1>10, <1>11
<1> QED
  BY <1>3, <1>4, <1>12

\* coalesce accounts for its merges with coalesceGain.
LEMMA CoalesceSums ==
    ASSUME NEW blk, NEW total \in Nat, Tiles(blk, total), Countable(blk),
           NEW o \in DOMAIN blk, blk[o].free
    PROVE  /\ Countable(coalesce(blk, o))
           /\ usedSum(coalesce(blk, o)) = usedSum(blk)
           /\ freeSum(coalesce(blk, o)) = freeSum(blk) + coalesceGain(blk, o)
<1> DEFINE n == blk[o].next
           b == blk[o].prev
           joined == IF freeAt(blk, n) THEN absorbNext(blk, o) ELSE blk
           q == joined[o].prev
           result == IF freeAt(joined, q) THEN absorbNext(joined, q) ELSE joined
           gainNext == IF freeAt(blk, n) THEN BlockHeaderBytes ELSE 0
           gainPrev == IF freeAt(blk, b) THEN BlockHeaderBytes ELSE 0
<1>0. coalesce(blk, o) = result /\ coalesceGain(blk, o) = gainNext + gainPrev
  BY DEF coalesce, coalesceGain
<1>b. /\ b = NoBlock \/ (b \in DOMAIN blk /\ b < o /\ b \in Nat)
      /\ o \in Nat /\ o # NoBlock
      /\ n # NoBlock => n \in DOMAIN blk /\ n > o /\ n \in Nat
  BY TilesFacts
<1>h. BlockHeaderBytes \in Nat /\ freeSum(blk) \in Nat
  BY HeaderAssumption, SumsAre
<1>1. /\ Countable(joined) /\ usedSum(joined) = usedSum(blk)
      /\ freeSum(joined) = freeSum(blk) + gainNext
      /\ Tiles(joined, total) /\ o \in DOMAIN joined /\ joined[o].free
      /\ q = b /\ freeAt(joined, b) = freeAt(blk, b)
  <2>1. CASE freeAt(blk, n)
    <3>1. n # NoBlock /\ blk[n].free
      BY <2>1 DEF freeAt
    <3>2. Swallows(blk, o, n, joined) /\ Tiles(joined, total)
      BY <2>1, <3>1, AbsorbFields, AbsorbTiles
    <3> HIDE DEF joined
    <3>3. joined[o].prev = b /\ n # o /\ o \in DOMAIN joined /\ joined[o].free = blk[o].free
      BY <1>b, <3>1, <3>2 DEF Swallows
    <3>4. ASSUME b # NoBlock PROVE joined[b].free = blk[b].free
      <4> DEFINE back == IF b = blk[n].next THEN o ELSE blk[b].prev
      <4>1. b \in DOMAIN blk \ {o, n}
        BY <1>b, <3>1, <3>4
      <4> HIDE DEF b
      <4>2. joined[b] = [size |-> blk[b].size, free |-> blk[b].free, next |-> blk[b].next,
                         prev |-> back]
        BY <3>2, <4>1 DEF Swallows
      <4> HIDE DEF back
      <4> QED
        BY <4>2
    <3>5. freeAt(joined, b) = freeAt(blk, b)
      BY <3>4 DEF freeAt
    <3>g. gainNext = BlockHeaderBytes
      BY <2>1
    <3>o. joined[o].free
      BY <3>3
    <3>q. q = b
      BY <3>3
    <3> HIDE DEF n, b, gainNext, q
    <3>6. /\ Countable(joined) /\ usedSum(joined) = usedSum(blk)
          /\ freeSum(joined) = freeSum(blk) + BlockHeaderBytes
      BY <3>1, <3>2, <3>3, AbsorbSums
    <3> QED
      BY <3>2, <3>3, <3>5, <3>6, <3>g, <3>o, <3>q, Zenon
  <2>2. CASE ~freeAt(blk, n)
    <3>1. joined = blk /\ gainNext = 0
      BY <2>2
    <3> HIDE DEF joined, gainNext
    <3> QED
      BY <1>h, <3>1
  <2> QED
    BY <2>1, <2>2
<1> HIDE DEF joined, b, gainNext, n
<1>2. /\ Countable(result) /\ usedSum(result) = usedSum(joined)
      /\ freeSum(result) = freeSum(joined) + gainPrev
  <2>1. CASE freeAt(joined, q)
    <3>1. q # NoBlock /\ joined[q].free /\ gainPrev = BlockHeaderBytes
      BY <1>1, <2>1 DEF freeAt
    <3>2. q \in DOMAIN joined /\ joined[q].next = o /\ o # NoBlock /\ q # o
      BY <1>1, <3>1, TilesFacts
    <3>3. Swallows(joined, q, o, result)
      BY <1>1, <2>1, <3>2, AbsorbFields
    <3> HIDE DEF result, q, gainPrev
    <3>4. /\ Countable(result) /\ usedSum(result) = usedSum(joined)
          /\ freeSum(result) = freeSum(joined) + BlockHeaderBytes
      BY <1>1, <3>1, <3>2, <3>3, AbsorbSums
    <3> QED
      BY <3>1, <3>4
  <2>2. CASE ~freeAt(joined, q)
    <3>1. result = joined /\ gainPrev = 0
      BY <1>1, <2>2
    <3>2. freeSum(joined) \in Nat
      BY <1>1, SumsAre
    <3> HIDE DEF result, gainPrev
    <3> QED
      BY <1>1, <3>1, <3>2
  <2> QED
    BY <2>1, <2>2
<1>3. gainNext \in Nat /\ gainPrev \in Nat
  BY <1>h DEF gainNext
<1> HIDE DEF result, gainPrev
<1> QED
  BY <1>0, <1>1, <1>2, <1>3, <1>h

\* A used block that becomes free, or the other way round, moves its size from
\* one sum to the other.
LEMMA FlipSums ==
    ASSUME NEW blk, Countable(blk), NEW new, Countable(new), NEW o \in DOMAIN blk,
           DOMAIN new = DOMAIN blk, \A p \in DOMAIN blk : new[p].size = blk[p].size,
           \A p \in DOMAIN blk \ {o} : new[p].free = blk[p].free,
           ~blk[o].free, new[o].free
    PROVE  /\ usedSum(new) = usedSum(blk) - blk[o].size
           /\ freeSum(new) = freeSum(blk) + blk[o].size
<1> DEFINE f == sizesIn(blk)
           g == sizesIn(new)
<1>0. /\ IsFiniteSet(Used(blk)) /\ IsFiniteSet(FreeIn(blk))
      /\ IsFiniteSet(Used(new)) /\ IsFiniteSet(FreeIn(new))
      /\ usedSum(blk) \in Nat /\ freeSum(blk) \in Nat
  BY SumsAre
<1>1. ASSUME NEW S \in SUBSET DOMAIN blk, IsFiniteSet(S) PROVE SumOf(f, S) = SumOf(g, S)
  <2>1. \A p \in S : f[p] = g[p]
    BY SumsAre
  <2> HIDE DEF f, g
  <2> QED
    BY <1>1, <2>1, SumSame
<1>2. /\ Used(blk) = Used(new) \cup {o} /\ o \notin Used(new) /\ Used(new) \in SUBSET DOMAIN blk
      /\ FreeIn(new) = FreeIn(blk) \cup {o} /\ o \notin FreeIn(blk)
      /\ FreeIn(blk) \in SUBSET DOMAIN blk /\ FreeIn(new) \in SUBSET DOMAIN blk
  BY DEF Used, FreeIn
<1>3. usedSum(blk) = SumOf(f, Used(new)) + blk[o].size /\ SumOf(f, Used(new)) \in Int
  <2>1. /\ SumOf(sizesIn(blk), Used(new) \cup {o}) = SumOf(sizesIn(blk), Used(new)) + blk[o].size
        /\ SumOf(sizesIn(blk), Used(new)) \in Int
    BY <1>0, <1>2, MoreSum
  <2> QED
    BY <1>2, <2>1 DEF usedSum
<1>4. SumOf(f, FreeIn(new)) = freeSum(blk) + blk[o].size
  <2>1. SumOf(sizesIn(blk), FreeIn(blk) \cup {o}) = SumOf(sizesIn(blk), FreeIn(blk)) + blk[o].size
    BY <1>0, <1>2, MoreSum
  <2> QED
    BY <1>2, <2>1 DEF freeSum
<1>5. usedSum(new) = SumOf(f, Used(new)) /\ freeSum(new) = SumOf(f, FreeIn(new))
  BY <1>0, <1>1, <1>2 DEF usedSum, freeSum
<1>6. blk[o].size \in Nat
  BY DEF Countable
<1> HIDE DEF f, g
<1> QED
  BY <1>0, <1>3, <1>4, <1>5, <1>6

\* Marking a block used or free, as the two sums see it.
LEMMA FlagSums ==
    ASSUME NEW blk, NEW total \in Nat, Tiles(blk, total), Countable(blk), NEW o \in DOMAIN blk
    PROVE  /\ ~blk[o].free =>
                LET new == [blk EXCEPT ![o].free = TRUE]
                IN  /\ Countable(new) /\ new[o].size = blk[o].size /\ new[o].free
                    /\ usedSum(new) = usedSum(blk) - blk[o].size
                    /\ freeSum(new) = freeSum(blk) + blk[o].size
           /\ blk[o].free =>
                LET new == [blk EXCEPT ![o].free = FALSE]
                IN  /\ Countable(new) /\ new[o].size = blk[o].size
                    /\ usedSum(new) = usedSum(blk) + blk[o].size
                    /\ freeSum(new) = freeSum(blk) - blk[o].size
<1>1. ASSUME NEW flag \in BOOLEAN
      PROVE  LET new == [blk EXCEPT ![o].free = flag]
             IN  /\ Countable(new) /\ DOMAIN new = DOMAIN blk
                 /\ \A p \in DOMAIN blk : new[p].size = blk[p].size
                 /\ \A p \in DOMAIN blk \ {o} : new[p].free = blk[p].free
                 /\ new[o].free = flag
  <2> DEFINE new == [blk EXCEPT ![o].free = flag]
  <2>1. /\ DOMAIN new = DOMAIN blk /\ new[o] = [blk[o] EXCEPT !.free = flag]
        /\ \A p \in DOMAIN blk \ {o} : new[p] = blk[p]
    OBVIOUS
  <2>2. blk[o] \in BlockType
    BY TilesFacts
  <2> HIDE DEF new
  <2>3. new[o].size = blk[o].size
    BY <2>1, <2>2 DEF BlockType
  <2>4. new[o].free = flag
    BY <2>1, <2>2 DEF BlockType
  <2>5. \A p \in DOMAIN blk : new[p].size = blk[p].size
    BY <2>1, <2>3
  <2>6. \A p \in DOMAIN blk \ {o} : new[p].free = blk[p].free
    BY <2>1
  <2>7. \A p \in DOMAIN blk : new[p].free \in BOOLEAN
    BY <2>4, <2>6 DEF Countable
  <2>8. Countable(new)
    BY <2>1, <2>5, <2>7 DEF Countable
  <2> QED
    BY <2>1, <2>4, <2>5, <2>6, <2>8 DEF new
<1>2. ASSUME ~blk[o].free
      PROVE  LET new == [blk EXCEPT ![o].free = TRUE]
             IN  /\ Countable(new) /\ new[o].size = blk[o].size /\ new[o].free
                 /\ usedSum(new) = usedSum(blk) - blk[o].size
                 /\ freeSum(new) = freeSum(blk) + blk[o].size
  <2> DEFINE new == [blk EXCEPT ![o].free = TRUE]
  <2>1. /\ Countable(new) /\ DOMAIN new = DOMAIN blk
        /\ \A p \in DOMAIN blk : new[p].size = blk[p].size
        /\ \A p \in DOMAIN blk \ {o} : new[p].free = blk[p].free
        /\ new[o].free = TRUE
    BY <1>1
  <2> HIDE DEF new
  <2>2. usedSum(new) = usedSum(blk) - blk[o].size /\ freeSum(new) = freeSum(blk) + blk[o].size
    BY <1>2, <2>1, FlipSums
  <2> QED
    BY <2>1, <2>2 DEF new
<1>3. ASSUME blk[o].free
      PROVE  LET new == [blk EXCEPT ![o].free = FALSE]
             IN  /\ Countable(new) /\ new[o].size = blk[o].size
                 /\ usedSum(new) = usedSum(blk) + blk[o].size
                 /\ freeSum(new) = freeSum(blk) - blk[o].size
  <2> DEFINE new == [blk EXCEPT ![o].free = FALSE]
  <2>1. /\ Countable(new) /\ DOMAIN new = DOMAIN blk
        /\ \A p \in DOMAIN blk : new[p].size = blk[p].size
        /\ \A p \in DOMAIN blk \ {o} : new[p].free = blk[p].free
        /\ new[o].free = FALSE
    BY <1>1
  <2> HIDE DEF new
  <2>2. usedSum(blk) = usedSum(new) - new[o].size /\ freeSum(blk) = freeSum(new) + new[o].size
    <3>1. /\ o \in DOMAIN new /\ ~new[o].free
          /\ \A p \in DOMAIN new : blk[p].size = new[p].size
          /\ \A p \in DOMAIN new \ {o} : blk[p].free = new[p].free
      BY <2>1
    <3> QED
      BY <1>3, <2>1, <3>1, FlipSums
  <2>3. usedSum(new) \in Nat /\ freeSum(new) \in Nat /\ blk[o].size \in Nat
    BY <2>1, SumsAre DEF Countable
  <2>4. usedSum(new) = usedSum(blk) + blk[o].size /\ freeSum(new) = freeSum(blk) - blk[o].size
    BY <2>1, <2>2, <2>3
  <2> QED
    BY <2>1, <2>4 DEF new
<1> QED
  BY <1>2, <1>3

usedOf(seg) == [c \in Cells |-> usedSum(seg[c].blk)]
freeOf(seg) == [c \in Cells |-> freeSum(seg[c].blk)]
totalOf(seg) == [c \in Cells |-> seg[c].total]

\* What stats() reports of the bytes of a heap is what its segments add up to,
\* and there are finitely many segments and blocks to add up.
Sums(h, seg) ==
    /\ IsFiniteSet(Listed(h))
    /\ \A c \in Listed(h) : Countable(seg[c].blk)
    /\ h.segmentCount = Cardinality(Listed(h))
    /\ h.segmentBytes = SumOf(totalOf(seg), Listed(h))
    /\ h.usedBytes = SumOf(usedOf(seg), Listed(h))
    /\ h.freeBytes = SumOf(freeOf(seg), Listed(h))

\* And of the allocations, how many blocks are used.
ListedUse(h, seg) == {p \in UsedAt(seg) : p[1] \in Listed(h)}
Counts(h, seg) ==
    /\ IsFiniteSet(ListedUse(h, seg))
    /\ h.allocationCount = Cardinality(ListedUse(h, seg))

Exact(h, seg) == Sums(h, seg) /\ Counts(h, seg)

\* No counter is less than what one segment contributes to it.
LEMMA SumsFacts ==
    ASSUME NEW h, NEW seg, Well(h, seg), Sums(h, seg)
    PROVE  /\ h.usedBytes \in Nat /\ h.freeBytes \in Nat /\ h.segmentBytes \in Nat
           /\ \A c \in Listed(h) :
                /\ c \in Cells
                /\ usedOf(seg)[c] = usedSum(seg[c].blk) /\ usedSum(seg[c].blk) \in Nat
                /\ freeOf(seg)[c] = freeSum(seg[c].blk) /\ freeSum(seg[c].blk) \in Nat
                /\ totalOf(seg)[c] = seg[c].total /\ seg[c].total \in Nat
                /\ usedSum(seg[c].blk) <= h.usedBytes
                /\ freeSum(seg[c].blk) <= h.freeBytes
                /\ seg[c].total <= h.segmentBytes
<1>1. Listed(h) \subseteq Cells /\ \A c \in Cells : seg[c].total \in Nat
  BY ListedFacts DEF Well, SegmentsType
<1>2. \A c \in Listed(h) : usedSum(seg[c].blk) \in Nat /\ freeSum(seg[c].blk) \in Nat
  BY SumsAre DEF Sums
<1> DEFINE u == usedOf(seg)
           f == freeOf(seg)
           t == totalOf(seg)
<1>3. \A c \in Listed(h) : /\ u[c] = usedSum(seg[c].blk) /\ f[c] = freeSum(seg[c].blk)
                           /\ t[c] = seg[c].total
  BY <1>1 DEF usedOf, freeOf, totalOf
<1>4. \A c \in Listed(h) : u[c] \in Nat /\ f[c] \in Nat /\ t[c] \in Nat
  BY <1>1, <1>2, <1>3
<1>5. IsFiniteSet(Listed(h))
  BY DEF Sums
<1>6. /\ h.usedBytes = SumOf(u, Listed(h)) /\ h.freeBytes = SumOf(f, Listed(h))
      /\ h.segmentBytes = SumOf(t, Listed(h))
  BY DEF Sums
<1> HIDE DEF u, f, t
<1>7. /\ SumOf(u, Listed(h)) \in Nat /\ \A c \in Listed(h) : u[c] <= SumOf(u, Listed(h))
      /\ SumOf(f, Listed(h)) \in Nat /\ \A c \in Listed(h) : f[c] <= SumOf(f, Listed(h))
      /\ SumOf(t, Listed(h)) \in Nat /\ \A c \in Listed(h) : t[c] <= SumOf(t, Listed(h))
  BY <1>4, <1>5, SumNat
<1>8. /\ h.usedBytes \in Nat /\ h.freeBytes \in Nat /\ h.segmentBytes \in Nat
      /\ \A c \in Listed(h) : /\ usedSum(seg[c].blk) <= h.usedBytes
                              /\ freeSum(seg[c].blk) <= h.freeBytes
                              /\ seg[c].total <= h.segmentBytes
  BY <1>3, <1>6, <1>7
<1>9. \A c \in Listed(h) : /\ usedOf(seg)[c] = usedSum(seg[c].blk)
                           /\ freeOf(seg)[c] = freeSum(seg[c].blk)
                           /\ totalOf(seg)[c] = seg[c].total
  BY <1>3 DEF u, f, t
<1> QED
  BY <1>1, <1>2, <1>8, <1>9

\* The sums see nothing but the listed segments.
LEMMA SumsElsewhere ==
    ASSUME NEW h, NEW seg, Well(h, seg), Sums(h, seg), NEW new,
           \A c \in Listed(h) : new[c] = seg[c]
    PROVE  Sums(h, new)
<1>1. Listed(h) \subseteq Cells /\ IsFiniteSet(Listed(h))
  BY ListedFacts DEF Well, Sums
<1>2. /\ \A c \in Listed(h) : usedOf(seg)[c] = usedOf(new)[c]
      /\ \A c \in Listed(h) : freeOf(seg)[c] = freeOf(new)[c]
      /\ \A c \in Listed(h) : totalOf(seg)[c] = totalOf(new)[c]
  BY <1>1 DEF usedOf, freeOf, totalOf
<1>3. /\ SumOf(usedOf(seg), Listed(h)) = SumOf(usedOf(new), Listed(h))
      /\ SumOf(freeOf(seg), Listed(h)) = SumOf(freeOf(new), Listed(h))
      /\ SumOf(totalOf(seg), Listed(h)) = SumOf(totalOf(new), Listed(h))
  BY <1>1, <1>2, SumSame
<1> QED
  BY <1>3 DEF Sums

\* Rewriting one segment changes the sums by what changes in it.
LEMMA WorkSums ==
    ASSUME NEW h, NEW seg, Well(h, seg), Sums(h, seg), NEW c \in Listed(h),
           NEW blk, Countable(blk), NEW new, NEW newSeg,
           new.segments = h.segments,
           new.segmentCount = h.segmentCount, new.segmentBytes = h.segmentBytes,
           new.usedBytes = h.usedBytes + (usedSum(blk) - usedSum(seg[c].blk)),
           new.freeBytes = h.freeBytes + (freeSum(blk) - freeSum(seg[c].blk)),
           newSeg[c].blk = blk, newSeg[c].total = seg[c].total,
           \A d \in Cells \ {c} : newSeg[d] = seg[d]
    PROVE  Sums(new, newSeg)
<1>1. /\ Listed(h) \subseteq Cells /\ IsFiniteSet(Listed(h)) /\ Listed(new) = Listed(h)
      /\ \A d \in Listed(h) : Countable(newSeg[d].blk)
  <2>1. Listed(h) \subseteq Cells
    BY ListedFacts DEF Well
  <2>2. \A d \in Listed(h) : newSeg[d].blk = IF d = c THEN blk ELSE seg[d].blk
    BY <2>1
  <2>3. IsFiniteSet(Listed(h)) /\ \A d \in Listed(h) : Countable(seg[d].blk)
    BY DEF Sums
  <2>4. \A d \in Listed(h) : Countable(newSeg[d].blk)
    BY <2>2, <2>3, Zenon
  <2>5. Listed(new) = Listed(h)
    BY DEF Listed
  <2> QED
    BY <2>1, <2>3, <2>4, <2>5
<1>2. usedSum(blk) \in Nat /\ freeSum(blk) \in Nat
  BY SumsAre
<1> DEFINE u == usedOf(seg)
           v == usedOf(newSeg)
           f == freeOf(seg)
           g == freeOf(newSeg)
           S == Listed(h)
<1>3. \A d \in S : /\ u[d] = usedSum(seg[d].blk) /\ v[d] = usedSum(newSeg[d].blk)
                   /\ f[d] = freeSum(seg[d].blk) /\ g[d] = freeSum(newSeg[d].blk)
  BY <1>1 DEF usedOf, freeOf
<1>4. \A d \in S : u[d] \in Int /\ v[d] \in Int /\ f[d] \in Int /\ g[d] \in Int
  BY <1>1, <1>3, SumsAre DEF Sums
<1>5. \A d \in S \ {c} : u[d] = v[d] /\ f[d] = g[d]
  BY <1>1, <1>3
<1>6. /\ v[c] - u[c] = usedSum(blk) - usedSum(seg[c].blk)
      /\ g[c] - f[c] = freeSum(blk) - freeSum(seg[c].blk)
  BY <1>3
<1>7. \A d \in S : totalOf(seg)[d] = totalOf(newSeg)[d]
  BY <1>1 DEF totalOf
<1>8. SumOf(totalOf(seg), S) = SumOf(totalOf(newSeg), S)
  BY <1>1, <1>7, SumSame
<1> HIDE DEF u, v, f, g
<1>9. SumOf(v, S) = SumOf(u, S) + (v[c] - u[c])
  BY <1>1, <1>4, <1>5, SumChange
<1>10. SumOf(g, S) = SumOf(f, S) + (g[c] - f[c])
  BY <1>1, <1>4, <1>5, SumChange
<1>11. h.usedBytes = SumOf(u, S) /\ h.freeBytes = SumOf(f, S)
  BY DEF Sums, u, f
<1>12. new.usedBytes = SumOf(v, S) /\ new.freeBytes = SumOf(g, S)
  BY <1>6, <1>9, <1>10, <1>11
<1> QED
  BY <1>1, <1>8, <1>12 DEF Sums, v, g

\* One used block more, one less, or the same ones.
LEMMA CountsMore ==
    ASSUME NEW h, NEW seg, Counts(h, seg), NEW new, NEW newSeg, NEW p,
           Listed(new) = Listed(h), SameUseBut(seg, newSeg, {p}),
           p \in UsedAt(newSeg) \ UsedAt(seg), p[1] \in Listed(h),
           new.allocationCount = h.allocationCount + 1
    PROVE  Counts(new, newSeg)
<1>1. ListedUse(new, newSeg) = ListedUse(h, seg) \cup {p} /\ p \notin ListedUse(h, seg)
  BY DEF ListedUse, SameUseBut
<1>2. IsFiniteSet(ListedUse(h, seg)) /\ h.allocationCount = Cardinality(ListedUse(h, seg))
  BY DEF Counts
<1>3. /\ IsFiniteSet(ListedUse(new, newSeg))
      /\ Cardinality(ListedUse(new, newSeg)) = Cardinality(ListedUse(h, seg)) + 1
  BY <1>1, <1>2, FS_AddElement
<1> QED
  BY <1>2, <1>3 DEF Counts

LEMMA CountsLess ==
    ASSUME NEW h, NEW seg, Counts(h, seg), NEW new, NEW newSeg, NEW p,
           Listed(new) = Listed(h), SameUseBut(seg, newSeg, {p}),
           p \in UsedAt(seg), p \notin UsedAt(newSeg), p[1] \in Listed(h),
           new.allocationCount = saturating(h.allocationCount, 1)
    PROVE  Counts(new, newSeg)
<1>1. ListedUse(new, newSeg) = ListedUse(h, seg) \ {p} /\ p \in ListedUse(h, seg)
  BY DEF ListedUse, SameUseBut
<1>2. IsFiniteSet(ListedUse(h, seg)) /\ h.allocationCount = Cardinality(ListedUse(h, seg))
  BY DEF Counts
<1>3. /\ IsFiniteSet(ListedUse(new, newSeg))
      /\ Cardinality(ListedUse(new, newSeg)) = Cardinality(ListedUse(h, seg)) - 1
  BY <1>1, <1>2, FS_RemoveElement
<1>4. Cardinality(ListedUse(h, seg)) \in Nat /\ Cardinality(ListedUse(new, newSeg)) \in Nat
  BY <1>2, <1>3, FS_CardinalityType
<1>5. new.allocationCount = Cardinality(ListedUse(new, newSeg))
  BY <1>2, <1>3, <1>4 DEF saturating
<1> QED
  BY <1>3, <1>5 DEF Counts

LEMMA CountsSame ==
    ASSUME NEW h, NEW seg, Counts(h, seg), NEW new, NEW newSeg,
           Listed(new) = Listed(h), ListedUse(h, newSeg) = ListedUse(h, seg),
           new.allocationCount = h.allocationCount
    PROVE  Counts(new, newSeg)
<1>1. ListedUse(new, newSeg) = ListedUse(h, newSeg)
  BY DEF ListedUse
<1> QED
  BY <1>1 DEF Counts

\* Rewriting the blocks of a segment leaves the rest of the memory alone.
LEMMA RewriteFields ==
    ASSUME NEW seg, SegmentsType(seg), NEW c \in Cells, NEW blk
    PROVE  LET new == [seg EXCEPT ![c].blk = blk]
           IN  /\ new[c].blk = blk /\ new[c].total = seg[c].total
               /\ \A d \in Cells \ {c} : new[d] = seg[d]
<1> DEFINE new == [seg EXCEPT ![c].blk = blk]
<1>1. DOMAIN seg = Cells /\ DOMAIN seg[c] = {"total", "caps", "blk"}
  BY DEF SegmentsType
<1>2. new[c] = [seg[c] EXCEPT !.blk = blk] /\ \A d \in Cells \ {c} : new[d] = seg[d]
  BY <1>1
<1> HIDE DEF new
<1>3. new[c].blk = blk /\ new[c].total = seg[c].total
  BY <1>1, <1>2
<1> QED
  BY <1>2, <1>3 DEF new

\* Taking a free block, split or not, as the sums of its segment see it.
LEMMA TakeSums ==
    ASSUME NEW blk, NEW total \in Nat, Tiles(blk, total), Countable(blk),
           NEW o \in DOMAIN blk, blk[o].free, NEW size \in Nat, NEW cut,
           cut = IF canSplit(blk[o].size, size) THEN splitAt(blk, o, size) ELSE blk
    PROVE  LET header == IF canSplit(blk[o].size, size) THEN BlockHeaderBytes ELSE 0
               taken == [cut EXCEPT ![o].free = FALSE]
           IN  /\ Countable(taken) /\ cut[o].size \in Nat /\ header \in Nat
               /\ usedSum(taken) = usedSum(blk) + cut[o].size
               /\ freeSum(taken) = freeSum(blk) - header - cut[o].size
               /\ freeSum(taken) \in Nat
<1> DEFINE header == IF canSplit(blk[o].size, size) THEN BlockHeaderBytes ELSE 0
           taken == [cut EXCEPT ![o].free = FALSE]
<1>0. header \in Nat /\ usedSum(blk) \in Nat /\ freeSum(blk) \in Nat
  BY HeaderAssumption, SumsAre
<1>1. /\ Countable(cut) /\ Tiles(cut, total) /\ o \in DOMAIN cut /\ cut[o].free
      /\ usedSum(cut) = usedSum(blk) /\ freeSum(cut) = freeSum(blk) - header
  <2>1. CASE canSplit(blk[o].size, size)
    <3> DEFINE rest == o + size + BlockHeaderBytes
    <3>1. /\ cut = splitAt(blk, o, size) /\ SplitsInto(blk, o, size, rest, cut)
          /\ Tiles(cut, total)
      BY <2>1, SplitFields, SplitTiles
    <3> HIDE DEF rest
    <3>a. rest \in DOMAIN cut /\ o \in DOMAIN cut
      BY <3>1 DEF SplitsInto
    <3>b. o \in FreeIn(cut)
      <4>1. o \notin Used(blk)
        BY DEF Used
      <4>2. Used(cut) = Used(blk)
        BY <3>1, SplitUse
      <4> QED
        BY <3>a, <4>1, <4>2 DEF Used, FreeIn
    <3>2. rest \in DOMAIN cut /\ o \in DOMAIN cut /\ cut[o].free
      BY <3>a, <3>b DEF FreeIn
    <3>3. cut[rest].size \in Nat
      BY <3>1, <3>2, TilesFacts
    <3>4. /\ Countable(cut) /\ usedSum(cut) = usedSum(blk)
          /\ freeSum(cut) = freeSum(blk) - BlockHeaderBytes
      BY <3>1, <3>3, SplitSums
    <3> QED
      BY <2>1, <3>1, <3>2, <3>4
  <2>2. CASE ~canSplit(blk[o].size, size)
    <3>1. cut = blk /\ header = 0
      BY <2>2
    <3> HIDE DEF header
    <3> QED
      BY <1>0, <3>1
  <2> QED
    BY <2>1, <2>2
<1> HIDE DEF header
<1>2. cut[o].size \in Nat
  BY <1>1 DEF Countable
<1>3. /\ Countable(taken) /\ usedSum(taken) = usedSum(cut) + cut[o].size
      /\ freeSum(taken) = freeSum(cut) - cut[o].size
  BY <1>1, FlagSums
<1> HIDE DEF taken
<1>4. freeSum(taken) \in Nat
  BY <1>3, SumsAre
<1>5. /\ usedSum(taken) = usedSum(blk) + cut[o].size
      /\ freeSum(taken) = freeSum(blk) - header - cut[o].size
  BY <1>0, <1>1, <1>2, <1>3
<1> QED
  BY <1>0, <1>2, <1>3, <1>4, <1>5 DEF taken, header

\* takeBlock keeps the counters exact (HeapAllocator.h:89-92).
LEMMA TakeExact ==
    ASSUME NEW h, NEW seg, Well(h, seg), Exact(h, seg), NEW c \in Listed(h), NEW size \in Nat,
           NEW o \in fits(seg, c, size)
    PROVE  LET r == takeBlock(h, seg, <<c, o>>, size)
           IN  Exact(r.h, r.seg)
<1> DEFINE blk == seg[c].blk
           cut == IF canSplit(blk[o].size, size) THEN splitAt(blk, o, size) ELSE blk
           header == IF canSplit(blk[o].size, size) THEN BlockHeaderBytes ELSE 0
           taken == [cut EXCEPT ![o].free = FALSE]
           r == takeBlock(h, seg, <<c, o>>, size)
<1>1. /\ seg[c].total \in Nat /\ Tiles(blk, seg[c].total) /\ Countable(blk)
      /\ c \in Cells /\ SegmentsType(seg) /\ h \in AllocatorType
      /\ h.allocationCount \in Int
  BY ListedFacts DEF Well, SoundSegment, SegmentsType, AllocatorType, Exact, Sums
<1>2. o \in DOMAIN blk /\ blk[o].free
  BY DEF fits
<1>3. /\ r.seg = [seg EXCEPT ![c].blk = taken]
      /\ r.h = [h EXCEPT !.usedBytes = h.usedBytes + cut[o].size,
                         !.freeBytes = saturating(h.freeBytes - header, cut[o].size),
                         !.allocationCount = h.allocationCount + 1,
                         !.hint = c]
  BY DEF takeBlock
<1>4. /\ Countable(taken) /\ cut[o].size \in Nat /\ header \in Nat
      /\ usedSum(taken) = usedSum(blk) + cut[o].size
      /\ freeSum(taken) = freeSum(blk) - header - cut[o].size
      /\ freeSum(taken) \in Nat
  <2> HIDE DEF blk
  <2> QED
    BY <1>1, <1>2, TakeSums
<1>5. /\ SameUseBut(seg, r.seg, {<<c, o>>}) /\ <<c, o>> \in UsedAt(r.seg) \ UsedAt(seg)
  BY TakeUse
<1> HIDE DEF r, taken, cut, header
<1>6. /\ h.usedBytes \in Nat /\ h.freeBytes \in Nat
      /\ usedSum(blk) \in Nat /\ freeSum(blk) \in Nat /\ freeSum(blk) <= h.freeBytes
  BY SumsFacts DEF Exact
<1> HIDE DEF blk
<1>7. /\ r.h.segments = h.segments /\ r.h.segmentCount = h.segmentCount
      /\ r.h.segmentBytes = h.segmentBytes
      /\ r.h.usedBytes = h.usedBytes + cut[o].size
      /\ r.h.freeBytes = saturating(h.freeBytes - header, cut[o].size)
      /\ r.h.allocationCount = h.allocationCount + 1
  BY <1>1, <1>3 DEF AllocatorType
<1>8. /\ r.h.usedBytes = h.usedBytes + (usedSum(taken) - usedSum(blk))
      /\ r.h.freeBytes = h.freeBytes + (freeSum(taken) - freeSum(blk))
  BY <1>4, <1>6, <1>7 DEF saturating
<1>9. /\ r.seg[c].blk = taken /\ r.seg[c].total = seg[c].total
      /\ \A d \in Cells \ {c} : r.seg[d] = seg[d]
  BY <1>1, <1>3, RewriteFields
<1>10. Sums(r.h, r.seg)
  BY <1>4, <1>7, <1>8, <1>9, WorkSums DEF Exact, blk
<1>11. Listed(r.h) = Listed(h)
  BY <1>7 DEF Listed
<1>12. Counts(r.h, r.seg)
  BY <1>5, <1>7, <1>11, CountsMore DEF Exact
<1> QED
  BY <1>10, <1>12 DEF Exact, r

\* allocate keeps the counters exact.
LEMMA AllocateExact ==
    ASSUME NEW h, NEW seg, Well(h, seg), Exact(h, seg), NEW n \in Nat, NEW caps
    PROVE  Exact(allocate(h, seg, n, caps).h, allocate(h, seg, n, caps).seg)
<1> DEFINE size == alignUp(IF n = 0 THEN 1 ELSE n)
           p == findFreeBlock(h, seg, size, caps)
           r == allocate(h, seg, n, caps)
<1>1. size \in Nat
  BY AlignUpBound
<1>2. r = IF isEligibleCaps(h, caps) /\ p # NoPtr
          THEN takeBlock(h, seg, p, size)
          ELSE [h |-> h, seg |-> seg, ptr |-> NoPtr]
  BY DEF allocate
<1> HIDE DEF r, size
<1>3. CASE isEligibleCaps(h, caps) /\ p # NoPtr
  <2>1. PICK c \in Listed(h) : \E o \in fits(seg, c, size) : p = <<c, o>>
    BY <1>3, FoundIsFree
  <2>2. PICK o \in fits(seg, c, size) : p = <<c, o>>
    BY <2>1
  <2>3. r = takeBlock(h, seg, <<c, o>>, size)
    BY <1>2, <1>3, <2>2
  <2> QED
    BY <1>1, <2>3, TakeExact DEF r
<1>4. CASE ~(isEligibleCaps(h, caps) /\ p # NoPtr)
  <2>1. r = [h |-> h, seg |-> seg, ptr |-> NoPtr]
    BY <1>2, <1>4
  <2>2. r.h = h /\ r.seg = seg
    BY <2>1
  <2> QED
    BY <2>2 DEF r
<1> QED
  BY <1>3, <1>4

\* deallocate keeps the counters exact, and never saturates (HeapAllocator.h:150-153).
LEMMA DeallocateExact ==
    ASSUME NEW h, NEW seg, Well(h, seg), Exact(h, seg), NEW p, p[1] \in Cells => p \in Cells \X Nat
    PROVE  Exact(deallocate(h, seg, p).h, deallocate(h, seg, p).seg)
<1> DEFINE blk == seg[p[1]].blk
           o == p[2]
           freed == [blk EXCEPT ![o].free = TRUE]
           r == deallocate(h, seg, p)
           gain == coalesceGain(freed, o)
           new == coalesce(freed, o)
<1>1. CASE ~owns(h, seg, p) \/ blk[o].free
  <2>1. r = [ok |-> FALSE, h |-> h, seg |-> seg]
    BY <1>1 DEF deallocate
  <2>2. r.h = h /\ r.seg = seg
    BY <2>1
  <2> QED
    BY <2>2
<1>2. CASE owns(h, seg, p) /\ ~blk[o].free
  <2> DEFINE c == p[1]
  <2>1. /\ c \in Listed(h) /\ c \in Cells
        /\ o \in DOMAIN blk /\ Tiles(blk, seg[c].total) /\ seg[c].total \in Nat
        /\ SegmentsType(seg) /\ h \in AllocatorType /\ Countable(blk)
    BY <1>2, OwnedFacts DEF Well, Exact, Sums
  <2>2. /\ r.seg = [seg EXCEPT ![c].blk = new] /\ r.ok = TRUE
        /\ r.h = [h EXCEPT !.usedBytes = saturating(h.usedBytes, freed[o].size),
                           !.freeBytes = h.freeBytes + freed[o].size + gain,
                           !.allocationCount = saturating(h.allocationCount, 1)]
    BY <1>2 DEF deallocate
  <2>3. /\ p \in UsedAt(seg) /\ SameUseBut(seg, r.seg, {p}) /\ p \notin UsedAt(r.seg)
    <3>1. p \in UsedAt(seg)
      BY <1>2, <2>1 DEF UsedAt, Used
    <3> QED
      BY <2>1, <2>2, <3>1, DeallocateUse
  <2>u. o \in Used(blk)
    BY <1>2, <2>1 DEF Used
  <2> HIDE DEF r, new, gain
  <2>4. /\ Countable(freed) /\ freed[o].size = blk[o].size /\ freed[o].free
        /\ usedSum(freed) = usedSum(blk) - blk[o].size
        /\ freeSum(freed) = freeSum(blk) + blk[o].size
        /\ Tiles(freed, seg[c].total) /\ o \in DOMAIN freed
    <3> HIDE DEF blk, c, o
    <3>1. /\ Countable(freed) /\ freed[o].size = blk[o].size /\ freed[o].free
          /\ usedSum(freed) = usedSum(blk) - blk[o].size
          /\ freeSum(freed) = freeSum(blk) + blk[o].size
      BY <1>2, <2>1, FlagSums
    <3>2. Tiles(freed, seg[c].total) /\ o \in DOMAIN freed
      BY <2>1, FlagTiles
    <3> QED
      BY <3>1, <3>2
  <2>5. h.usedBytes \in Nat /\ h.freeBytes \in Nat /\ usedSum(blk) \in Nat /\ freeSum(blk) \in Nat
        /\ usedSum(blk) <= h.usedBytes /\ blk[o].size <= usedSum(blk) /\ blk[o].size \in Nat
    <3>1. /\ h.usedBytes \in Nat /\ h.freeBytes \in Nat
          /\ usedSum(blk) \in Nat /\ freeSum(blk) \in Nat /\ usedSum(blk) <= h.usedBytes
      BY <2>1, SumsFacts DEF Exact
    <3>2. blk[o].size <= usedSum(blk)
      BY <2>1, <2>u, SumsAre
    <3>3. blk[o].size \in Nat
      BY <2>1 DEF Countable
    <3> QED
      BY <3>1, <3>2, <3>3
  <2> HIDE DEF blk, o, freed
  <2>6. /\ Countable(new) /\ usedSum(new) = usedSum(freed) /\ freeSum(new) = freeSum(freed) + gain
    BY <2>1, <2>4, CoalesceSums DEF new, gain
  <2>g. gain \in Int
    BY GainIsNumber DEF gain
  <2>7. /\ r.h.segments = h.segments /\ r.h.segmentCount = h.segmentCount
        /\ r.h.segmentBytes = h.segmentBytes
        /\ r.h.usedBytes = saturating(h.usedBytes, freed[o].size)
        /\ r.h.freeBytes = h.freeBytes + freed[o].size + gain
        /\ r.h.allocationCount = saturating(h.allocationCount, 1)
    BY <2>1, <2>2 DEF AllocatorType
  <2>8. /\ r.h.usedBytes = h.usedBytes + (usedSum(new) - usedSum(blk))
        /\ r.h.freeBytes = h.freeBytes + (freeSum(new) - freeSum(blk))
    BY <2>4, <2>5, <2>6, <2>7, <2>g DEF saturating
  <2>9. /\ r.seg[c].blk = new /\ r.seg[c].total = seg[c].total
        /\ \A d \in Cells \ {c} : r.seg[d] = seg[d]
    BY <2>1, <2>2, RewriteFields
  <2>10. Sums(r.h, r.seg)
    BY <2>1, <2>6, <2>7, <2>8, <2>9, WorkSums DEF Exact, blk
  <2>11. Listed(r.h) = Listed(h)
    BY <2>7 DEF Listed
  <2>12. Counts(r.h, r.seg)
    BY <2>1, <2>3, <2>7, <2>11, CountsLess DEF Exact
  <2> QED
    BY <2>10, <2>12 DEF Exact, r
<1> QED
  BY <1>1, <1>2

\* shrinkBlock keeps the counters exact (HeapAllocator.h:485-499).
LEMMA ShrinkExact ==
    ASSUME NEW h, NEW seg, Well(h, seg), Exact(h, seg), NEW p \in Cells \X Nat,
           owns(h, seg, p), ~seg[p[1]].blk[p[2]].free,
           NEW size \in Nat, seg[p[1]].blk[p[2]].size >= size
    PROVE  Exact(shrinkBlock(h, seg, p, size).h, shrinkBlock(h, seg, p, size).seg)
<1> DEFINE blk == seg[p[1]].blk
           o == p[2]
           rest == o + size + BlockHeaderBytes
           cut == splitAt(blk, o, size)
           r == shrinkBlock(h, seg, p, size)
           gain == coalesceGain(cut, rest)
           new == coalesce(cut, rest)
<1>1. CASE blk[o].size <= size \/ ~canSplit(blk[o].size, size)
  <2>1. r = [status |-> "Done", h |-> h, seg |-> seg, ptr |-> p]
    BY <1>1 DEF shrinkBlock
  <2>2. r.h = h /\ r.seg = seg
    BY <2>1
  <2> QED
    BY <2>2
<1>2. CASE ~(blk[o].size <= size) /\ canSplit(blk[o].size, size)
  <2> DEFINE c == p[1]
  <2>1. /\ c \in Listed(h) /\ c \in Cells
        /\ o \in DOMAIN blk /\ Tiles(blk, seg[c].total) /\ seg[c].total \in Nat
        /\ SegmentsType(seg) /\ h \in AllocatorType /\ Countable(blk)
    BY OwnedFacts DEF Well, Exact, Sums
  <2>2. /\ r.seg = [seg EXCEPT ![c].blk = new]
        /\ r.h = [h EXCEPT !.usedBytes = h.usedBytes - (blk[o].size - size),
                           !.freeBytes = h.freeBytes + cut[rest].size + gain]
    BY <1>2 DEF shrinkBlock
  <2>3. /\ SameUseBut(seg, r.seg, {p}) /\ p \in UsedAt(seg) /\ p \in UsedAt(r.seg)
    BY ShrinkUse
  <2>4. ~blk[o].free
    OBVIOUS
  <2>5. h.usedBytes \in Nat /\ h.freeBytes \in Nat /\ usedSum(blk) \in Nat /\ freeSum(blk) \in Nat
        /\ blk[o].size \in Nat
    BY <2>1, SumsFacts DEF Exact, Countable
  <2> HIDE DEF r, new, gain, blk, o
  <2>6. SplitsInto(blk, o, size, rest, cut) /\ Tiles(cut, seg[c].total)
    BY <1>2, <2>1, SplitFields, SplitTiles
  <2> HIDE DEF rest, cut
  <2>7. rest \in DOMAIN cut /\ cut[rest].free
    BY <2>6 DEF SplitsInto
  <2>8. cut[rest].size \in Nat
    BY <2>1, <2>6, <2>7, TilesFacts
  <2>9. /\ Countable(cut) /\ usedSum(cut) = usedSum(blk) - (blk[o].size - size)
        /\ freeSum(cut) = freeSum(blk) + cut[rest].size
    BY <2>1, <2>4, <2>6, <2>8, SplitSums
  <2>10. /\ Countable(new) /\ usedSum(new) = usedSum(cut) /\ freeSum(new) = freeSum(cut) + gain
    BY <2>1, <2>6, <2>7, <2>9, CoalesceSums DEF new, gain
  <2>11. gain \in Int
    BY GainIsNumber DEF gain
  <2>12. /\ r.h.segments = h.segments /\ r.h.segmentCount = h.segmentCount
         /\ r.h.segmentBytes = h.segmentBytes /\ r.h.allocationCount = h.allocationCount
         /\ r.h.usedBytes = h.usedBytes - (blk[o].size - size)
         /\ r.h.freeBytes = h.freeBytes + cut[rest].size + gain
    BY <2>1, <2>2 DEF AllocatorType
  <2>13. /\ r.h.usedBytes = h.usedBytes + (usedSum(new) - usedSum(blk))
         /\ r.h.freeBytes = h.freeBytes + (freeSum(new) - freeSum(blk))
    BY <2>5, <2>8, <2>9, <2>10, <2>11, <2>12
  <2>14. /\ r.seg[c].blk = new /\ r.seg[c].total = seg[c].total
         /\ \A d \in Cells \ {c} : r.seg[d] = seg[d]
    BY <2>1, <2>2, RewriteFields
  <2>15. Sums(r.h, r.seg)
    BY <2>1, <2>10, <2>12, <2>13, <2>14, WorkSums DEF Exact, blk
  <2>16. Listed(r.h) = Listed(h)
    BY <2>12 DEF Listed
  <2>17. ListedUse(h, r.seg) = ListedUse(h, seg)
    BY <2>3 DEF ListedUse, SameUseBut
  <2>18. Counts(r.h, r.seg)
    BY <2>12, <2>16, <2>17, CountsSame DEF Exact
  <2> QED
    BY <2>15, <2>18 DEF Exact, r
<1> QED
  BY <1>1, <1>2

\* moveBlock keeps the counters exact, through both of its calls.
LEMMA MoveExact ==
    ASSUME NEW h, NEW seg, Well(h, seg), Exact(h, seg), NEW p \in Cells \X Nat,
           NEW size \in Nat, NEW caps
    PROVE  Exact(moveBlock(h, seg, p, size, caps).h, moveBlock(h, seg, p, size, caps).seg)
<1> DEFINE new == allocate(h, seg, size, caps)
           old == deallocate(new.h, new.seg, p)
           r == moveBlock(h, seg, p, size, caps)
<1>1. Exact(new.h, new.seg) /\ Well(new.h, new.seg)
  <2>1. HeapStep(h, seg, new.h, new.seg)
    BY AllocateStep
  <2> HIDE DEF new
  <2>2. Well(new.h, new.seg)
    BY <2>1, StepKeepsWell
  <2> QED
    BY <2>2, AllocateExact DEF new
<1>2. r = IF new.ptr = NoPtr
          THEN [status |-> "NeedsGrowth", h |-> h, seg |-> seg, ptr |-> NoPtr]
          ELSE [status |-> "Done", h |-> old.h, seg |-> old.seg, ptr |-> new.ptr]
  BY DEF moveBlock
<1> HIDE DEF new
<1>3. Exact(old.h, old.seg)
  BY <1>1, DeallocateExact
<1> HIDE DEF old, r
<1>4. (r.h = h /\ r.seg = seg) \/ (r.h = old.h /\ r.seg = old.seg)
  BY <1>2
<1> QED
  BY <1>3, <1>4 DEF r

\* reallocate keeps the counters exact.
LEMMA ReallocateExact ==
    ASSUME NEW h, NEW seg, Well(h, seg), Exact(h, seg), NEW p, p[1] \in Cells => p \in Cells \X Nat,
           NEW n \in Nat, NEW caps
    PROVE  Exact(reallocate(h, seg, p, n, caps).h, reallocate(h, seg, p, n, caps).seg)
<1> DEFINE size == alignUp(n)
           blk == seg[p[1]].blk
           r == reallocate(h, seg, p, n, caps)
<1>1. size \in Nat
  BY AlignUpBound
<1>2. r = IF ~owns(h, seg, p) \/ blk[p[2]].free
          THEN [status |-> "NotOwned", h |-> h, seg |-> seg, ptr |-> NoPtr]
          ELSE IF blk[p[2]].size >= size
               THEN shrinkBlock(h, seg, p, size)
               ELSE moveBlock(h, seg, p, size, caps)
  BY DEF reallocate
<1> HIDE DEF r, size
<1>3. CASE ~owns(h, seg, p) \/ blk[p[2]].free
  <2>1. r = [status |-> "NotOwned", h |-> h, seg |-> seg, ptr |-> NoPtr]
    BY <1>2, <1>3
  <2>2. r.h = h /\ r.seg = seg
    BY <2>1
  <2> QED
    BY <2>2 DEF r
<1>4. CASE owns(h, seg, p) /\ ~blk[p[2]].free
  <2>1. p \in Cells \X Nat
    BY <1>4, OwnedFacts
  <2>2. CASE blk[p[2]].size >= size
    <3>1. r = shrinkBlock(h, seg, p, size)
      BY <1>2, <1>4, <2>2
    <3> QED
      BY <1>1, <1>4, <2>1, <2>2, <3>1, ShrinkExact DEF r
  <2>3. CASE ~(blk[p[2]].size >= size)
    <3>1. r = moveBlock(h, seg, p, size, caps)
      BY <1>2, <1>4, <2>3
    <3> QED
      BY <1>1, <2>1, <3>1, MoveExact DEF r
  <2> QED
    BY <2>2, <2>3
<1> QED
  BY <1>3, <1>4

\* A segment that is one free block: what growth links and what a trim unlinks.
Bare(blk) == Used(blk) = {} /\ DOMAIN blk = {FirstBlock}

LEMMA BareSums ==
    ASSUME NEW blk, NEW total \in Nat, Tiles(blk, total), Bare(blk)
    PROVE  /\ Countable(blk) /\ usedSum(blk) = 0
           /\ freeSum(blk) = blk[FirstBlock].size /\ blk[FirstBlock].size \in Nat
<1>1. IsFiniteSet({FirstBlock}) /\ IsFiniteSet({})
  BY FS_Singleton, FS_EmptySet
<1>2. \A o \in DOMAIN blk : blk[o].size \in Nat /\ blk[o].free \in BOOLEAN
  BY TilesFacts
<1>3. Countable(blk)
  BY <1>1, <1>2 DEF Countable, Bare
<1>4. usedSum(blk) = 0
  BY SumEmpty DEF usedSum, Bare
<1>5. FreeIn(blk) = {} \cup {FirstBlock} /\ FirstBlock \notin {} /\ FirstBlock \in DOMAIN blk
  BY DEF Bare, Used, FreeIn
<1>6. /\ SumOf(sizesIn(blk), {} \cup {FirstBlock}) = SumOf(sizesIn(blk), {}) + blk[FirstBlock].size
      /\ SumOf(sizesIn(blk), {}) = 0
  BY <1>1, <1>3, <1>5, MoreSum, SumEmpty
<1>7. blk[FirstBlock].size \in Nat
  BY <1>2, <1>5
<1>8. freeSum(blk) = blk[FirstBlock].size
  BY <1>5, <1>6, <1>7 DEF freeSum
<1> QED
  BY <1>3, <1>4, <1>7, <1>8

\* The three sums over the listed segments and one more.
LEMMA SumsMore ==
    ASSUME NEW seg, NEW S, IsFiniteSet(S), S \subseteq Cells, NEW c \in Cells, c \notin S,
           \A d \in S \cup {c} : Countable(seg[d].blk) /\ seg[d].total \in Nat
    PROVE  /\ SumOf(totalOf(seg), S \cup {c}) = SumOf(totalOf(seg), S) + seg[c].total
           /\ SumOf(usedOf(seg), S \cup {c}) = SumOf(usedOf(seg), S) + usedSum(seg[c].blk)
           /\ SumOf(freeOf(seg), S \cup {c}) = SumOf(freeOf(seg), S) + freeSum(seg[c].blk)
           /\ SumOf(totalOf(seg), S) \in Nat /\ SumOf(usedOf(seg), S) \in Nat
           /\ SumOf(freeOf(seg), S) \in Nat
<1> DEFINE t == totalOf(seg)
           u == usedOf(seg)
           f == freeOf(seg)
<1>1. \A d \in S \cup {c} : /\ t[d] = seg[d].total /\ u[d] = usedSum(seg[d].blk)
                            /\ f[d] = freeSum(seg[d].blk)
  BY DEF totalOf, usedOf, freeOf
<1>2. \A d \in S \cup {c} : usedSum(seg[d].blk) \in Nat /\ freeSum(seg[d].blk) \in Nat
  BY SumsAre
<1>3. \A d \in S \cup {c} : /\ t[d] \in Nat /\ u[d] \in Nat /\ f[d] \in Nat
                            /\ t[d] \in Int /\ u[d] \in Int /\ f[d] \in Int
  BY <1>1, <1>2
<1>4. t[c] = seg[c].total /\ u[c] = usedSum(seg[c].blk) /\ f[c] = freeSum(seg[c].blk)
  BY <1>1
<1> HIDE DEF t, u, f
<1>5. /\ SumOf(t, S \cup {c}) = SumOf(t, S) + t[c]
      /\ SumOf(u, S \cup {c}) = SumOf(u, S) + u[c]
      /\ SumOf(f, S \cup {c}) = SumOf(f, S) + f[c]
  BY <1>3, SumPut
<1>6. SumOf(t, S) \in Nat /\ SumOf(u, S) \in Nat /\ SumOf(f, S) \in Nat
  BY <1>3, SumNat
<1> QED
  BY <1>4, <1>5, <1>6 DEF t, u, f

\* linkSegment keeps the counters exact (HeapAllocator.h:237-241).
LEMMA LinkExact ==
    ASSUME NEW h, NEW seg, Well(h, seg), Exact(h, seg), NEW c \in Cells, c \notin Listed(h),
           SoundSegment(seg[c]), Bare(seg[c].blk)
    PROVE  Exact(linkSegment(h, seg, c), seg)
<1> DEFINE new == linkSegment(h, seg, c)
           S == Listed(h)
           size == seg[c].blk[FirstBlock].size
<1>1. /\ h \in AllocatorType /\ S \subseteq Cells
      /\ IsFiniteSet(S) /\ \A d \in S : Countable(seg[d].blk)
      /\ seg[c].total \in Nat /\ \A d \in S : seg[d].total \in Nat
  BY ListedFacts DEF Well, SegmentsType, Exact, Sums
<1>2. Listed(new) = S \cup {c}
  BY LinkFacts
<1>3. /\ Countable(seg[c].blk) /\ usedSum(seg[c].blk) = 0
      /\ freeSum(seg[c].blk) = size /\ size \in Nat
  BY <1>1, BareSums DEF SoundSegment
<1>4. /\ new.segmentCount = h.segmentCount + 1
      /\ new.segmentBytes = h.segmentBytes + seg[c].total
      /\ new.freeBytes = h.freeBytes + size
      /\ new.usedBytes = h.usedBytes /\ new.allocationCount = h.allocationCount
  BY <1>1 DEF linkSegment, AllocatorType
<1> HIDE DEF new
<1>5. \A d \in S \cup {c} : Countable(seg[d].blk) /\ seg[d].total \in Nat
  BY <1>1, <1>3
<1>6. /\ SumOf(totalOf(seg), S \cup {c}) = SumOf(totalOf(seg), S) + seg[c].total
      /\ SumOf(usedOf(seg), S \cup {c}) = SumOf(usedOf(seg), S) + usedSum(seg[c].blk)
      /\ SumOf(freeOf(seg), S \cup {c}) = SumOf(freeOf(seg), S) + freeSum(seg[c].blk)
      /\ SumOf(usedOf(seg), S) \in Nat
  <2> HIDE DEF S
  <2> QED
    BY <1>1, <1>5, SumsMore DEF S
<1>7. IsFiniteSet(S \cup {c}) /\ Cardinality(S \cup {c}) = Cardinality(S) + 1
  BY <1>1, FS_AddElement
<1>8. /\ h.segmentCount = Cardinality(S) /\ h.segmentBytes = SumOf(totalOf(seg), S)
      /\ h.usedBytes = SumOf(usedOf(seg), S) /\ h.freeBytes = SumOf(freeOf(seg), S)
  BY DEF Exact, Sums
<1>9. Sums(new, seg)
  <2>1. new.usedBytes = SumOf(usedOf(seg), S \cup {c})
    BY <1>3, <1>4, <1>6, <1>8
  <2>2. new.freeBytes = SumOf(freeOf(seg), S \cup {c})
    BY <1>3, <1>4, <1>6, <1>8
  <2>3. /\ new.segmentBytes = SumOf(totalOf(seg), S \cup {c})
        /\ new.segmentCount = Cardinality(S \cup {c})
    BY <1>4, <1>6, <1>7, <1>8
  <2> QED
    BY <1>2, <1>5, <1>7, <2>1, <2>2, <2>3 DEF Sums
<1>10. ListedUse(new, seg) = ListedUse(h, seg)
  BY <1>2 DEF ListedUse, UsedAt, Bare
<1>11. Counts(new, seg)
  BY <1>4, <1>10 DEF Counts, Exact
<1> QED
  BY <1>9, <1>11 DEF Exact, new

\* unlinkSegment keeps the counters exact, and never finds less than it takes
\* away (HeapAllocator.h:392-401).
LEMMA UnlinkExact ==
    ASSUME NEW h, NEW seg, Well(h, seg), Exact(h, seg), NEW i \in DOMAIN h.segments,
           Bare(seg[h.segments[i]].blk)
    PROVE  Exact(unlinkSegment(h, seg, i), seg)
<1> DEFINE new == unlinkSegment(h, seg, i)
           c == h.segments[i]
           S == Listed(h) \ {c}
           size == seg[c].blk[FirstBlock].size
           hint == IF h.hint # c THEN h.hint
                   ELSE IF i < Len(h.segments) THEN h.segments[i + 1]
                   ELSE IF RemoveAt(h.segments, i) = << >> THEN NoCell
                   ELSE RemoveAt(h.segments, i)[1]
<1>1. /\ h \in AllocatorType /\ c \in Listed(h) /\ Listed(h) \subseteq Cells
      /\ IsFiniteSet(Listed(h)) /\ \A d \in Listed(h) : Countable(seg[d].blk)
      /\ \A d \in Listed(h) : seg[d].total \in Nat
      /\ SoundSegment(seg[c])
  BY ListedFacts DEF Well, SegmentsType, Exact, Sums
<1>2. Listed(new) = S
  BY UnlinkFacts
<1>3. /\ Countable(seg[c].blk) /\ usedSum(seg[c].blk) = 0
      /\ freeSum(seg[c].blk) = size /\ size \in Nat
  BY <1>1, BareSums DEF SoundSegment
<1>4. /\ new.segmentCount = saturating(h.segmentCount, 1)
      /\ new.segmentBytes = IF h.segmentBytes >= seg[c].total
                            THEN h.segmentBytes - seg[c].total ELSE h.segmentBytes
      /\ new.freeBytes = IF h.freeBytes >= size THEN h.freeBytes - size ELSE h.freeBytes
      /\ new.usedBytes = h.usedBytes /\ new.allocationCount = h.allocationCount
  <2>1. new = [h EXCEPT !.segments = RemoveAt(h.segments, i),
                        !.segmentCount = saturating(h.segmentCount, 1),
                        !.segmentBytes = IF h.segmentBytes >= seg[c].total
                                         THEN h.segmentBytes - seg[c].total ELSE h.segmentBytes,
                        !.freeBytes = IF h.freeBytes >= size THEN h.freeBytes - size
                                                             ELSE h.freeBytes,
                        !.hint = hint]
    BY DEF unlinkSegment
  <2> HIDE DEF new, hint, c, size
  <2> QED
    BY <1>1, <2>1 DEF AllocatorType
<1> HIDE DEF new, c, hint
<1>5. /\ IsFiniteSet(S) /\ S \subseteq Cells /\ c \in Cells /\ c \notin S /\ Listed(h) = S \cup {c}
      /\ \A d \in S \cup {c} : Countable(seg[d].blk) /\ seg[d].total \in Nat
      /\ Cardinality(S) = Cardinality(Listed(h)) - 1
  BY <1>1, FS_RemoveElement
<1> HIDE DEF S, size
<1>6. /\ SumOf(totalOf(seg), S \cup {c}) = SumOf(totalOf(seg), S) + seg[c].total
      /\ SumOf(usedOf(seg), S \cup {c}) = SumOf(usedOf(seg), S) + usedSum(seg[c].blk)
      /\ SumOf(freeOf(seg), S \cup {c}) = SumOf(freeOf(seg), S) + freeSum(seg[c].blk)
      /\ SumOf(totalOf(seg), S) \in Nat /\ SumOf(usedOf(seg), S) \in Nat
      /\ SumOf(freeOf(seg), S) \in Nat
  BY <1>5, SumsMore
<1>7. /\ h.segmentCount = Cardinality(Listed(h)) /\ h.segmentBytes = SumOf(totalOf(seg), S \cup {c})
      /\ h.usedBytes = SumOf(usedOf(seg), S \cup {c}) /\ h.freeBytes = SumOf(freeOf(seg), S \cup {c})
  BY <1>5 DEF Exact, Sums
<1>8. Cardinality(S) \in Nat /\ Cardinality(Listed(h)) \in Nat /\ seg[c].total \in Nat
  BY <1>1, <1>5, FS_CardinalityType
<1>9. Sums(new, seg)
  <2>1. new.usedBytes = SumOf(usedOf(seg), S)
    BY <1>3, <1>4, <1>6, <1>7
  <2>2. new.freeBytes = SumOf(freeOf(seg), S)
    BY <1>3, <1>4, <1>6, <1>7
  <2>3. new.segmentBytes = SumOf(totalOf(seg), S)
    BY <1>4, <1>6, <1>7, <1>8
  <2>4. new.segmentCount = Cardinality(S)
    BY <1>4, <1>5, <1>7, <1>8 DEF saturating
  <2> QED
    BY <1>2, <1>5, <2>1, <2>2, <2>3, <2>4 DEF Sums
<1>10. ListedUse(new, seg) = ListedUse(h, seg)
  BY <1>2, <1>5 DEF ListedUse, UsedAt, Bare, c
<1>11. Counts(new, seg)
  BY <1>4, <1>10 DEF Counts, Exact
<1> QED
  BY <1>9, <1>11 DEF Exact, new
=============================================================================
