-------------------------- MODULE Collector_proofs --------------------------
(***************************************************************************)
(* Arenas live as long as their registrations say, collections serve what  *)
(* is registered, and the blocks of an arena lie apart and inside its      *)
(* buffer, for every number of tasks, arenas, callbacks and slots and      *)
(* every depth of nested calls; and HeapGuard gets its turn for every      *)
(* divider of the poll counter.                                            *)
(***************************************************************************)
EXTENDS Collector, TLAPS, SequenceTheorems, WellFoundedInduction, FiniteSetTheorems

-----------------------------------------------------------------------------
(* The bump allocator, for every size, alignment and width of size_t.      *)

\* A multiple of m leaves no remainder.
LEMMA MultipleOf ==
    ASSUME NEW m \in Nat \ {0}, NEW k \in Int
    PROVE  (k * m) % m = 0
  BY Z3

\* What is left of n without its remainder is the largest multiple up to n.
LEMMA RoundDown ==
    ASSUME NEW n \in Nat, NEW m \in Nat \ {0}
    PROVE  /\ n - (n % m) \in Nat
           /\ (n - (n % m)) % m = 0
           /\ n - (n % m) <= n /\ n < (n - (n % m)) + m
<1>1. n % m \in 0..(m - 1) /\ n % m <= n
  BY Z3
<1>2. n - (n % m) = (n \div m) * m /\ n \div m \in Int
  BY Z3
<1>3. (n - (n % m)) % m = 0
  BY <1>2, MultipleOf
<1> QED
  BY <1>1, <1>3

\* A number below the width of size_t is its own remainder.
LEMMA BelowWord == \A n \in Nat : n < Word => n % Word = n
  BY WordAssumption

\* The next aligned offset, when the sum does not wrap.
LEMMA AlignedOffset ==
    ASSUME NEW offset \in Nat, NEW alignment \in Nat \ {0}, offset + alignment <= Word
    PROVE  /\ alignedOffset(offset, alignment) \in Nat
           /\ alignedOffset(offset, alignment) % alignment = 0
           /\ offset <= alignedOffset(offset, alignment)
           /\ alignedOffset(offset, alignment) < offset + alignment
<1> DEFINE n == offset + alignment - 1
<1>1. n \in Nat /\ n < Word
  BY WordAssumption
<1>2. n % Word = n
  BY <1>1, BelowWord
<1>3. alignedOffset(offset, alignment) = n - (n % alignment)
  BY <1>2 DEF alignedOffset
<1>4. /\ n - (n % alignment) \in Nat /\ (n - (n % alignment)) % alignment = 0
      /\ n - (n % alignment) <= n /\ n < (n - (n % alignment)) + alignment
  BY <1>1, RoundDown
<1> QED
  BY <1>3, <1>4

ArenaType == [ready : BOOLEAN, capacity : Nat, offset : Nat]
BlockType == [lo : Nat, hi : Nat]

\* Every block alloc hands out is aligned, inside the buffer and above the
\* blocks before it (ArenaAllocator.h:69-87).
THEOREM AllocIsSound ==
    ASSUME NEW a \in ArenaType, NEW bytes \in Nat, NEW alignment \in Nat
    PROVE  AllocSound(a, bytes, alignment)
<1> DEFINE e == effective(alignment)
           lo == place(a, alignment)
<1> SUFFICES ASSUME Plain(a, bytes, alignment), fits(a, bytes, alignment)
             PROVE  LET b == block(a, bytes, alignment)
                    IN  /\ b.lo % e = 0
                        /\ a.offset <= b.lo /\ b.lo < a.offset + e
                        /\ b.hi = b.lo + bytes /\ b.hi <= a.capacity
                        /\ move(a, b).offset = b.hi
  BY DEF AllocSound
<1>0. a.offset \in Nat /\ a.capacity \in Nat
  BY DEF ArenaType
<1>1. e \in Nat \ {0} /\ a.offset + e + bytes <= Word
  BY DEF Plain, effective, PowersOfTwo
<1>2. lo = alignedOffset(a.offset, e)
  BY DEF place
<1> HIDE DEF e, lo
<1>3. a.offset + e <= Word
  BY <1>0, <1>1, WordAssumption
<1>4. lo \in Nat /\ lo % e = 0 /\ a.offset <= lo /\ lo < a.offset + e
  BY <1>0, <1>1, <1>2, <1>3, AlignedOffset
<1>5. (lo + bytes) % Word = lo + bytes
  <2>1. lo + bytes \in Nat /\ lo + bytes < Word
    BY <1>0, <1>1, <1>4, WordAssumption
  <2> QED
    BY <2>1, BelowWord
<1>6. lo + bytes <= a.capacity
  BY <1>5 DEF fits, lo
<1>7. block(a, bytes, alignment) = [lo |-> lo, hi |-> lo + bytes]
  BY DEF block, lo
<1>8. move(a, block(a, bytes, alignment)).offset = lo + bytes
  BY <1>5, <1>7 DEF move, ArenaType
<1> QED
  BY <1>4, <1>6, <1>7, <1>8

-----------------------------------------------------------------------------
\* The operations keep an arena an arena, and alloc makes blocks.
LEMMA ArenaTypes ==
    ASSUME NEW a \in ArenaType, NEW bytes \in Nat, NEW got \in BOOLEAN
    PROVE  /\ NewArena \in ArenaType /\ end(a) \in ArenaType /\ reset(a) \in ArenaType
           /\ begin(a, bytes, got) \in ArenaType
           /\ ensureCapacity(a, bytes, got) \in ArenaType
<1>1. /\ NewArena \in ArenaType /\ end(a) \in ArenaType /\ reset(a) \in ArenaType
      /\ begin(a, bytes, got) \in ArenaType
  BY DEF ArenaType, NewArena, end, reset, begin
<1> QED
  BY <1>1 DEF ensureCapacity

LEMMA BlockTypes ==
    ASSUME NEW a \in ArenaType, NEW bytes \in Nat, NEW alignment \in Nat
    PROVE  block(a, bytes, alignment) \in BlockType
<1> DEFINE e == effective(alignment)
           n == (a.offset + e - 1) % Word
<1>1. e \in Nat
  BY DEF effective, PowersOfTwo
<1>2. place(a, alignment) \in Nat
  <2>1. CASE e = 0
    BY <2>1 DEF place, alignedOffset
  <2>2. CASE e # 0
    <3>1. a.offset + e - 1 \in Nat
      BY <1>1, <2>2 DEF ArenaType
    <3>2. n \in Nat
      BY <3>1, WordAssumption
    <3>3. n - (n % e) \in Nat
      BY <1>1, <2>2, <3>2, RoundDown
    <3> QED
      BY <2>2, <3>3 DEF place, alignedOffset
  <2> QED
    BY <2>1, <2>2
<1> QED
  BY <1>2 DEF block, BlockType

LEMMA MoveType ==
    ASSUME NEW a \in ArenaType, NEW b \in BlockType
    PROVE  move(a, b) \in ArenaType /\ isReady(move(a, b)) = isReady(a)
<1>1. b.hi % Word \in Nat
  BY WordAssumption DEF BlockType
<1> QED
  BY <1>1 DEF move, ArenaType, isReady

-----------------------------------------------------------------------------
(* Tables.                                                                 *)

Below == {pair \in Nat \X Nat : pair[1] < pair[2]}

\* The loops over the slots find the lowest slot there is.
LEMMA LowestIn ==
    ASSUME NEW S \in SUBSET Nat, S # {}
    PROVE  lowest(S) \in S
<1>1. OpToRel(<, Nat) = Below
  BY Zenon DEF OpToRel, Below
<1>2. IsWellFoundedOn(Below, Nat)
  BY <1>1, NatLessThanWellFounded, Zenon
<1>3. PICK x \in S : \A y \in S : <<y, x>> \notin Below
  BY <1>2, WFMin
<1>4. ASSUME NEW y \in S PROVE x <= y
  <2>1. ~(y < x)
    BY <1>3 DEF Below
  <2> QED
    BY <2>1
<1>5. \E z \in S : \A y \in S : z <= y
  BY <1>4
<1> QED
  BY <1>5 DEF lowest

\* A table whose keys are all different.
TableOK(table, n) ==
    /\ table = [i \in 1..n |-> table[i]]
    /\ \A i, j \in 1..n : table[i].key = table[j].key /\ table[i].key # NoKey => i = j

\* register puts the record in the slot its key has, or else in a free one.
LEMMA RegisterFacts ==
    ASSUME NEW n \in Nat, NEW table, TableOK(table, n),
           NEW record, accepts(table, record.key), record.key # NoKey
    PROVE  /\ TableOK(register(table, record), n)
           /\ \E i \in 1..n :
                /\ register(table, record)[i] = record
                /\ table[i].key \in {NoKey, record.key}
                /\ \A j \in (1..n) \ {i} : /\ register(table, record)[j] = table[j]
                                           /\ table[j].key # record.key
<1> DEFINE i == lowest(slotsFor(table, record.key))
<1>1. DOMAIN table = 1..n /\ slotsFor(table, record.key) \subseteq 1..n
  BY DEF TableOK, slotsFor, at
<1>2. i \in slotsFor(table, record.key)
  BY <1>1, LowestIn DEF accepts
<1> HIDE DEF i
<1>3. /\ i \in 1..n /\ table[i].key \in {NoKey, record.key}
      /\ \A j \in (1..n) \ {i} : table[j].key # record.key
  <2>1. CASE has(table, record.key)
    BY <1>1, <1>2, <2>1 DEF slotsFor, at, TableOK
  <2>2. CASE ~has(table, record.key)
    BY <1>1, <1>2, <2>2 DEF slotsFor, at, has
  <2> QED
    BY <2>1, <2>2
<1>4. register(table, record) = [table EXCEPT ![i] = record]
  BY DEF register, i
<1>5. /\ register(table, record) = [j \in 1..n |-> register(table, record)[j]]
      /\ register(table, record)[i] = record
      /\ \A j \in (1..n) \ {i} : register(table, record)[j] = table[j]
  BY <1>1, <1>3, <1>4
<1>6. TableOK(register(table, record), n)
  BY <1>3, <1>5 DEF TableOK
<1> QED
  BY <1>3, <1>5, <1>6

\* unregister frees the slot the key has.
LEMMA UnregisterFacts ==
    ASSUME NEW n \in Nat, NEW table, TableOK(table, n), NEW key, key # NoKey
    PROVE  /\ TableOK(unregister(table, key), n)
           /\ \A i \in 1..n : unregister(table, key)[i] =
                IF table[i].key = key THEN FreeSlot ELSE table[i]
<1>1. DOMAIN table = 1..n /\ at(table, key) \subseteq 1..n
  BY DEF TableOK, at
<1>2. CASE ~has(table, key)
  BY <1>1, <1>2 DEF unregister, has, at
<1>3. CASE has(table, key)
  <2> DEFINE i == lowest(at(table, key))
  <2>1. i \in at(table, key)
    BY <1>1, <1>3, LowestIn DEF has
  <2> HIDE DEF i
  <2>2. i \in 1..n /\ table[i].key = key /\ \A j \in 1..n : table[j].key = key => i = j
    BY <1>1, <2>1 DEF at, TableOK
  <2>3. unregister(table, key) = [table EXCEPT ![i] = FreeSlot]
    BY <1>3 DEF unregister, i
  <2>4. /\ unregister(table, key) = [j \in 1..n |-> unregister(table, key)[j]]
        /\ \A j \in 1..n : unregister(table, key)[j] =
             IF table[j].key = key THEN FreeSlot ELSE table[j]
    BY <1>1, <2>2, <2>3
  <2>5. TableOK(unregister(table, key), n)
    BY <2>4 DEF TableOK, FreeSlot
  <2> QED
    BY <2>4, <2>5
<1> QED
  BY <1>2, <1>3

-----------------------------------------------------------------------------
(* Snapshots.                                                              *)

Single(snap) == \A i, j \in pendingSlots(snap) : snap[i] = snap[j] => i = j

LEMMA SnapshotFacts ==
    ASSUME NEW n \in Nat, NEW table, TableOK(table, n), NEW slots,
           \A i \in slots : i \in 1..n /\ table[i].key # NoKey
    PROVE  /\ Single(snapshot(table, slots))
           /\ keysOf(snapshot(table, slots)) = {table[i].key : i \in slots}
           /\ DOMAIN snapshot(table, slots) = 1..n
<1>1. DOMAIN table = 1..n
  BY DEF TableOK
<1>2. /\ DOMAIN snapshot(table, slots) = 1..n
      /\ \A i \in 1..n : snapshot(table, slots)[i] = IF i \in slots THEN table[i].key ELSE NoKey
  BY <1>1 DEF snapshot, scanned
<1>3. pendingSlots(snapshot(table, slots)) = slots
  BY <1>2 DEF pendingSlots
<1>4. \A i \in slots : snapshot(table, slots)[i] = table[i].key
  BY <1>2
<1>5. Single(snapshot(table, slots))
  BY <1>3, <1>4 DEF Single, TableOK
<1>6. keysOf(snapshot(table, slots)) = {table[i].key : i \in slots}
  BY <1>3, <1>4 DEF keysOf
<1> QED
  BY <1>2, <1>5, <1>6

LEMMA RestFacts ==
    ASSUME NEW n \in Nat, NEW snap, DOMAIN snap = 1..n, Single(snap), pendingSlots(snap) # {}
    PROVE  /\ first(snap) \in keysOf(snap)
           /\ Single(rest(snap)) /\ keysOf(rest(snap)) = keysOf(snap) \ {first(snap)}
           /\ DOMAIN rest(snap) = 1..n
<1> DEFINE i == lowest(pendingSlots(snap))
<1>1. pendingSlots(snap) \subseteq 1..n
  BY DEF pendingSlots
<1>2. i \in pendingSlots(snap)
  BY <1>1, LowestIn
<1>3. first(snap) = snap[i] /\ rest(snap) = [snap EXCEPT ![i] = NoKey]
  BY DEF first, rest
<1> HIDE DEF i
<1>4. /\ DOMAIN rest(snap) = 1..n
      /\ \A j \in 1..n : rest(snap)[j] = IF j = i THEN NoKey ELSE snap[j]
  BY <1>1, <1>2, <1>3
<1>5. pendingSlots(rest(snap)) = pendingSlots(snap) \ {i}
  BY <1>4 DEF pendingSlots
<1>6. \A j \in pendingSlots(rest(snap)) : rest(snap)[j] = snap[j]
  BY <1>1, <1>4, <1>5
<1>7. Single(rest(snap))
  BY <1>5, <1>6 DEF Single
<1>8. keysOf(rest(snap)) = keysOf(snap) \ {first(snap)}
  <2> DEFINE R == {snap[j] : j \in pendingSlots(snap) \ {i}}
  <2>1. keysOf(rest(snap)) = R
    BY <1>5, <1>6 DEF keysOf
  <2>2. ASSUME NEW x \in R PROVE x \in keysOf(snap) /\ x # snap[i]
    BY <1>2 DEF keysOf, Single
  <2>3. ASSUME NEW x \in keysOf(snap), x # snap[i] PROVE x \in R
    BY <2>3 DEF keysOf
  <2> HIDE DEF R
  <2> QED
    BY <1>3, <2>1, <2>2, <2>3
<1> QED
  BY <1>2, <1>3, <1>4, <1>7, <1>8 DEF keysOf

LEMMA EmptySnapshot == pendingSlots(<< >>) = {} /\ keysOf(<< >>) = {} /\ Single(<< >>)
<1>1. pendingSlots(<< >>) = {}
  BY DEF pendingSlots
<1> QED
  BY <1>1 DEF keysOf, Single

-----------------------------------------------------------------------------
(* Stacks.                                                                 *)

LEMMA PushedOn ==
    ASSUME NEW F, NEW s \in Seq(F), NEW x \in F
    PROVE  /\ <<x>> \o s \in Seq(F) /\ Len(<<x>> \o s) = Len(s) + 1
           /\ (<<x>> \o s)[1] = x
           /\ \A i \in 2..(Len(s) + 1) : (<<x>> \o s)[i] = s[i - 1]
  OBVIOUS

LEMMA Popped ==
    ASSUME NEW F, NEW s \in Seq(F), s # << >>
    PROVE  /\ Len(s) \in Nat \ {0} /\ Head(s) = s[1] /\ s[1] \in F
           /\ Tail(s) \in Seq(F) /\ Len(Tail(s)) = Len(s) - 1
           /\ \A i \in 1..(Len(s) - 1) : Tail(s)[i] = s[i + 1]
  OBVIOUS

Keys == Arenas \cup Callbacks
Collecting == {"arenas", "reset", "call", "inPurge"}
Waiting == {"inPurge", "inGuard"}
Others == {"none", "register", "end", "alloc", "inGuard", "poll", "pollClear", "pollGuard"}
Todos == {<< >>} \cup UNION {[1..n -> Keys \cup {NoKey}] : n \in Nat}
FrameType ==
    [pc : Collecting \cup Others, kind : Kinds \cup {"none"}, arena : Arenas, policy : Policies,
     deletes : BOOLEAN, keeps : BOOLEAN, block : BlockType, todo : Todos,
     due : SUBSET Keys, was : SUBSET Keys, raced : SUBSET Keys, seen : Nat]

\* destroyArena deletes the object or the application keeps it.
Ends(x) == \/ x.deletes = TRUE /\ x.keeps = FALSE /\ x.arena # Scratch
           \/ x.deletes = FALSE /\ x.keeps = TRUE

\* What a frame knows is true of what is registered.
FrameOK(x, w) ==
    /\ x \in FrameType
    /\ (x.pc \in Collecting <=> x.kind # "none")
    /\ x.kind # "none" => x.due \subseteq concerns(x.kind, w)
    /\ x.pc \in {"arenas", "reset"} => concerns(x.kind, w) \subseteq x.was
    /\ x.pc = "reset" =>
         Serves(x, Arenas) /\ keysOf(x.todo) \ x.raced \subseteq concerns(x.kind, w)
    /\ x.pc \in {"call", "inPurge"} => x.due \subseteq Callbacks /\ Serves(x, Callbacks)
    /\ x.pc = "register" => x.arena \in Objects
    /\ x.pc = "end" => Ends(x)

StackOK(s, w) ==
    /\ s \in Seq(FrameType) /\ Len(s) <= MaxDepth
    /\ \A i \in 1..Len(s) : FrameOK(s[i], w) /\ (i > 1 => s[i].pc \in Waiting)

\* The arena a call is about to register or to delete.
Hand(s) == IF s # << >> /\ s[1].pc \in {"register", "end"} THEN {s[1].arena} ELSE {}

LEMMA NoFrameType == NoFrame \in FrameType
<1>1. << >> \in Todos
  BY DEF Todos
<1>2. Scratch \in Arenas
  BY DEF Arenas
<1>3. [lo |-> 0, hi |-> 0] \in BlockType
  BY DEF BlockType
<1> QED
  BY <1>1, <1>2, <1>3 DEF NoFrame, FrameType, Others, Policies

\* A frame that is no collection's.
LEMMA PlainFrame ==
    ASSUME NEW x \in FrameType, NEW w, x.pc \in Others, x.kind = "none",
           x.pc = "register" => x.arena \in Objects, x.pc = "end" => Ends(x)
    PROVE  FrameOK(x, w)
  BY DEF FrameOK, Others, Collecting

LEMMA PushOK ==
    ASSUME NEW s, NEW w, StackOK(s, w), NEW x, FrameOK(x, w),
           s # << >> => Len(s) < MaxDepth /\ s[1].pc \in Waiting
    PROVE  StackOK(<<x>> \o s, w) /\ <<x>> \o s # << >> /\ (<<x>> \o s)[1] = x
<1> DEFINE p == <<x>> \o s
<1>1. s \in Seq(FrameType) /\ x \in FrameType
  BY DEF StackOK, FrameOK
<1>2. /\ p \in Seq(FrameType) /\ Len(p) = Len(s) + 1 /\ p[1] = x
      /\ \A i \in 2..(Len(s) + 1) : p[i] = s[i - 1]
  BY <1>1, PushedOn
<1> HIDE DEF p
<1>3. Len(s) \in Nat /\ (s = << >> => Len(s) = 0)
  BY <1>1
<1>4. Len(p) <= MaxDepth
  BY <1>2, <1>3, SizeAssumption
<1>5. ASSUME NEW i \in 1..Len(p) PROVE FrameOK(p[i], w) /\ (i > 1 => p[i].pc \in Waiting)
  <2>1. CASE i = 1
    BY <1>2, <2>1
  <2>2. CASE i > 1
    <3>1. i - 1 \in 1..Len(s) /\ p[i] = s[i - 1]
      BY <1>2, <1>3, <2>2
    <3>2. FrameOK(s[i - 1], w) /\ s[i - 1].pc \in Waiting
      BY <1>3, <3>1 DEF StackOK
    <3> QED
      BY <3>1, <3>2
  <2> QED
    BY <2>1, <2>2
<1>6. p # << >>
  BY <1>2, <1>3
<1> QED
  BY <1>2, <1>4, <1>5, <1>6 DEF StackOK, p

LEMMA PopOK ==
    ASSUME NEW s, NEW w, StackOK(s, w), s # << >>
    PROVE  /\ StackOK(Tail(s), w) /\ Hand(Tail(s)) = {}
           /\ Tail(s) # << >> => Len(Tail(s)) < MaxDepth /\ Tail(s)[1].pc \in Waiting
<1> DEFINE r == Tail(s)
<1>1. s \in Seq(FrameType)
  BY DEF StackOK
<1>2. /\ Len(s) \in Nat \ {0} /\ r \in Seq(FrameType) /\ Len(r) = Len(s) - 1
      /\ \A i \in 1..(Len(s) - 1) : r[i] = s[i + 1]
  BY <1>1, Popped
<1>3. r = << >> \/ 1 \in 1..Len(r)
  BY <1>2
<1> HIDE DEF r
<1>4. ASSUME NEW i \in 1..Len(r) PROVE FrameOK(r[i], w) /\ r[i].pc \in Waiting
  BY <1>2 DEF StackOK
<1>5. Len(r) < MaxDepth
  BY <1>2, SizeAssumption DEF StackOK
<1>6. StackOK(r, w)
  BY <1>2, <1>4, <1>5, SizeAssumption DEF StackOK
<1>7. Hand(r) = {}
  BY <1>3, <1>4 DEF Hand, Waiting
<1> QED
  BY <1>3, <1>4, <1>5, <1>6, <1>7 DEF r

LEMMA BecomeOK ==
    ASSUME NEW s, NEW w, StackOK(s, w), s # << >>, NEW x, FrameOK(x, w)
    PROVE  /\ StackOK(<<x>> \o Tail(s), w)
           /\ <<x>> \o Tail(s) # << >> /\ (<<x>> \o Tail(s))[1] = x
  BY PopOK, PushOK

\* The top frame.
LEMMA TopOK ==
    ASSUME NEW s, NEW w, StackOK(s, w), s # << >>
    PROVE  Head(s) = s[1] /\ FrameOK(s[1], w) /\ 1 \in DOMAIN s /\ Len(s) \in Nat
<1>1. s \in Seq(FrameType)
  BY DEF StackOK
<1> QED
  BY <1>1, Popped DEF StackOK

LEMMA ConcernsKeys == \A kind, w : concerns(kind, w) \subseteq Keys
  BY DEF concerns, Keys

LEMMA PendingKeys == \A x : pending(x) = keysOf(x.todo)
  BY DEF pending

LEMMA TodoKeys == \A todo \in Todos : keysOf(todo) \subseteq Keys
<1> SUFFICES ASSUME NEW todo \in Todos, NEW i \in pendingSlots(todo) PROVE todo[i] \in Keys
  BY DEF keysOf
<1>1. i \in DOMAIN todo /\ todo[i] # NoKey
  BY DEF pendingSlots
<1>2. todo # << >>
  BY <1>1
<1>3. PICK n \in Nat : todo \in [1..n -> Keys \cup {NoKey}]
  BY <1>2 DEF Todos
<1> QED
  BY <1>1, <1>3

\* What a collection sees of a change leaves the rest of its frame alone.
LEMMA SeeSame ==
    ASSUME NEW x \in FrameType, NEW w, NEW t, NEW u
    PROVE  /\ see(x, w, t, u) \in FrameType
           /\ see(x, w, t, u).pc = x.pc /\ see(x, w, t, u).arena = x.arena
           /\ see(x, w, t, u).block = x.block /\ see(x, w, t, u).seen = x.seen
<1>1. CASE x.kind = "none"
  BY <1>1 DEF see
<1>2. CASE x.kind # "none"
  <2> DEFINE now == concerns(x.kind, w)
             before == x.pc \in {"arenas", "reset"}
             lost == pending(x) \ now
             y == [x EXCEPT !.due = @ \cap now,
                            !.was = IF before THEN @ \cup now ELSE @,
                            !.raced = IF x.pc = "reset" /\ t # u THEN @ \cup lost ELSE @]
  <2>1. see(x, w, t, u) = y
    BY <1>2 DEF see
  <2>2. now \subseteq Keys
    BY ConcernsKeys
  <2>3. lost \subseteq Keys
    BY PendingKeys, TodoKeys DEF FrameType
  <2> HIDE DEF now, lost
  <2>4. y \in FrameType /\ y.pc = x.pc /\ y.arena = x.arena /\ y.block = x.block /\ y.seen = x.seen
    BY <2>2, <2>3 DEF FrameType
  <2> QED
    BY <2>1, <2>4
<1> QED
  BY <1>1, <1>2

\* A frame that saw a change of what is registered is true of it; a task makes
\* none while it resets arenas.
LEMMA SeeOK ==
    ASSUME NEW x, NEW v, NEW w, FrameOK(x, v), NEW t, NEW u, u = t => x.pc # "reset"
    PROVE  FrameOK(see(x, w, t, u), w)
<1>1. CASE x.kind = "none"
  BY <1>1 DEF FrameOK, see, Collecting
<1>2. CASE x.kind # "none"
  <2> DEFINE now == concerns(x.kind, w)
             before == x.pc \in {"arenas", "reset"}
             lost == pending(x) \ now
             y == [x EXCEPT !.due = @ \cap now,
                            !.was = IF before THEN @ \cup now ELSE @,
                            !.raced = IF x.pc = "reset" /\ t # u THEN @ \cup lost ELSE @]
  <2>1. see(x, w, t, u) = y
    BY <1>2 DEF see
  <2>2. y \in FrameType
    BY <2>1, SeeSame DEF FrameOK
  <2> HIDE DEF now, lost
  <2>3. /\ y.pc = x.pc /\ y.kind = x.kind /\ y.arena = x.arena
        /\ y.deletes = x.deletes /\ y.keeps = x.keeps /\ y.todo = x.todo
        /\ y.due = x.due \cap now /\ y.was = IF before THEN x.was \cup now ELSE x.was
        /\ y.raced = IF x.pc = "reset" /\ t # u THEN x.raced \cup lost ELSE x.raced
    BY DEF FrameOK, FrameType
  <2> HIDE DEF y
  <2>4. y.pc = "reset" => Serves(y, Arenas) /\ keysOf(y.todo) \ y.raced \subseteq now
    <3> SUFFICES ASSUME x.pc = "reset"
                 PROVE  Serves(y, Arenas) /\ keysOf(y.todo) \ y.raced \subseteq now
      BY <2>3
    <3>1. Serves(y, Arenas)
      BY <2>3, PendingKeys DEF FrameOK, Serves
    <3>2. y.raced = x.raced \cup lost
      BY <2>3
    <3> QED
      BY <2>3, <3>1, <3>2, PendingKeys DEF lost
  <2>5. y.pc \in {"call", "inPurge"} => y.due \subseteq Callbacks /\ Serves(y, Callbacks)
    BY <2>3, PendingKeys DEF FrameOK, Serves
  <2>6. FrameOK(y, w)
    BY <1>2, <2>2, <2>3, <2>4, <2>5 DEF FrameOK, now, Ends
  <2> QED
    BY <2>1, <2>6
<1> QED
  BY <1>1, <1>2

LEMMA SeeStack ==
    ASSUME NEW s, NEW v, NEW w, StackOK(s, v), NEW t, NEW u,
           u = t => \A i \in 1..Len(s) : s[i].pc # "reset"
    PROVE  LET r == [i \in DOMAIN s |-> see(s[i], w, t, u)]
           IN  StackOK(r, w) /\ Hand(r) = Hand(s) /\ (r = << >> <=> s = << >>)
<1> DEFINE r == [i \in DOMAIN s |-> see(s[i], w, t, u)]
<1>1. s \in Seq(FrameType) /\ Len(s) \in Nat /\ DOMAIN s = 1..Len(s)
  BY DEF StackOK
<1>2. ASSUME NEW i \in 1..Len(s)
      PROVE  /\ FrameOK(r[i], w) /\ r[i] \in FrameType
             /\ r[i].pc = s[i].pc /\ r[i].arena = s[i].arena
  <2>1. r[i] = see(s[i], w, t, u)
    BY <1>1
  <2>2. FrameOK(s[i], v) /\ s[i] \in FrameType /\ (u = t => s[i].pc # "reset")
    BY DEF StackOK, FrameOK
  <2>3. FrameOK(see(s[i], w, t, u), w)
    BY <2>2, SeeOK
  <2>4. /\ see(s[i], w, t, u) \in FrameType
        /\ see(s[i], w, t, u).pc = s[i].pc /\ see(s[i], w, t, u).arena = s[i].arena
    BY <2>2, SeeSame
  <2> QED
    BY <2>1, <2>3, <2>4
<1>3. r \in Seq(FrameType) /\ Len(r) = Len(s)
  BY <1>1, <1>2
<1>4. \A i \in 1..Len(s) : i > 1 => r[i].pc \in Waiting
  BY <1>2 DEF StackOK
<1>5. (r = << >> <=> s = << >>) /\ (s # << >> => 1 \in 1..Len(s))
  BY <1>1, <1>3
<1> HIDE DEF r
<1>6. StackOK(r, w)
  BY <1>2, <1>3, <1>4 DEF StackOK
<1>7. Hand(r) = Hand(s)
  BY <1>2, <1>5 DEF Hand
<1> QED
  BY <1>5, <1>6, <1>7 DEF r

-----------------------------------------------------------------------------
(* The invariant.                                                          *)

Stacks == stack = [t \in Tasks |-> stack[t]] /\ \A t \in Tasks : StackOK(stack[t], wanted)

Wishes == [policy : Policies, owns : BOOLEAN]

\* The tables hold what is registered.
ArenasAgree ==
    /\ TableOK(arenas, MaxArenas)
    /\ \A i \in 1..MaxArenas : arenas[i].key # NoKey =>
         /\ arenas[i].key \in Arenas \cap DOMAIN wanted
         /\ arenas[i].policy = wanted[arenas[i].key].policy
         /\ arenas[i].ownsObject = wanted[arenas[i].key].owns
    /\ \A a \in Arenas \cap DOMAIN wanted :
         /\ wanted[a] \in Wishes /\ (a = Scratch => wanted[a].owns = FALSE)
         /\ \E i \in 1..MaxArenas : arenas[i].key = a

PurgesAgree ==
    /\ TableOK(purges, MaxCallbacks)
    /\ \A i \in 1..MaxCallbacks : purges[i].key # NoKey =>
         /\ purges[i].key \in Callbacks \cap DOMAIN wanted
         /\ purges[i].phases = wanted[purges[i].key]
    /\ \A k \in Callbacks \cap DOMAIN wanted : \E i \in 1..MaxCallbacks : purges[i].key = k

\* Every object is with the application or in the hands of one call.
Owned ==
    /\ handles \subseteq Arenas
    /\ \A a : (a \in exists <=> a \in handles \/ \E t \in Tasks : a \in Hand(stack[t]))
    /\ \A t \in Tasks : Hand(stack[t]) \cap handles = {}
    /\ \A t, u \in Tasks : t # u => Hand(stack[t]) \cap Hand(stack[u]) = {}
    /\ Arenas \cap DOMAIN wanted \subseteq handles \cup {Scratch}
    /\ Scratch \in exists

Values ==
    /\ arena \in [Arenas -> ArenaType] /\ polls \in Nat
    /\ \A a \in Arenas \ exists : ~isReady(arena[a])

IInv == Stacks /\ ArenasAgree /\ PurgesAgree /\ Owned /\ Values

-----------------------------------------------------------------------------
(* Changes of what is registered.                                          *)

LEMMA WantedFacts ==
    ASSUME NEW key, NEW x
    PROVE  /\ DOMAIN Registered(key, x) = DOMAIN wanted \cup {key}
           /\ Registered(key, x)[key] = x
           /\ \A q \in DOMAIN wanted \ {key} : Registered(key, x)[q] = wanted[q]
           /\ DOMAIN Unregistered(key) = DOMAIN wanted \ {key}
           /\ \A q \in DOMAIN wanted \ {key} : Unregistered(key)[q] = wanted[q]
  BY DEF Registered, Unregistered

LEMMA ArenaAdded ==
    ASSUME ArenasAgree, PurgesAgree, NEW a \in Arenas, NEW policy \in Policies,
           NEW owns \in BOOLEAN, a = Scratch => owns = FALSE,
           accepts(arenas, a), arenas' = register(arenas, ArenaRecord(a, policy, owns)),
           wanted' = Registered(a, Wish(policy, owns)), purges' = purges
    PROVE  ArenasAgree' /\ PurgesAgree'
<1> DEFINE record == ArenaRecord(a, policy, owns)
           wish == Wish(policy, owns)
<1>1. a # NoKey /\ a \notin Callbacks /\ MaxArenas \in Nat
  BY KeyAssumption, SizeAssumption
<1>2. /\ record.key = a /\ record.policy = wish.policy /\ record.ownsObject = wish.owns
      /\ wish \in Wishes /\ (a = Scratch => wish.owns = FALSE)
  BY DEF ArenaRecord, Wish, Wishes
<1>3. /\ TableOK(arenas', MaxArenas)
      /\ \E i \in 1..MaxArenas :
           /\ arenas'[i] = record
           /\ arenas[i].key \in {NoKey, a}
           /\ \A j \in (1..MaxArenas) \ {i} : arenas'[j] = arenas[j] /\ arenas[j].key # a
  <2> HIDE DEF record
  <2> QED
    BY <1>1, <1>2, RegisterFacts DEF ArenasAgree, record
<1>4. /\ DOMAIN wanted' = DOMAIN wanted \cup {a} /\ wanted'[a] = wish
      /\ \A q \in DOMAIN wanted \ {a} : wanted'[q] = wanted[q]
  BY DEF Registered
<1> HIDE DEF record, wish
<1>5. PICK i \in 1..MaxArenas :
           /\ arenas'[i] = record
           /\ arenas[i].key \in {NoKey, a}
           /\ \A j \in (1..MaxArenas) \ {i} : arenas'[j] = arenas[j] /\ arenas[j].key # a
  BY <1>3
<1>6. ASSUME NEW j \in 1..MaxArenas, arenas'[j].key # NoKey
      PROVE  /\ arenas'[j].key \in Arenas \cap DOMAIN wanted'
             /\ arenas'[j].policy = wanted'[arenas'[j].key].policy
             /\ arenas'[j].ownsObject = wanted'[arenas'[j].key].owns
  <2>1. CASE j = i
    BY <1>2, <1>4, <1>5, <2>1
  <2>2. CASE j # i
    BY <1>4, <1>5, <1>6, <2>2 DEF ArenasAgree
  <2> QED
    BY <2>1, <2>2
<1>7. ASSUME NEW b \in Arenas \cap DOMAIN wanted'
      PROVE  /\ wanted'[b] \in Wishes /\ (b = Scratch => wanted'[b].owns = FALSE)
             /\ \E j \in 1..MaxArenas : arenas'[j].key = b
  <2>1. CASE b = a
    BY <1>2, <1>4, <1>5, <2>1
  <2>2. CASE b # a
    <3>1. b \in Arenas \cap DOMAIN wanted /\ wanted'[b] = wanted[b]
      BY <1>4, <2>2
    <3>2. PICK j \in 1..MaxArenas : arenas[j].key = b
      BY <3>1 DEF ArenasAgree
    <3>3. j # i
      BY <1>5, <2>2, <3>2, KeyAssumption
    <3>4. arenas'[j].key = b
      BY <1>5, <3>2, <3>3
    <3> QED
      BY <3>1, <3>4 DEF ArenasAgree
  <2> QED
    BY <2>1, <2>2
<1>8. ArenasAgree'
  BY <1>3, <1>6, <1>7 DEF ArenasAgree
<1>9. PurgesAgree'
  BY <1>1, <1>4 DEF PurgesAgree
<1> QED
  BY <1>8, <1>9

LEMMA ArenaDropped ==
    ASSUME ArenasAgree, PurgesAgree, NEW a \in Arenas,
           arenas' = unregister(arenas, a), wanted' = Unregistered(a), purges' = purges
    PROVE  ArenasAgree' /\ PurgesAgree'
<1>1. a # NoKey /\ a \notin Callbacks /\ MaxArenas \in Nat
  BY KeyAssumption, SizeAssumption
<1>2. /\ TableOK(arenas', MaxArenas)
      /\ \A i \in 1..MaxArenas : arenas'[i] = IF arenas[i].key = a THEN FreeSlot ELSE arenas[i]
  BY <1>1, UnregisterFacts DEF ArenasAgree
<1>3. /\ DOMAIN wanted' = DOMAIN wanted \ {a}
      /\ \A q \in DOMAIN wanted \ {a} : wanted'[q] = wanted[q]
  BY WantedFacts
<1>4. ArenasAgree'
  BY <1>2, <1>3 DEF ArenasAgree, FreeSlot
<1>5. PurgesAgree'
  BY <1>1, <1>3 DEF PurgesAgree
<1> QED
  BY <1>4, <1>5

LEMMA CallbackAdded ==
    ASSUME ArenasAgree, PurgesAgree, NEW k \in Callbacks, NEW phases,
           accepts(purges, k), purges' = register(purges, PurgeRecord(k, phases)),
           wanted' = Registered(k, phases), arenas' = arenas
    PROVE  ArenasAgree' /\ PurgesAgree'
<1> DEFINE record == PurgeRecord(k, phases)
<1>1. k # NoKey /\ k \notin Arenas /\ MaxCallbacks \in Nat
  BY KeyAssumption, SizeAssumption
<1>2. record.key = k /\ record.phases = phases
  BY DEF PurgeRecord
<1> HIDE DEF record
<1>3. /\ TableOK(purges', MaxCallbacks)
      /\ \E i \in 1..MaxCallbacks :
           /\ purges'[i] = record
           /\ purges[i].key \in {NoKey, k}
           /\ \A j \in (1..MaxCallbacks) \ {i} : purges'[j] = purges[j] /\ purges[j].key # k
  BY <1>1, <1>2, RegisterFacts DEF PurgesAgree, record
<1>4. PICK i \in 1..MaxCallbacks :
           /\ purges'[i] = record
           /\ purges[i].key \in {NoKey, k}
           /\ \A j \in (1..MaxCallbacks) \ {i} : purges'[j] = purges[j] /\ purges[j].key # k
  BY <1>3
<1>5. /\ DOMAIN wanted' = DOMAIN wanted \cup {k} /\ wanted'[k] = phases
      /\ \A q \in DOMAIN wanted \ {k} : wanted'[q] = wanted[q]
  BY DEF Registered
<1>6. ASSUME NEW j \in 1..MaxCallbacks, purges'[j].key # NoKey
      PROVE  /\ purges'[j].key \in Callbacks \cap DOMAIN wanted'
             /\ purges'[j].phases = wanted'[purges'[j].key]
  <2>1. CASE j = i
    BY <1>2, <1>4, <1>5, <2>1
  <2>2. CASE j # i
    BY <1>4, <1>5, <1>6, <2>2 DEF PurgesAgree
  <2> QED
    BY <2>1, <2>2
<1>7. ASSUME NEW b \in Callbacks \cap DOMAIN wanted'
      PROVE  \E j \in 1..MaxCallbacks : purges'[j].key = b
  <2>1. CASE b = k
    BY <1>2, <1>4, <2>1
  <2>2. CASE b # k
    <3>1. PICK j \in 1..MaxCallbacks : purges[j].key = b
      BY <1>5, <2>2 DEF PurgesAgree
    <3>2. j # i
      BY <1>4, <2>2, <3>1, KeyAssumption
    <3> QED
      BY <1>4, <3>1, <3>2
  <2> QED
    BY <2>1, <2>2
<1>8. PurgesAgree'
  BY <1>3, <1>6, <1>7 DEF PurgesAgree
<1>9. ArenasAgree'
  BY <1>1, <1>5 DEF ArenasAgree
<1> QED
  BY <1>8, <1>9

LEMMA CallbackDropped ==
    ASSUME ArenasAgree, PurgesAgree, NEW k \in Callbacks,
           purges' = unregister(purges, k), wanted' = Unregistered(k), arenas' = arenas
    PROVE  ArenasAgree' /\ PurgesAgree'
<1>1. k # NoKey /\ k \notin Arenas /\ MaxCallbacks \in Nat
  BY KeyAssumption, SizeAssumption
<1>2. /\ TableOK(purges', MaxCallbacks)
      /\ \A i \in 1..MaxCallbacks : purges'[i] = IF purges[i].key = k THEN FreeSlot ELSE purges[i]
  BY <1>1, UnregisterFacts DEF PurgesAgree
<1>3. /\ DOMAIN wanted' = DOMAIN wanted \ {k}
      /\ \A q \in DOMAIN wanted \ {k} : wanted'[q] = wanted[q]
  BY WantedFacts
<1>4. PurgesAgree'
  BY <1>2, <1>3 DEF PurgesAgree, FreeSlot
<1>5. ArenasAgree'
  BY <1>1, <1>3 DEF ArenasAgree
<1> QED
  BY <1>4, <1>5

-----------------------------------------------------------------------------
(* What a collection takes from the tables.                                *)

LEMMA ResetsWhat ==
    ASSUME NEW kind \in Kinds, NEW policy
    PROVE  resets(kind, policy) <=>
             policy = "ResetOnLight" \/ (policy = "ResetOnFull" /\ kind # "light")
<1>1. CASE kind = "light"
  <2>1. maskOf(kind) = {"light"}
    BY <1>1 DEF maskOf
  <2> QED
    BY <1>1, <2>1 DEF resets
<1>2. CASE kind = "full"
  <2>1. maskOf(kind) = {"full"}
    BY <1>2 DEF maskOf
  <2> QED
    BY <1>2, <2>1 DEF resets
<1>3. CASE kind = "emergency"
  <2>1. maskOf(kind) = {"full", "emergency"}
    BY <1>3 DEF maskOf
  <2> QED
    BY <1>3, <2>1 DEF resets
<1> QED
  BY <1>1, <1>2, <1>3 DEF Kinds

LEMMA SnapshotTodo ==
    ASSUME NEW n \in Nat, NEW table, TableOK(table, n), NEW slots,
           \A i \in 1..n : table[i].key \in Keys \cup {NoKey}
    PROVE  snapshot(table, slots) \in Todos
<1>1. DOMAIN table = 1..n
  BY DEF TableOK
<1>2. snapshot(table, slots) \in [1..n -> Keys \cup {NoKey}]
  BY <1>1 DEF snapshot, scanned
<1> QED
  BY <1>2 DEF Todos

LEMMA ArenasSnapshot ==
    ASSUME ArenasAgree, NEW kind \in Kinds
    PROVE  /\ arenasToReset(kind) \in Todos /\ Single(arenasToReset(kind))
           /\ keysOf(arenasToReset(kind)) = concerns(kind, wanted) \cap Arenas
<1> DEFINE slots == {i \in DOMAIN arenas : arenas[i].key # NoKey /\ resets(kind, arenas[i].policy)}
<1>1. MaxArenas \in Nat /\ TableOK(arenas, MaxArenas) /\ DOMAIN arenas = 1..MaxArenas
  BY SizeAssumption DEF ArenasAgree, TableOK
<1>2. \A i \in 1..MaxArenas : arenas[i].key \in Keys \cup {NoKey}
  BY DEF ArenasAgree, Keys
<1>3. \A i \in slots : i \in 1..MaxArenas /\ arenas[i].key # NoKey
  BY <1>1
<1>4. arenasToReset(kind) = snapshot(arenas, slots)
  BY DEF arenasToReset
<1>5. \A i \in 1..MaxArenas :
        i \in slots <=> /\ arenas[i].key # NoKey
                        /\ \/ arenas[i].policy = "ResetOnLight"
                           \/ arenas[i].policy = "ResetOnFull" /\ kind # "light"
  BY <1>1, ResetsWhat
<1> HIDE DEF slots
<1>6. /\ arenasToReset(kind) \in Todos /\ Single(arenasToReset(kind))
      /\ keysOf(arenasToReset(kind)) = {arenas[i].key : i \in slots}
  BY <1>1, <1>2, <1>3, <1>4, SnapshotFacts, SnapshotTodo
<1>7. \A a : a \in concerns(kind, wanted) \cap Arenas <=>
               /\ a \in Arenas \cap DOMAIN wanted
               /\ \/ wanted[a].policy = "ResetOnLight"
                  \/ wanted[a].policy = "ResetOnFull" /\ kind # "light"
  BY KeyAssumption DEF concerns
<1>8. ASSUME NEW i \in slots PROVE arenas[i].key \in concerns(kind, wanted) \cap Arenas
  BY <1>3, <1>5, <1>7 DEF ArenasAgree
<1>9. ASSUME NEW a \in concerns(kind, wanted) \cap Arenas PROVE \E i \in slots : arenas[i].key = a
  <2>1. PICK i \in 1..MaxArenas : arenas[i].key = a
    BY <1>7 DEF ArenasAgree
  <2>2. a # NoKey /\ arenas[i].policy = wanted[a].policy
    BY <2>1, KeyAssumption DEF ArenasAgree
  <2> QED
    BY <1>5, <1>7, <2>1, <2>2
<1> QED
  BY <1>6, <1>8, <1>9

LEMMA CallsWhat ==
    ASSUME NEW kind \in Kinds, NEW phases
    PROVE  calls(kind, phases) <=> kind \in phases \/ (kind = "emergency" /\ "full" \in phases)
<1>1. CASE kind = "light"
  BY <1>1 DEF calls, maskOf
<1>2. CASE kind = "full"
  BY <1>2 DEF calls, maskOf
<1>3. CASE kind = "emergency"
  BY <1>3 DEF calls, maskOf
<1> QED
  BY <1>1, <1>2, <1>3 DEF Kinds

LEMMA CallbacksSnapshot ==
    ASSUME PurgesAgree, NEW kind \in Kinds
    PROVE  /\ callbacksToCall(kind) \in Todos /\ Single(callbacksToCall(kind))
           /\ keysOf(callbacksToCall(kind)) = concerns(kind, wanted) \cap Callbacks
<1> DEFINE slots == {i \in DOMAIN purges : purges[i].key # NoKey /\ calls(kind, purges[i].phases)}
<1>1. MaxCallbacks \in Nat /\ TableOK(purges, MaxCallbacks) /\ DOMAIN purges = 1..MaxCallbacks
  BY SizeAssumption DEF PurgesAgree, TableOK
<1>2. \A i \in 1..MaxCallbacks : purges[i].key \in Keys \cup {NoKey}
  BY DEF PurgesAgree, Keys
<1>3. \A i \in slots : i \in 1..MaxCallbacks /\ purges[i].key # NoKey
  BY <1>1
<1>4. callbacksToCall(kind) = snapshot(purges, slots)
  BY DEF callbacksToCall
<1>5. \A i \in 1..MaxCallbacks :
        i \in slots <=> purges[i].key # NoKey /\ calls(kind, purges[i].phases)
  BY <1>1
<1> HIDE DEF slots
<1>6. /\ callbacksToCall(kind) \in Todos /\ Single(callbacksToCall(kind))
      /\ keysOf(callbacksToCall(kind)) = {purges[i].key : i \in slots}
  BY <1>1, <1>2, <1>3, <1>4, SnapshotFacts, SnapshotTodo
<1>7. \A k : k \in concerns(kind, wanted) \cap Callbacks <=>
               k \in Callbacks \cap DOMAIN wanted /\ calls(kind, wanted[k])
  BY KeyAssumption, CallsWhat DEF concerns
<1>8. ASSUME NEW i \in slots PROVE purges[i].key \in concerns(kind, wanted) \cap Callbacks
  BY <1>3, <1>5, <1>7 DEF PurgesAgree
<1>9. ASSUME NEW k \in concerns(kind, wanted) \cap Callbacks PROVE \E i \in slots : purges[i].key = k
  <2>1. PICK i \in 1..MaxCallbacks : purges[i].key = k
    BY <1>7 DEF PurgesAgree
  <2>2. k # NoKey /\ purges[i].phases = wanted[k]
    BY <2>1, KeyAssumption DEF PurgesAgree
  <2> QED
    BY <1>5, <1>7, <2>1, <2>2
<1> QED
  BY <1>6, <1>8, <1>9

-----------------------------------------------------------------------------
(* Kinds of steps.                                                         *)

\* Only the stack of t changes, and no arena changes hands.
LEMMA StackStep ==
    ASSUME IInv, NEW t \in Tasks, NEW r, StackOK(r, wanted), Hand(r) = Hand(stack[t]),
           stack' = [stack EXCEPT ![t] = r], UNCHANGED <<exists, handles, regVars>>, Values'
    PROVE  IInv'
<1>1. UNCHANGED <<exists, handles, arenas, purges, wanted>>
  BY DEF regVars
<1>2. stack' = [u \in Tasks |-> IF u = t THEN r ELSE stack[u]]
  BY DEF IInv, Stacks
<1>3. Stacks'
  BY <1>1, <1>2 DEF IInv, Stacks
<1>4. ArenasAgree' /\ PurgesAgree'
  BY <1>1 DEF IInv, ArenasAgree, PurgesAgree
<1>5. \A u \in Tasks : Hand(stack'[u]) = Hand(stack[u])
  BY <1>2
<1>6. Owned'
  BY <1>1, <1>5 DEF IInv, Owned
<1> QED
  BY <1>3, <1>4, <1>6 DEF IInv

\* A task that calls, or is not in the middle of resetting, resets nothing.
LEMMA NoReset ==
    ASSUME NEW s, NEW w, StackOK(s, w), s # << >> => s[1].pc # "reset"
    PROVE  \A i \in 1..Len(s) : s[i].pc # "reset"
<1> SUFFICES ASSUME NEW i \in 1..Len(s) PROVE s[i].pc # "reset"
  OBVIOUS
<1>1. s # << >> /\ (i > 1 => s[i].pc \in Waiting)
  BY DEF StackOK
<1> QED
  BY <1>1 DEF Waiting

\* Collections under way see a change that task t makes.
LEMMA WantStep ==
    ASSUME IInv, NEW t \in Tasks, NEW s, s = [u \in Tasks |-> s[u]],
           \A u \in Tasks : StackOK(s[u], wanted), s[t] # << >> => s[t][1].pc # "reset",
           NEW w, Want(t, w, s)
    PROVE  /\ Stacks' /\ wanted' = w
           /\ \A u \in Tasks : Hand(stack'[u]) = Hand(s[u])
<1>1. wanted' = w /\ stack' = Observed(t, s, w)
  BY DEF Want
<1>2. ASSUME NEW u \in Tasks
      PROVE  StackOK(Observed(t, s, w)[u], w) /\ Hand(Observed(t, s, w)[u]) = Hand(s[u])
  <2>1. Observed(t, s, w)[u] = [i \in DOMAIN s[u] |-> see(s[u][i], w, t, u)]
    BY DEF Observed
  <2>2. u = t => \A i \in 1..Len(s[u]) : s[u][i].pc # "reset"
    BY NoReset
  <2> QED
    BY <2>1, <2>2, SeeStack
<1>3. Observed(t, s, w) = [u \in Tasks |-> Observed(t, s, w)[u]]
  BY DEF Observed
<1> QED
  BY <1>1, <1>2, <1>3 DEF Stacks

\* The stack of a task, from its top.
LEMMA TopFacts ==
    ASSUME IInv, NEW t \in Tasks
    PROVE  /\ StackOK(stack[t], wanted) /\ stack[t] \in Seq(FrameType) /\ Len(stack[t]) \in Nat
           /\ stack[t] # << >> =>
                /\ top(t) = stack[t][1] /\ FrameOK(top(t), wanted) /\ top(t) \in FrameType
                /\ (top(t).pc \notin {"register", "end"} => Hand(stack[t]) = {})
           /\ Callable(t) =>
                /\ Hand(stack[t]) = {}
                /\ stack[t] # << >> => Len(stack[t]) < MaxDepth /\ stack[t][1].pc \in Waiting
<1>1. StackOK(stack[t], wanted)
  BY DEF IInv, Stacks
<1>2. stack[t] \in Seq(FrameType) /\ Len(stack[t]) \in Nat
  BY <1>1 DEF StackOK
<1>3. ASSUME stack[t] # << >>
      PROVE  top(t) = stack[t][1] /\ FrameOK(top(t), wanted) /\ top(t) \in FrameType
  BY <1>1, <1>3, TopOK DEF top, FrameOK
<1>4. CASE stack[t] = << >>
  BY <1>1, <1>2, <1>4 DEF Hand
<1>5. CASE stack[t] # << >>
  BY <1>1, <1>2, <1>3, <1>5 DEF Hand, Callable, Waiting
<1> QED
  BY <1>4, <1>5

LEMMA PushStep ==
    ASSUME IInv, NEW t \in Tasks, Callable(t), NEW x, FrameOK(x, wanted),
           x.pc \notin {"register", "end"}, Push(t, x),
           UNCHANGED <<exists, handles, regVars>>, Values'
    PROVE  IInv'
<1> DEFINE r == <<x>> \o stack[t]
<1>1. StackOK(r, wanted) /\ r # << >> /\ r[1] = x /\ Hand(stack[t]) = {}
  BY TopFacts, PushOK
<1>2. stack' = [stack EXCEPT ![t] = r]
  BY DEF Push
<1> HIDE DEF r
<1>3. Hand(r) = Hand(stack[t])
  BY <1>1 DEF Hand
<1> QED
  BY <1>1, <1>2, <1>3, StackStep

LEMMA BecomeStep ==
    ASSUME IInv, NEW t \in Tasks, stack[t] # << >>, top(t).pc \notin {"register", "end"},
           NEW x, FrameOK(x, wanted), x.pc \notin {"register", "end"}, Become(t, x),
           UNCHANGED <<exists, handles, regVars>>, Values'
    PROVE  IInv'
<1> DEFINE r == <<x>> \o Tail(stack[t])
<1>1. StackOK(r, wanted) /\ r # << >> /\ r[1] = x /\ Hand(stack[t]) = {}
  BY TopFacts, BecomeOK
<1>2. stack' = [stack EXCEPT ![t] = r]
  BY DEF Become
<1> HIDE DEF r
<1>3. Hand(r) = Hand(stack[t])
  BY <1>1 DEF Hand
<1> QED
  BY <1>1, <1>2, <1>3, StackStep

LEMMA PopStep ==
    ASSUME IInv, NEW t \in Tasks, stack[t] # << >>, top(t).pc \notin {"register", "end"}, Pop(t),
           UNCHANGED <<exists, handles, regVars>>, Values'
    PROVE  IInv'
<1> DEFINE r == Tail(stack[t])
<1>1. StackOK(r, wanted) /\ Hand(r) = Hand(stack[t])
  BY TopFacts, PopOK
<1>2. stack' = [stack EXCEPT ![t] = r]
  BY DEF Pop
<1> HIDE DEF r
<1> QED
  BY <1>1, <1>2, StackStep

\* The step leaves the arenas and the poll counter alone.
LEMMA SameValues == ASSUME IInv, UNCHANGED <<arena, exists, polls>> PROVE Values'
  BY DEF IInv, Values

-----------------------------------------------------------------------------
(* Steps of collections and polls.                                         *)

\* Frames outside of collections.
LEMMA OtherFrames ==
    ASSUME NEW w, NEW n \in Nat
    PROVE  /\ FrameOK([NoFrame EXCEPT !.pc = "inGuard"], w)
           /\ FrameOK([NoFrame EXCEPT !.pc = "pollClear"], w)
           /\ FrameOK([NoFrame EXCEPT !.pc = "pollGuard"], w)
           /\ FrameOK([NoFrame EXCEPT !.pc = "poll", !.seen = n], w)
<1>1. NoFrame \in FrameType /\ NoFrame.kind = "none"
  BY NoFrameType DEF NoFrame
<1>2. ASSUME NEW x \in FrameType, x.kind = "none", x.pc \in {"inGuard", "pollClear", "pollGuard", "poll"}
      PROVE  FrameOK(x, w)
  BY <1>2, PlainFrame DEF Others
<1>3. FrameOK([NoFrame EXCEPT !.pc = "inGuard"], w)
  <2> DEFINE x == [NoFrame EXCEPT !.pc = "inGuard"]
  <2>1. x \in FrameType /\ x.kind = "none" /\ x.pc = "inGuard"
    BY <1>1 DEF FrameType, Others
  <2> HIDE DEF x
  <2>2. FrameOK(x, w)
    BY <1>2, <2>1
  <2> QED
    BY <2>2 DEF x
<1>4. FrameOK([NoFrame EXCEPT !.pc = "pollGuard"], w)
  <2> DEFINE x == [NoFrame EXCEPT !.pc = "pollGuard"]
  <2>1. x \in FrameType /\ x.kind = "none" /\ x.pc = "pollGuard"
    BY <1>1 DEF FrameType, Others
  <2> HIDE DEF x
  <2>2. FrameOK(x, w)
    BY <1>2, <2>1
  <2> QED
    BY <2>2 DEF x
<1>6. FrameOK([NoFrame EXCEPT !.pc = "pollClear"], w)
  <2> DEFINE x == [NoFrame EXCEPT !.pc = "pollClear"]
  <2>1. x \in FrameType /\ x.kind = "none" /\ x.pc = "pollClear"
    BY <1>1 DEF FrameType, Others
  <2> HIDE DEF x
  <2>2. FrameOK(x, w)
    BY <1>2, <2>1
  <2> QED
    BY <2>2 DEF x
<1>5. FrameOK([NoFrame EXCEPT !.pc = "poll", !.seen = n], w)
  <2> DEFINE x == [NoFrame EXCEPT !.pc = "poll", !.seen = n]
  <2>1. x \in FrameType /\ x.kind = "none" /\ x.pc = "poll"
    BY <1>1 DEF FrameType, Others
  <2> HIDE DEF x
  <2>2. FrameOK(x, w)
    BY <1>2, <2>1
  <2> QED
    BY <2>2 DEF x
<1> QED
  BY <1>3, <1>4, <1>5, <1>6

\* What is left of a snapshot to do is one.
LEMMA TodoFacts ==
    ASSUME NEW todo \in Todos, Single(todo), keysOf(todo) # {}
    PROVE  /\ rest(todo) \in Todos /\ Single(rest(todo))
           /\ first(todo) \in keysOf(todo) /\ keysOf(rest(todo)) = keysOf(todo) \ {first(todo)}
<1>1. pendingSlots(todo) # {}
  BY DEF keysOf
<1>2. todo # << >>
  BY <1>1, EmptySnapshot
<1>3. PICK n \in Nat : todo \in [1..n -> Keys \cup {NoKey}]
  BY <1>2 DEF Todos
<1>4. rest(todo) \in [1..n -> Keys \cup {NoKey}]
  BY <1>3 DEF rest
<1> QED
  BY <1>1, <1>3, <1>4, RestFacts DEF Todos

LEMMA CollectKeeps ==
    ASSUME IInv, NEW t \in Tasks, NEW kind \in Kinds, Collect(t, kind)
    PROVE  IInv'
<1> DEFINE c == concerns(kind, wanted)
           x == [NoFrame EXCEPT !.pc = "arenas", !.kind = kind, !.due = c, !.was = c]
<1>1. c \subseteq Keys
  BY ConcernsKeys
<1>2. Callable(t) /\ Push(t, x) /\ UNCHANGED <<objVars, regVars, pollVars>>
  BY DEF Collect
<1>3. x.kind = kind /\ x.due = c /\ x.was = c /\ x.pc = "arenas" /\ x \in FrameType
  BY <1>1, NoFrameType DEF FrameType, Collecting
<1>4. FrameOK(x, wanted)
  BY <1>3 DEF FrameOK, Collecting, Kinds
<1> HIDE DEF x
<1>5. UNCHANGED <<arena, exists, handles, regVars, polls>>
  BY <1>2 DEF objVars, pollVars
<1> QED
  BY <1>2, <1>3, <1>4, <1>5, SameValues, PushStep

LEMMA PollKeeps ==
    ASSUME IInv, NEW t \in Tasks, Poll(t)
    PROVE  IInv'
<1>1. polls \in Nat
  BY DEF IInv, Values
<1>2. [NoFrame EXCEPT !.pc = "poll", !.seen = polls].pc = "poll"
  BY DEF NoFrame
<1>3. UNCHANGED <<arena, exists, handles, regVars, polls>>
  BY DEF Poll, objVars, pollVars
<1> QED
  BY <1>1, <1>2, <1>3, OtherFrames, SameValues, PushStep DEF Poll

\* HeapGuard polls: the frame goes or is its callback's.
LEMMA GuardPollKeeps ==
    ASSUME IInv, NEW t \in Tasks, stack[t] # << >>, top(t).pc \notin {"register", "end"},
           GuardPoll(t), UNCHANGED <<exists, handles, regVars>>, Values'
    PROVE  IInv'
<1>1. [NoFrame EXCEPT !.pc = "inGuard"].pc = "inGuard"
  BY DEF NoFrame
<1>2. FrameOK([NoFrame EXCEPT !.pc = "inGuard"], wanted)
  BY OtherFrames
<1>3. CASE Pop(t)
  BY <1>3, PopStep
<1>4. CASE Become(t, [NoFrame EXCEPT !.pc = "inGuard"])
  BY <1>1, <1>2, <1>4, BecomeStep
<1> QED
  BY <1>3, <1>4 DEF GuardPoll

LEMMA PollCountKeeps ==
    ASSUME IInv, NEW t \in Tasks, PollCount(t)
    PROVE  IInv'
<1>1. stack[t] # << >> /\ top(t).pc = "poll" /\ UNCHANGED <<arena, exists, handles, regVars>>
  BY DEF PollCount, At, objVars
<1>2. top(t).seen \in Nat
  BY <1>1, TopFacts DEF FrameType
<1>3. polls' \in Nat
  BY <1>2, SizeAssumption DEF PollCount
<1>4. Values'
  BY <1>1, <1>3 DEF IInv, Values
<1>5. [NoFrame EXCEPT !.pc = "pollClear"].pc = "pollClear"
  BY DEF NoFrame
<1>6. FrameOK([NoFrame EXCEPT !.pc = "pollClear"], wanted)
  BY OtherFrames
<1>7. CASE countsOn(polls')
  BY <1>1, <1>4, <1>7, PopStep DEF PollCount
<1>8. CASE ~countsOn(polls')
  BY <1>1, <1>4, <1>5, <1>6, <1>8, BecomeStep DEF PollCount
<1> QED
  BY <1>7, <1>8

LEMMA PollClearKeeps ==
    ASSUME IInv, NEW t \in Tasks, PollClear(t)
    PROVE  IInv'
<1>1. /\ stack[t] # << >> /\ top(t).pc = "pollClear" /\ polls' = 0
      /\ UNCHANGED <<arena, exists, handles, regVars>>
      /\ Become(t, [NoFrame EXCEPT !.pc = "pollGuard"])
  BY DEF PollClear, At, objVars
<1>2. Values'
  BY <1>1 DEF IInv, Values
<1>3. [NoFrame EXCEPT !.pc = "pollGuard"].pc = "pollGuard"
  BY DEF NoFrame
<1>4. FrameOK([NoFrame EXCEPT !.pc = "pollGuard"], wanted)
  BY OtherFrames
<1> QED
  BY <1>1, <1>2, <1>3, <1>4, BecomeStep

LEMMA PollGuardKeeps ==
    ASSUME IInv, NEW t \in Tasks, PollGuard(t)
    PROVE  IInv'
<1>1. stack[t] # << >> /\ top(t).pc = "pollGuard" /\ UNCHANGED <<arena, exists, handles, regVars>>
  BY DEF PollGuard, At, objVars
<1>2. Values'
  BY <1>1 DEF PollGuard, IInv, Values
<1> QED
  BY <1>1, <1>2, GuardPollKeeps DEF PollGuard

LEMMA CollectEndsKeeps ==
    ASSUME IInv, NEW t \in Tasks, CollectEnds(t)
    PROVE  IInv'
<1>1. /\ stack[t] # << >> /\ top(t).pc = "call"
      /\ UNCHANGED <<arena, exists, handles, regVars, polls>>
  BY DEF CollectEnds, At, objVars
<1>2. Values'
  BY <1>1, SameValues
<1>3. CASE top(t).kind = "light"
  BY <1>1, <1>2, <1>3, PopStep DEF CollectEnds
<1>4. CASE top(t).kind # "light"
  BY <1>1, <1>2, <1>4, GuardPollKeeps DEF CollectEnds
<1> QED
  BY <1>3, <1>4

LEMMA GuardReturnsKeeps ==
    ASSUME IInv, NEW t \in Tasks, GuardReturns(t)
    PROVE  IInv'
<1>1. /\ stack[t] # << >> /\ top(t).pc = "inGuard" /\ Pop(t)
      /\ UNCHANGED <<arena, exists, handles, regVars, polls>>
  BY DEF GuardReturns, At, objVars, pollVars
<1> QED
  BY <1>1, SameValues, PopStep

LEMMA SnapshotArenasKeeps ==
    ASSUME IInv, NEW t \in Tasks, SnapshotArenas(t)
    PROVE  IInv'
<1> DEFINE y == top(t)
           todo == arenasToReset(y.kind)
           x == [y EXCEPT !.pc = "reset", !.todo = todo]
<1>1. /\ stack[t] # << >> /\ y.pc = "arenas" /\ Become(t, x)
      /\ UNCHANGED <<arena, exists, handles, regVars, polls>>
  BY DEF SnapshotArenas, At, objVars, pollVars
<1>2. FrameOK(y, wanted) /\ y \in FrameType
  BY <1>1, TopFacts
<1>3. y.kind \in Kinds
  BY <1>1, <1>2 DEF FrameOK, FrameType, Collecting
<1>4. todo \in Todos /\ Single(todo) /\ keysOf(todo) = concerns(y.kind, wanted) \cap Arenas
  BY <1>3, ArenasSnapshot DEF IInv
<1> HIDE DEF y, todo
<1>5. /\ x \in FrameType /\ x.pc = "reset" /\ x.kind = y.kind /\ x.todo = todo
      /\ x.due = y.due /\ x.was = y.was
  BY <1>2, <1>4 DEF FrameType, Collecting
<1> HIDE DEF x
<1>6. x.due \subseteq concerns(y.kind, wanted) /\ concerns(y.kind, wanted) \subseteq x.was
  BY <1>1, <1>2, <1>3, <1>5 DEF FrameOK, Kinds
<1>7. Serves(x, Arenas)
  BY <1>4, <1>5, <1>6, PendingKeys DEF Serves, Single
<1>8. FrameOK(x, wanted)
  BY <1>3, <1>4, <1>5, <1>6, <1>7 DEF FrameOK, Collecting, Kinds
<1>9. top(t).pc \notin {"register", "end"} /\ x.pc \notin {"register", "end"}
  BY <1>1, <1>5 DEF y
<1> QED
  BY <1>1, <1>8, <1>9, SameValues, BecomeStep

LEMMA ResetNextKeeps ==
    ASSUME IInv, NEW t \in Tasks, ResetNext(t)
    PROVE  IInv'
<1> DEFINE y == top(t)
           a == first(y.todo)
           x == [y EXCEPT !.todo = rest(@), !.due = @ \ {a}, !.raced = @ \ {a}]
<1>1. /\ stack[t] # << >> /\ y.pc = "reset" /\ pending(y) # {} /\ Become(t, x)
      /\ arena' = [arena EXCEPT ![a] = reset(@)]
      /\ UNCHANGED <<exists, handles, regVars, polls>>
  BY DEF ResetNext, At, pollVars
<1>2. FrameOK(y, wanted) /\ y \in FrameType
  BY <1>1, TopFacts
<1>3. y.kind \in Kinds
  BY <1>1, <1>2 DEF FrameOK, FrameType, Collecting
<1>4. /\ Serves(y, Arenas) /\ keysOf(y.todo) # {}
      /\ keysOf(y.todo) \ y.raced \subseteq concerns(y.kind, wanted)
  BY <1>1, <1>2, PendingKeys DEF FrameOK
<1>5. /\ rest(y.todo) \in Todos /\ Single(rest(y.todo))
      /\ a \in keysOf(y.todo) /\ keysOf(rest(y.todo)) = keysOf(y.todo) \ {a}
  BY <1>2, <1>4, TodoFacts DEF Serves, Single, FrameType
<1>6. a \in Arenas
  BY <1>4, <1>5, PendingKeys DEF Serves
<1>7. Values'
  <2>1. arena[a] \in ArenaType
    BY <1>6 DEF IInv, Values
  <2>2. reset(arena[a]) \in ArenaType
    BY <2>1 DEF reset, ArenaType
  <2>3. isReady(reset(arena[a])) = isReady(arena[a])
    BY <2>1 DEF reset, ArenaType, isReady
  <2> HIDE DEF a
  <2> QED
    BY <1>1, <1>6, <2>2, <2>3 DEF IInv, Values
<1> HIDE DEF a, y
<1>8. /\ x \in FrameType /\ x.pc = "reset" /\ x.kind = y.kind /\ x.todo = rest(y.todo)
      /\ x.due = y.due \ {a} /\ x.was = y.was /\ x.raced = y.raced \ {a}
  BY <1>1, <1>2, <1>5 DEF FrameType
<1> HIDE DEF x
<1>9. Serves(x, Arenas)
  BY <1>4, <1>5, <1>8, PendingKeys DEF Serves, Single
<1>10. FrameOK(x, wanted)
  BY <1>1, <1>2, <1>3, <1>4, <1>5, <1>8, <1>9 DEF FrameOK, Collecting, Kinds
<1>11. top(t).pc \notin {"register", "end"} /\ x.pc \notin {"register", "end"}
  BY <1>1, <1>8 DEF y
<1> QED
  BY <1>1, <1>7, <1>10, <1>11, BecomeStep

LEMMA SnapshotCallbacksKeeps ==
    ASSUME IInv, NEW t \in Tasks, SnapshotCallbacks(t)
    PROVE  IInv'
<1> DEFINE y == top(t)
           todo == callbacksToCall(y.kind)
           f == [y EXCEPT !.pc = "call", !.todo = todo]
           x == [f EXCEPT !.was = @ \cap pending(f)]
<1>1. /\ stack[t] # << >> /\ y.pc = "reset" /\ pending(y) = {} /\ Become(t, x)
      /\ UNCHANGED <<arena, exists, handles, regVars, polls>>
  BY DEF SnapshotCallbacks, At, objVars, pollVars
<1>2. FrameOK(y, wanted) /\ y \in FrameType
  BY <1>1, TopFacts
<1>3. y.kind \in Kinds
  BY <1>1, <1>2 DEF FrameOK, FrameType, Collecting
<1>4. /\ todo \in Todos /\ Single(todo)
      /\ keysOf(todo) = concerns(y.kind, wanted) \cap Callbacks
  BY <1>3, CallbacksSnapshot DEF IInv
<1> HIDE DEF y, todo
<1>5. f.todo = todo
  BY <1>2 DEF FrameType
<1>6. pending(f) = keysOf(todo)
  BY <1>5, PendingKeys
<1>7. /\ x \in FrameType /\ x.pc = "call" /\ x.kind = y.kind /\ x.todo = todo
      /\ x.due = y.due /\ x.was = y.was \cap keysOf(todo)
  BY <1>2, <1>4, <1>6 DEF FrameType, Collecting
<1> HIDE DEF x, f
<1>8. x.due \subseteq concerns(y.kind, wanted) /\ concerns(y.kind, wanted) \subseteq y.was
  BY <1>1, <1>2, <1>3, <1>7 DEF FrameOK, Kinds
<1>9. x.due \subseteq Callbacks
  <2>1. y.due \cap Arenas = {}
    BY <1>1, <1>2 DEF FrameOK, Serves
  <2> QED
    BY <1>2, <1>7, <2>1 DEF FrameType, Keys
<1>10. Serves(x, Callbacks)
  BY <1>4, <1>7, <1>8, PendingKeys DEF Serves, Single
<1>11. FrameOK(x, wanted)
  BY <1>3, <1>7, <1>8, <1>9, <1>10 DEF FrameOK, Collecting, Kinds
<1>12. top(t).pc \notin {"register", "end"} /\ x.pc \notin {"register", "end"}
  BY <1>1, <1>7 DEF y
<1> QED
  BY <1>1, <1>11, <1>12, SameValues, BecomeStep

LEMMA CallNextKeeps ==
    ASSUME IInv, NEW t \in Tasks, CallNext(t)
    PROVE  IInv'
<1> DEFINE y == top(t)
           k == first(y.todo)
           x == [y EXCEPT !.pc = "inPurge", !.todo = rest(@), !.due = @ \ {k}, !.was = @ \ {k}]
<1>1. /\ stack[t] # << >> /\ y.pc = "call" /\ pending(y) # {} /\ Become(t, x)
      /\ UNCHANGED <<arena, exists, handles, regVars, polls>>
  BY DEF CallNext, At, objVars, pollVars
<1>2. FrameOK(y, wanted) /\ y \in FrameType
  BY <1>1, TopFacts
<1>3. y.kind \in Kinds
  BY <1>1, <1>2 DEF FrameOK, FrameType, Collecting
<1>4. Serves(y, Callbacks) /\ y.due \subseteq Callbacks /\ keysOf(y.todo) # {}
  BY <1>1, <1>2, PendingKeys DEF FrameOK
<1>5. /\ rest(y.todo) \in Todos /\ Single(rest(y.todo))
      /\ k \in keysOf(y.todo) /\ keysOf(rest(y.todo)) = keysOf(y.todo) \ {k}
  BY <1>2, <1>4, TodoFacts DEF Serves, Single, FrameType
<1> HIDE DEF k, y
<1>6. /\ x \in FrameType /\ x.pc = "inPurge" /\ x.kind = y.kind /\ x.todo = rest(y.todo)
      /\ x.due = y.due \ {k} /\ x.was = y.was \ {k}
  BY <1>2, <1>5 DEF FrameType, Collecting
<1> HIDE DEF x
<1>7. Serves(x, Callbacks)
  BY <1>4, <1>5, <1>6, PendingKeys DEF Serves, Single
<1>8. FrameOK(x, wanted)
  BY <1>2, <1>3, <1>4, <1>6, <1>7 DEF FrameOK, Collecting, Kinds
<1>9. top(t).pc \notin {"register", "end"} /\ x.pc \notin {"register", "end"}
  BY <1>1, <1>6 DEF y
<1> QED
  BY <1>1, <1>8, <1>9, SameValues, BecomeStep

LEMMA PurgeReturnsKeeps ==
    ASSUME IInv, NEW t \in Tasks, PurgeReturns(t)
    PROVE  IInv'
<1> DEFINE y == top(t)
           x == [y EXCEPT !.pc = "call"]
<1>1. /\ stack[t] # << >> /\ y.pc = "inPurge" /\ Become(t, x)
      /\ UNCHANGED <<arena, exists, handles, regVars, polls>>
  BY DEF PurgeReturns, At, objVars, pollVars
<1>2. FrameOK(y, wanted) /\ y \in FrameType
  BY <1>1, TopFacts
<1> HIDE DEF y
<1>3. /\ x \in FrameType /\ x.pc = "call" /\ x.kind = y.kind /\ x.todo = y.todo
      /\ x.due = y.due /\ x.was = y.was
  BY <1>2 DEF FrameType, Collecting
<1> HIDE DEF x
<1>4. FrameOK(x, wanted)
  <2>1. Serves(x, Callbacks) /\ x.due \subseteq Callbacks
    BY <1>1, <1>2, <1>3, PendingKeys DEF FrameOK, Serves
  <2> QED
    BY <1>1, <1>2, <1>3, <2>1 DEF FrameOK, Collecting
<1>5. top(t).pc \notin {"register", "end"} /\ x.pc \notin {"register", "end"}
  BY <1>1, <1>3 DEF y
<1> QED
  BY <1>1, <1>4, <1>5, SameValues, BecomeStep

-----------------------------------------------------------------------------
(* Steps of arenas.                                                        *)

LEMMA EnsureCapacityKeeps ==
    ASSUME IInv, NEW t \in Tasks, NEW a \in handles, NEW bytes \in Bytes, NEW got \in BOOLEAN,
           EnsureCapacity(t, a, bytes, got)
    PROVE  IInv'
<1>1. a \in Arenas /\ a \in exists /\ bytes \in Nat
  BY SizeAssumption DEF IInv, Owned
<1>2. ensureCapacity(arena[a], bytes, got) \in ArenaType
  BY <1>1, ArenaTypes DEF IInv, Values
<1>3. /\ arena' = [arena EXCEPT ![a] = ensureCapacity(@, bytes, got)]
      /\ UNCHANGED <<exists, handles, regVars, polls, stack>>
  BY DEF EnsureCapacity, pollVars
<1>4. Values'
  BY <1>1, <1>2, <1>3 DEF IInv, Values
<1>5. stack' = [stack EXCEPT ![t] = stack[t]]
  BY <1>3 DEF IInv, Stacks
<1> QED
  BY <1>3, <1>4, <1>5, TopFacts, StackStep

\* The frame of an alloc.
AllocFrame(a, b) == [NoFrame EXCEPT !.pc = "alloc", !.arena = a, !.block = b]

LEMMA AllocFrames ==
    ASSUME NEW a \in Arenas, NEW b \in BlockType
    PROVE  /\ AllocFrame(a, b) \in FrameType /\ AllocFrame(a, b).pc = "alloc"
           /\ AllocFrame(a, b).kind = "none"
           /\ AllocFrame(a, b).arena = a /\ AllocFrame(a, b).block = b
  BY NoFrameType DEF NoFrame, FrameType, Others, AllocFrame

LEMMA AllocKeeps ==
    ASSUME IInv, NEW t \in Tasks, NEW a \in handles, NEW request \in Requests,
           Alloc(t, a, request)
    PROVE  IInv'
<1> DEFINE b == block(arena[a], request[1], request[2])
           x == AllocFrame(a, b)
<1>1. a \in Arenas /\ arena[a] \in ArenaType /\ request[1] \in Nat /\ request[2] \in Nat
  BY SizeAssumption DEF IInv, Owned, Values
<1>2. b \in BlockType
  BY <1>1, BlockTypes
<1>3. Callable(t) /\ Push(t, x) /\ UNCHANGED <<arena, exists, handles, regVars, polls>>
  BY DEF Alloc, objVars, pollVars, AllocFrame
<1> HIDE DEF b
<1>4. x \in FrameType /\ x.pc = "alloc" /\ x.kind = "none"
  BY <1>1, <1>2, AllocFrames
<1> HIDE DEF x
<1>5. FrameOK(x, wanted)
  BY <1>4, PlainFrame DEF Others
<1> QED
  BY <1>3, <1>4, <1>5, SameValues, PushStep

LEMMA AllocMoveKeeps ==
    ASSUME IInv, NEW t \in Tasks, AllocMove(t)
    PROVE  IInv'
<1> DEFINE a == top(t).arena
           b == top(t).block
<1>1. /\ stack[t] # << >> /\ top(t).pc = "alloc" /\ Pop(t)
      /\ arena' = [arena EXCEPT ![a] = move(@, b)]
      /\ UNCHANGED <<exists, handles, regVars, polls>>
  BY DEF AllocMove, At, pollVars
<1>2. a \in Arenas /\ b \in BlockType /\ arena[a] \in ArenaType
  BY <1>1, TopFacts DEF FrameType, IInv, Values
<1>3. move(arena[a], b) \in ArenaType /\ isReady(move(arena[a], b)) = isReady(arena[a])
  BY <1>2, MoveType
<1> HIDE DEF a, b
<1>4. Values'
  BY <1>1, <1>2, <1>3 DEF IInv, Values
<1> QED
  BY <1>1, <1>4, PopStep

\* Only the stack of t and the objects change.
LEMMA ObjectStep ==
    ASSUME IInv, NEW t \in Tasks, NEW r, StackOK(r, wanted),
           stack' = [stack EXCEPT ![t] = r], UNCHANGED regVars
    PROVE  /\ Stacks' /\ ArenasAgree' /\ PurgesAgree'
           /\ stack' = [u \in Tasks |-> IF u = t THEN r ELSE stack[u]]
<1>1. UNCHANGED <<arenas, purges, wanted>>
  BY DEF regVars
<1>2. stack' = [u \in Tasks |-> IF u = t THEN r ELSE stack[u]]
  BY DEF IInv, Stacks
<1>3. Stacks'
  BY <1>1, <1>2 DEF IInv, Stacks
<1>4. ArenasAgree' /\ PurgesAgree'
  BY <1>1 DEF IInv, ArenasAgree, PurgesAgree
<1> QED
  BY <1>2, <1>3, <1>4

LEMMA CreateArenaKeeps ==
    ASSUME IInv, NEW t \in Tasks, NEW a \in Objects \ exists, NEW policy \in Policies,
           CreateArena(t, a, policy)
    PROVE  IInv'
<1> DEFINE x == [NoFrame EXCEPT !.pc = "register", !.arena = a, !.policy = policy]
           r == <<x>> \o stack[t]
<1>1. a \in Arenas
  BY DEF Arenas
<1>2. /\ Callable(t) /\ exists' = exists \cup {a} /\ stack' = [stack EXCEPT ![t] = r]
      /\ UNCHANGED <<handles, regVars, polls>>
      /\ \E bytes \in Bytes : arena' = [arena EXCEPT ![a] = begin(NewArena, bytes, TRUE)]
  BY DEF CreateArena, Push, pollVars
<1>3. x \in FrameType /\ x.kind = "none" /\ x.pc = "register" /\ x.arena = a
  BY <1>1, NoFrameType DEF NoFrame, FrameType, Others
<1> HIDE DEF x
<1>4. FrameOK(x, wanted)
  BY <1>3, PlainFrame DEF Others
<1>5. StackOK(r, wanted) /\ r # << >> /\ r[1] = x /\ Hand(stack[t]) = {}
  BY <1>2, <1>4, TopFacts, PushOK
<1> HIDE DEF r
<1>6. Hand(r) = {a}
  BY <1>3, <1>5 DEF Hand
<1>7. /\ Stacks' /\ ArenasAgree' /\ PurgesAgree'
      /\ stack' = [u \in Tasks |-> IF u = t THEN r ELSE stack[u]]
  BY <1>2, <1>5, ObjectStep
<1>8. \A u \in Tasks : Hand(stack'[u]) = IF u = t THEN {a} ELSE Hand(stack[u])
  BY <1>6, <1>7
<1>9. a \notin handles /\ \A u \in Tasks : a \notin Hand(stack[u])
  BY DEF IInv, Owned
<1>10. handles' = handles /\ wanted' = wanted
  BY <1>2 DEF regVars
<1>11. Owned'
  <2>1. \A b : (b \in exists' <=> b \in handles' \/ \E u \in Tasks : b \in Hand(stack'[u]))
    BY <1>2, <1>5, <1>8, <1>10 DEF IInv, Owned
  <2>2. \A u \in Tasks : Hand(stack'[u]) \cap handles' = {}
    BY <1>8, <1>9, <1>10 DEF IInv, Owned
  <2>3. \A u, v \in Tasks : u # v => Hand(stack'[u]) \cap Hand(stack'[v]) = {}
    BY <1>8, <1>9 DEF IInv, Owned
  <2> QED
    BY <1>2, <1>10, <2>1, <2>2, <2>3 DEF IInv, Owned
<1>12. Values'
  <2>1. PICK bytes \in Bytes : arena' = [arena EXCEPT ![a] = begin(NewArena, bytes, TRUE)]
    BY <1>2
  <2>2. bytes \in Nat /\ arena[a] \in ArenaType
    BY <1>1, SizeAssumption DEF IInv, Values
  <2>3. begin(NewArena, bytes, TRUE) \in ArenaType
    BY <2>2 DEF begin, ArenaType
  <2> QED
    BY <1>1, <1>2, <2>1, <2>3 DEF IInv, Values
<1> QED
  BY <1>7, <1>11, <1>12 DEF IInv

LEMMA EndArenaKeeps ==
    ASSUME IInv, NEW t \in Tasks, EndArena(t)
    PROVE  IInv'
<1> DEFINE x == top(t)
           a == x.arena
           r == Tail(stack[t])
<1>1. /\ stack[t] # << >> /\ x.pc = "end" /\ stack' = [stack EXCEPT ![t] = r]
      /\ arena' = [arena EXCEPT ![a] = end(@)]
      /\ exists' = IF x.deletes THEN exists \ {a} ELSE exists
      /\ handles' = IF x.keeps THEN handles \cup {a} ELSE handles
      /\ UNCHANGED <<regVars, polls>>
  BY DEF EndArena, At, Pop, pollVars
<1>2. FrameOK(x, wanted) /\ x \in FrameType /\ x = stack[t][1]
  BY <1>1, TopFacts
<1>3. Ends(x) /\ a \in Arenas
  BY <1>1, <1>2 DEF FrameOK, FrameType
<1>4. Hand(stack[t]) = {a}
  BY <1>1, <1>2 DEF Hand
<1>5. StackOK(r, wanted) /\ Hand(r) = {}
  BY <1>1, TopFacts, PopOK
<1>6. \/ exists' = exists \ {a} /\ handles' = handles /\ a # Scratch
      \/ exists' = exists /\ handles' = handles \cup {a}
  BY <1>1, <1>3 DEF Ends
<1>7. a \notin handles /\ \A u \in Tasks \ {t} : a \notin Hand(stack[u])
  BY <1>4 DEF IInv, Owned
<1>8. /\ Stacks' /\ ArenasAgree' /\ PurgesAgree'
      /\ stack' = [u \in Tasks |-> IF u = t THEN r ELSE stack[u]]
  BY <1>1, <1>5, ObjectStep
<1>9. \A u \in Tasks : Hand(stack'[u]) = IF u = t THEN {} ELSE Hand(stack[u])
  BY <1>5, <1>8
<1>10. wanted' = wanted
  BY <1>1 DEF regVars
<1> HIDE DEF x, r, a
<1>11. Owned'
  <2>1. \A b : (b \in exists' <=> b \in handles' \/ \E u \in Tasks : b \in Hand(stack'[u]))
    BY <1>4, <1>6, <1>7, <1>9 DEF IInv, Owned
  <2>2. \A u \in Tasks : Hand(stack'[u]) \cap handles' = {}
    BY <1>6, <1>7, <1>9 DEF IInv, Owned
  <2>3. \A u, v \in Tasks : u # v => Hand(stack'[u]) \cap Hand(stack'[v]) = {}
    BY <1>9 DEF IInv, Owned
  <2>4. handles' \subseteq Arenas /\ Scratch \in exists'
    BY <1>3, <1>6 DEF IInv, Owned
  <2>5. Arenas \cap DOMAIN wanted' \subseteq handles' \cup {Scratch}
    BY <1>6, <1>10 DEF IInv, Owned
  <2> QED
    BY <2>1, <2>2, <2>3, <2>4, <2>5 DEF Owned
<1>12. Values'
  <2>1. end(arena[a]) \in ArenaType /\ ~isReady(end(arena[a]))
    BY DEF end, NewArena, ArenaType, isReady
  <2> QED
    BY <1>1, <1>3, <1>6, <2>1 DEF IInv, Values
<1> QED
  BY <1>8, <1>11, <1>12 DEF IInv

-----------------------------------------------------------------------------
(* Steps that change what is registered.                                   *)

LEMMA SameOwners ==
    ASSUME IInv, UNCHANGED <<exists, handles>>,
           \A u \in Tasks : Hand(stack'[u]) = Hand(stack[u]),
           Arenas \cap DOMAIN wanted' \subseteq handles \cup {Scratch}
    PROVE  Owned'
  BY DEF IInv, Owned

\* A call that registers or unregisters something.
LEMMA CallWants ==
    ASSUME IInv, NEW t \in Tasks, Callable(t), NEW w, Want(t, w, stack),
           UNCHANGED <<arena, exists, handles, polls>>, ArenasAgree', PurgesAgree',
           Arenas \cap DOMAIN w \subseteq handles \cup {Scratch}
    PROVE  IInv'
<1>1. stack = [u \in Tasks |-> stack[u]] /\ \A u \in Tasks : StackOK(stack[u], wanted)
  BY DEF IInv, Stacks
<1>2. stack[t] # << >> => stack[t][1].pc # "reset"
  BY TopFacts DEF Waiting
<1>3. /\ Stacks' /\ wanted' = w
      /\ \A u \in Tasks : Hand(stack'[u]) = Hand(stack[u])
  BY <1>1, <1>2, WantStep
<1>4. Owned'
  BY <1>3, SameOwners
<1> QED
  BY <1>3, <1>4, SameValues DEF IInv

LEMMA RegisterArenaKeeps ==
    ASSUME IInv, NEW t \in Tasks, NEW a \in handles \cup {Scratch}, NEW policy \in Policies,
           NEW owns \in Owners(a), RegisterArena(t, a, policy, owns)
    PROVE  IInv'
<1>1. a \in Arenas /\ owns \in BOOLEAN /\ (a = Scratch => owns = FALSE)
  BY DEF IInv, Owned, Arenas, Owners
<1> DEFINE w == Registered(a, Wish(policy, owns))
<1>2. /\ Callable(t) /\ accepts(arenas, a)
      /\ arenas' = register(arenas, ArenaRecord(a, policy, owns))
      /\ Want(t, w, stack) /\ UNCHANGED <<arena, exists, handles, purges, polls>>
  BY DEF RegisterArena, objVars, pollVars
<1>3. wanted' = w
  BY <1>2 DEF Want
<1>4. ArenasAgree' /\ PurgesAgree'
  BY <1>1, <1>2, <1>3, ArenaAdded DEF IInv
<1>5. Arenas \cap DOMAIN w \subseteq handles \cup {Scratch}
  BY DEF Registered, Unregistered, IInv, Owned
<1> HIDE DEF w
<1> QED
  BY <1>2, <1>4, <1>5, CallWants

LEMMA UnregisterArenaKeeps ==
    ASSUME IInv, NEW t \in Tasks, NEW a \in Arenas, UnregisterArena(t, a)
    PROVE  IInv'
<1> DEFINE w == Unregistered(a)
<1>1. /\ Callable(t) /\ arenas' = unregister(arenas, a)
      /\ Want(t, w, stack) /\ UNCHANGED <<arena, exists, handles, purges, polls>>
  BY DEF UnregisterArena, objVars, pollVars
<1>2. wanted' = w
  BY <1>1 DEF Want
<1>3. ArenasAgree' /\ PurgesAgree'
  BY <1>1, <1>2, ArenaDropped DEF IInv
<1>4. Arenas \cap DOMAIN w \subseteq handles \cup {Scratch}
  BY DEF Registered, Unregistered, IInv, Owned
<1> HIDE DEF w
<1> QED
  BY <1>1, <1>3, <1>4, CallWants

LEMMA RegisterPurgeCallbackKeeps ==
    ASSUME IInv, NEW t \in Tasks, NEW k \in Callbacks, NEW phases,
           RegisterPurgeCallback(t, k, phases)
    PROVE  IInv'
<1> DEFINE w == Registered(k, phases)
<1>1. /\ Callable(t) /\ accepts(purges, k)
      /\ purges' = register(purges, PurgeRecord(k, phases))
      /\ Want(t, w, stack) /\ UNCHANGED <<arena, exists, handles, arenas, polls>>
  BY DEF RegisterPurgeCallback, objVars, pollVars
<1>2. wanted' = w
  BY <1>1 DEF Want
<1>3. ArenasAgree' /\ PurgesAgree'
  BY <1>1, <1>2, CallbackAdded DEF IInv
<1>4. Arenas \cap DOMAIN w \subseteq handles \cup {Scratch}
  BY KeyAssumption DEF Registered, IInv, Owned
<1> HIDE DEF w
<1> QED
  BY <1>1, <1>3, <1>4, CallWants

LEMMA UnregisterPurgeCallbackKeeps ==
    ASSUME IInv, NEW t \in Tasks, NEW k \in Callbacks, UnregisterPurgeCallback(t, k)
    PROVE  IInv'
<1> DEFINE w == Unregistered(k)
<1>1. /\ Callable(t) /\ purges' = unregister(purges, k)
      /\ Want(t, w, stack) /\ UNCHANGED <<arena, exists, handles, arenas, polls>>
  BY DEF UnregisterPurgeCallback, objVars, pollVars
<1>2. wanted' = w
  BY <1>1 DEF Want
<1>3. ArenasAgree' /\ PurgesAgree'
  BY <1>1, <1>2, CallbackDropped DEF IInv
<1>4. Arenas \cap DOMAIN w \subseteq handles \cup {Scratch}
  BY DEF Registered, Unregistered, IInv, Owned
<1> HIDE DEF w
<1> QED
  BY <1>1, <1>3, <1>4, CallWants

LEMMA RegisterCreatedKeeps ==
    ASSUME IInv, NEW t \in Tasks, RegisterCreated(t)
    PROVE  IInv'
<1> DEFINE a == top(t).arena
           policy == top(t).policy
           r == Tail(stack[t])
           s == [stack EXCEPT ![t] = Tail(@)]
           w == IF accepts(arenas, a) THEN Registered(a, Wish(policy, TRUE)) ELSE wanted
<1>1. /\ stack[t] # << >> /\ top(t).pc = "register"
      /\ arenas' = register(arenas, ArenaRecord(a, policy, TRUE)) /\ Want(t, w, s)
      /\ handles' = handles \cup {a} /\ UNCHANGED <<arena, exists, purges, polls>>
  BY DEF RegisterCreated, At, pollVars
<1>2. FrameOK(top(t), wanted) /\ top(t) \in FrameType /\ top(t) = stack[t][1]
  BY <1>1, TopFacts
<1>3. a \in Objects /\ a \in Arenas /\ a # Scratch /\ policy \in Policies
  BY <1>1, <1>2, KeyAssumption DEF FrameOK, FrameType, Arenas
<1>4. Hand(stack[t]) = {a}
  BY <1>1, <1>2 DEF Hand
<1>5. s = [u \in Tasks |-> IF u = t THEN r ELSE stack[u]]
  BY DEF IInv, Stacks
<1>6. /\ StackOK(r, wanted) /\ Hand(r) = {}
      /\ r # << >> => r[1].pc \in Waiting
  BY <1>1, TopFacts, PopOK
<1>7. DOMAIN w \subseteq DOMAIN wanted \cup {a}
  BY DEF Registered
<1>8. wanted' = w
  BY <1>1 DEF Want
<1>9. ArenasAgree' /\ PurgesAgree'
  <2>1. CASE accepts(arenas, a)
    <3>1. wanted' = Registered(a, Wish(policy, TRUE))
      BY <1>8, <2>1
    <3> HIDE DEF a, policy
    <3> QED
      BY <1>1, <1>3, <2>1, <3>1, ArenaAdded DEF IInv
  <2>2. CASE ~accepts(arenas, a)
    <3>1. arenas' = arenas /\ wanted' = wanted /\ purges' = purges
      BY <1>1, <1>8, <2>2 DEF register, ArenaRecord
    <3> QED
      BY <3>1 DEF IInv, ArenasAgree, PurgesAgree, TableOK
  <2> QED
    BY <2>1, <2>2
<1> HIDE DEF a, policy, r, s, w
<1>10. s = [u \in Tasks |-> s[u]] /\ \A u \in Tasks : StackOK(s[u], wanted)
  BY <1>5, <1>6, TopFacts
<1>11. s[t] # << >> => s[t][1].pc # "reset"
  BY <1>5, <1>6 DEF Waiting
<1>12. Stacks' /\ \A u \in Tasks : Hand(stack'[u]) = Hand(s[u])
  BY <1>1, <1>10, <1>11, WantStep
<1>13. \A u \in Tasks : Hand(stack'[u]) = IF u = t THEN {} ELSE Hand(stack[u])
  BY <1>5, <1>6, <1>12
<1>14. \A u \in Tasks \ {t} : a \notin Hand(stack[u])
  BY <1>4 DEF IInv, Owned
<1>15. Owned'
  <2>1. \A b : (b \in exists' <=> b \in handles' \/ \E u \in Tasks : b \in Hand(stack'[u]))
    BY <1>1, <1>4, <1>13 DEF IInv, Owned
  <2>2. \A u \in Tasks : Hand(stack'[u]) \cap handles' = {}
    BY <1>1, <1>13, <1>14 DEF IInv, Owned
  <2>3. \A u, v \in Tasks : u # v => Hand(stack'[u]) \cap Hand(stack'[v]) = {}
    BY <1>13 DEF IInv, Owned
  <2>4. /\ handles' \subseteq Arenas /\ Scratch \in exists'
        /\ Arenas \cap DOMAIN wanted' \subseteq handles' \cup {Scratch}
    BY <1>1, <1>3, <1>7, <1>8 DEF IInv, Owned
  <2> QED
    BY <2>1, <2>2, <2>3, <2>4 DEF Owned
<1> QED
  BY <1>1, <1>9, <1>12, <1>15, SameValues DEF IInv

\* Whether destroyArena deletes is what the last registration said, or that it
\* is not the scratch arena.
LEMMA Deletes ==
    ASSUME IInv, NEW a \in Arenas
    PROVE  \/ deletes(a) = TRUE /\ keeps(a) = FALSE /\ a # Scratch
           \/ deletes(a) = FALSE /\ keeps(a) = TRUE
<1>1. a # NoKey /\ DOMAIN arenas = 1..MaxArenas
  BY KeyAssumption DEF IInv, ArenasAgree, TableOK
<1>2. CASE has(arenas, a)
  <2> DEFINE i == CHOOSE j \in at(arenas, a) : TRUE
  <2>1. i \in at(arenas, a)
    BY <1>2 DEF has
  <2>2. recordOf(arenas, a) = arenas[i]
    BY DEF recordOf
  <2> HIDE DEF i
  <2>3. i \in 1..MaxArenas /\ arenas[i].key = a
    BY <1>1, <2>1 DEF at
  <2>4. a \in DOMAIN wanted /\ arenas[i].ownsObject = wanted[a].owns
    BY <1>1, <2>3 DEF IInv, ArenasAgree
  <2>5. /\ wanted[a].owns = TRUE \/ wanted[a].owns = FALSE
        /\ a = Scratch => wanted[a].owns = FALSE
    BY <2>4 DEF IInv, ArenasAgree, Wishes
  <2>6. deletes(a) = wanted[a].owns
    BY <1>2, <2>2, <2>4 DEF deletes
  <2>7. CASE wanted[a].owns = TRUE
    <3>1. deletes(a) = TRUE /\ a # Scratch
      BY <2>5, <2>6, <2>7
    <3>2. ~keeps(a)
      BY <2>7, <3>1 DEF keeps
    <3>3. keeps(a) = FALSE
      BY <3>2 DEF keeps
    <3> QED
      BY <3>1, <3>3, Zenon
  <2>8. CASE wanted[a].owns = FALSE
    <3>1. deletes(a) = FALSE
      BY <2>6, <2>8, Zenon
    <3>2. keeps(a) = TRUE
      BY <2>4, <2>8 DEF keeps
    <3> QED
      BY <3>1, <3>2, Zenon
  <2> QED
    BY <2>5, <2>7, <2>8
<1>3. CASE ~has(arenas, a)
  <2>1. a \notin DOMAIN wanted
    <3> SUFFICES ASSUME a \in DOMAIN wanted PROVE FALSE
      OBVIOUS
    <3>1. PICK i \in 1..MaxArenas : arenas[i].key = a
      BY DEF IInv, ArenasAgree
    <3> QED
      BY <1>1, <1>3, <3>1 DEF has, at
  <2>2. deletes(a) = (a # Scratch) /\ keeps(a) = (a = Scratch)
    BY <1>3, <2>1 DEF deletes, keeps
  <2> QED
    BY <2>2
<1> QED
  BY <1>2, <1>3

\* The frame of a destroyArena.
EndFrame(a, d, k) == [NoFrame EXCEPT !.pc = "end", !.arena = a, !.deletes = d, !.keeps = k]

\* Such a frame deletes the object or leaves it to the application.
LEMMA EndFrames ==
    ASSUME NEW a \in Arenas, NEW x,
           \/ x = EndFrame(a, TRUE, FALSE) /\ a # Scratch
           \/ x = EndFrame(a, FALSE, TRUE)
    PROVE  x \in FrameType /\ x.pc = "end" /\ x.kind = "none" /\ x.arena = a /\ Ends(x)
<1> DEFINE y == [NoFrame EXCEPT !.pc = "end", !.arena = a]
<1>1. y \in FrameType /\ y.pc = "end" /\ y.kind = "none" /\ y.arena = a
  BY NoFrameType DEF NoFrame, FrameType, Others
<1>2. \/ x = [y EXCEPT !.deletes = TRUE, !.keeps = FALSE] /\ a # Scratch
      \/ x = [y EXCEPT !.deletes = FALSE, !.keeps = TRUE]
  BY DEF EndFrame
<1> HIDE DEF y
<1> QED
  BY <1>1, <1>2 DEF FrameType, Ends

LEMMA DestroyArenaKeeps ==
    ASSUME IInv, NEW t \in Tasks, NEW a \in handles, DestroyArena(t, a)
    PROVE  IInv'
<1> DEFINE d == deletes(a)
           k == keeps(a)
           x == EndFrame(a, d, k)
           r == <<x>> \o stack[t]
           s == [stack EXCEPT ![t] = <<x>> \o @]
           w == Unregistered(a)
<1>1. /\ Callable(t) /\ arenas' = unregister(arenas, a)
      /\ handles' = handles \ {a} /\ Want(t, w, s) /\ UNCHANGED <<arena, exists, purges, polls>>
  BY DEF DestroyArena, pollVars, EndFrame
<1>2. a \in Arenas
  BY DEF IInv, Owned
<1>3. \/ d = TRUE /\ k = FALSE /\ a # Scratch
      \/ d = FALSE /\ k = TRUE
  BY <1>2, Deletes
<1>4. wanted' = w
  BY <1>1 DEF Want
<1>5. ArenasAgree' /\ PurgesAgree'
  BY <1>1, <1>2, <1>4, ArenaDropped DEF IInv
<1>6. DOMAIN w = DOMAIN wanted \ {a}
  BY WantedFacts
<1> HIDE DEF d, k, w
<1>7. \/ x = EndFrame(a, TRUE, FALSE) /\ a # Scratch
      \/ x = EndFrame(a, FALSE, TRUE)
  BY <1>3, Zenon
<1> HIDE DEF x
<1>8. x \in FrameType /\ x.pc = "end" /\ x.kind = "none" /\ x.arena = a
  BY <1>2, <1>7, EndFrames
<1>9. Ends(x)
  BY <1>2, <1>7, EndFrames
<1>10. FrameOK(x, wanted)
  BY <1>8, <1>9, PlainFrame DEF Others
<1>11. StackOK(r, wanted) /\ r # << >> /\ r[1] = x /\ Hand(stack[t]) = {}
  BY <1>1, <1>10, TopFacts, PushOK
<1>12. s = [u \in Tasks |-> IF u = t THEN r ELSE stack[u]]
  BY DEF IInv, Stacks
<1> HIDE DEF r, s
<1>13. Hand(r) = {a}
  BY <1>8, <1>11 DEF Hand
<1>14. s = [u \in Tasks |-> s[u]] /\ \A u \in Tasks : StackOK(s[u], wanted)
  BY <1>11, <1>12, TopFacts
<1>15. s[t] # << >> => s[t][1].pc # "reset"
  BY <1>8, <1>11, <1>12
<1>16. Stacks' /\ \A u \in Tasks : Hand(stack'[u]) = Hand(s[u])
  BY <1>1, <1>14, <1>15, WantStep
<1>17. \A u \in Tasks : Hand(stack'[u]) = IF u = t THEN {a} ELSE Hand(stack[u])
  BY <1>12, <1>13, <1>16
<1>18. \A u \in Tasks : a \notin Hand(stack[u])
  BY DEF IInv, Owned
<1>19. Owned'
  <2>1. \A b : (b \in exists' <=> b \in handles' \/ \E u \in Tasks : b \in Hand(stack'[u]))
    BY <1>1, <1>11, <1>17 DEF IInv, Owned
  <2>2. \A u \in Tasks : Hand(stack'[u]) \cap handles' = {}
    BY <1>1, <1>17 DEF IInv, Owned
  <2>3. \A u, v \in Tasks : u # v => Hand(stack'[u]) \cap Hand(stack'[v]) = {}
    BY <1>17, <1>18 DEF IInv, Owned
  <2>4. /\ handles' \subseteq Arenas /\ Scratch \in exists'
        /\ Arenas \cap DOMAIN wanted' \subseteq handles' \cup {Scratch}
    BY <1>1, <1>4, <1>6 DEF IInv, Owned
  <2> QED
    BY <2>1, <2>2, <2>3, <2>4 DEF Owned
<1> QED
  BY <1>1, <1>5, <1>16, <1>19, SameValues DEF IInv

-----------------------------------------------------------------------------
(* The invariant is inductive.                                             *)

LEMMA EmptyTableOK ==
    ASSUME NEW n \in Nat
    PROVE  /\ TableOK(EmptyTable(n), n)
           /\ \A i \in 1..n : EmptyTable(n)[i].key = NoKey
  BY DEF TableOK, EmptyTable, FreeSlot

LEMMA InitHolds == Init => IInv
<1> SUFFICES ASSUME Init PROVE IInv
  OBVIOUS
<1>1. PICK got \in BOOLEAN, bytes \in Bytes :
         /\ arena = [a \in Arenas |-> IF a = Scratch THEN begin(NewArena, bytes, got)
                                      ELSE NewArena]
         /\ arenas = IF got THEN register(EmptyTable(MaxArenas),
                                          ArenaRecord(Scratch, "ResetOnLight", FALSE))
                     ELSE EmptyTable(MaxArenas)
         /\ wanted = [a \in IF got THEN {Scratch} ELSE {} |-> Wish("ResetOnLight", FALSE)]
  BY Zenon DEF Init
<1>2. /\ exists = {External, Scratch} /\ handles = {External, Scratch} /\ purges = EmptyTable(MaxCallbacks)
      /\ polls = 0 /\ stack = [t \in Tasks |-> << >>]
  BY DEF Init
<1>3. DOMAIN wanted \subseteq {Scratch} /\ \A a \in DOMAIN wanted : wanted[a] = Wish("ResetOnLight", FALSE)
  BY <1>1
<1>4. External \in Arenas /\ Scratch \in Arenas /\ Scratch # NoKey /\ Scratch \notin Objects /\ Scratch \notin Callbacks
  BY KeyAssumption DEF Arenas
<1>5. Stacks
  <2>1. << >> \in Seq(FrameType) /\ Len(<< >>) = 0
    OBVIOUS
  <2>2. StackOK(<< >>, wanted)
    BY <2>1, SizeAssumption DEF StackOK
  <2> QED
    BY <1>2, <2>2 DEF Stacks
<1>6. ArenasAgree
  <2> DEFINE record == ArenaRecord(Scratch, "ResetOnLight", FALSE)
             empty == EmptyTable(MaxArenas)
  <2>1. /\ MaxArenas \in Nat /\ MaxArenas >= 1 /\ TableOK(empty, MaxArenas)
        /\ \A i \in 1..MaxArenas : empty[i].key = NoKey
    BY SizeAssumption, EmptyTableOK
  <2>2. /\ record.key = Scratch /\ record.policy = "ResetOnLight"
        /\ record.ownsObject = FALSE
    BY DEF ArenaRecord
  <2>3. DOMAIN empty = 1..MaxArenas
    BY DEF EmptyTable
  <2> HIDE DEF record, empty
  <2>4. CASE got
    <3>1. arenas = register(empty, record)
      BY <1>1, <2>4 DEF record, empty
    <3>2. accepts(empty, record.key)
      <4>1. 1 \in at(empty, NoKey) /\ ~has(empty, Scratch)
        BY <1>4, <2>1, <2>3 DEF at, has
      <4> QED
        BY <2>2, <4>1 DEF accepts, slotsFor
    <3>3. /\ TableOK(arenas, MaxArenas)
          /\ \E i \in 1..MaxArenas :
               /\ arenas[i] = record
               /\ empty[i].key \in {NoKey, record.key}
               /\ \A j \in (1..MaxArenas) \ {i} : arenas[j] = empty[j] /\ empty[j].key # record.key
      BY <1>4, <2>1, <2>2, <3>1, <3>2, RegisterFacts
    <3>4. PICK i \in 1..MaxArenas :
               /\ arenas[i] = record
               /\ \A j \in (1..MaxArenas) \ {i} : arenas[j] = empty[j]
      BY <3>3
    <3>5. /\ DOMAIN wanted = {Scratch} /\ wanted[Scratch] \in Wishes
          /\ wanted[Scratch].policy = "ResetOnLight" /\ wanted[Scratch].owns = FALSE
      BY <1>1, <2>4 DEF Wish, Wishes, Policies
    <3>6. ASSUME NEW j \in 1..MaxArenas, arenas[j].key # NoKey
          PROVE  arenas[j] = record
      BY <2>1, <3>4, <3>6
    <3>7. \A j \in 1..MaxArenas : arenas[j].key # NoKey =>
            /\ arenas[j].key \in Arenas \cap DOMAIN wanted
            /\ arenas[j].policy = wanted[arenas[j].key].policy
            /\ arenas[j].ownsObject = wanted[arenas[j].key].owns
      BY <1>4, <2>2, <3>5, <3>6
    <3>8. \A a \in Arenas \cap DOMAIN wanted :
            /\ wanted[a] \in Wishes /\ (a = Scratch => wanted[a].owns = FALSE)
            /\ \E j \in 1..MaxArenas : arenas[j].key = a
      BY <2>2, <3>4, <3>5
    <3> QED
      BY <3>3, <3>7, <3>8 DEF ArenasAgree
  <2>5. CASE ~got
    <3>1. arenas = empty /\ DOMAIN wanted = {}
      BY <1>1, <2>5 DEF empty
    <3>2. TableOK(arenas, MaxArenas) /\ \A i \in 1..MaxArenas : arenas[i].key = NoKey
      BY <2>1, <3>1
    <3> QED
      BY <3>1, <3>2 DEF ArenasAgree
  <2> QED
    BY <2>4, <2>5
<1>7. PurgesAgree
  <2>1. /\ TableOK(purges, MaxCallbacks)
        /\ \A i \in 1..MaxCallbacks : purges[i].key = NoKey
    BY <1>2, SizeAssumption, EmptyTableOK
  <2> QED
    BY <1>3, <1>4, <2>1 DEF PurgesAgree
<1>8. Owned
  <2>1. \A t \in Tasks : Hand(stack[t]) = {}
    BY <1>2 DEF Hand
  <2> QED
    BY <1>2, <1>3, <1>4, <2>1 DEF Owned
<1>9. Values
  <2>1. bytes \in Nat
    BY SizeAssumption
  <2>2. NewArena \in ArenaType /\ begin(NewArena, bytes, got) \in ArenaType /\ ~isReady(NewArena)
    BY <2>1 DEF NewArena, ArenaType, begin, isReady
  <2> QED
    BY <1>1, <1>2, <2>2 DEF Values
<1> QED
  BY <1>5, <1>6, <1>7, <1>8, <1>9 DEF IInv

LEMMA StepKeeps ==
    ASSUME IInv, NEW t \in Tasks, Step(t)
    PROVE  IInv'
  BY RegisterCreatedKeeps, EndArenaKeeps, AllocMoveKeeps, SnapshotArenasKeeps, ResetNextKeeps,
     SnapshotCallbacksKeeps, CallNextKeeps, PurgeReturnsKeeps, CollectEndsKeeps,
     GuardReturnsKeeps, PollCountKeeps, PollClearKeeps, PollGuardKeeps DEF Step

LEMMA RegistryCallKeeps ==
    ASSUME IInv, NEW t \in Tasks, RegistryCall(t, Policies)
    PROVE  IInv'
  BY CreateArenaKeeps, RegisterArenaKeeps, UnregisterArenaKeeps, DestroyArenaKeeps
  DEF RegistryCall

LEMMA BlockCallKeeps ==
    ASSUME IInv, NEW t \in Tasks, BlockCall(t)
    PROVE  IInv'
  BY EnsureCapacityKeeps, AllocKeeps DEF BlockCall

LEMMA NextKeeps == IInv /\ [Next]_vars => IInv'
<1> SUFFICES ASSUME IInv, [Next]_vars PROVE IInv'
  OBVIOUS
<1>1. CASE Next
  <2>1. PICK t \in Tasks :
          \/ RegistryCall(t, Policies) \/ BlockCall(t) \/ PurgeCall(t) \/ Step(t)
          \/ \E kind \in Kinds : Collect(t, kind)
          \/ Poll(t)
    BY <1>1 DEF Next
  <2>2. CASE PurgeCall(t)
    BY <2>2, RegisterPurgeCallbackKeeps, UnregisterPurgeCallbackKeeps DEF PurgeCall
  <2> QED
    BY <2>1, <2>2, RegistryCallKeeps, BlockCallKeeps, StepKeeps, CollectKeeps, PollKeeps
<1>2. CASE UNCHANGED vars
  <2>1. UNCHANGED <<arena, exists, handles, arenas, purges, wanted, polls, stack>>
    BY <1>2 DEF vars, objVars, regVars, pollVars
  <2> QED
    BY <2>1 DEF IInv, Stacks, ArenasAgree, PurgesAgree, TableOK, Owned, Values
<1> QED
  BY <1>1, <1>2

LEMMA Inductive == Spec => []IInv
<1>1. Init => IInv
  BY InitHolds
<1>2. IInv /\ [Next]_vars => IInv'
  BY NextKeeps
<1> QED
  BY <1>1, <1>2, PTL DEF Spec

-----------------------------------------------------------------------------
(* What follows.                                                           *)

LEMMA FrameFacts ==
    ASSUME IInv, NEW f \in Frames
    PROVE  /\ f[1] \in Tasks /\ f[2] \in 1..Len(stack[f[1]])
           /\ frameAt(f) = stack[f[1]][f[2]] /\ FrameOK(frameAt(f), wanted)
           /\ f[2] > 1 => frameAt(f).pc \in Waiting
<1>1. f[1] \in Tasks /\ f[2] \in DOMAIN stack[f[1]]
  BY DEF Frames
<1>2. StackOK(stack[f[1]], wanted) /\ DOMAIN stack[f[1]] = 1..Len(stack[f[1]])
  BY <1>1, TopFacts
<1> QED
  BY <1>1, <1>2 DEF frameAt, StackOK

LEMMA Holders ==
    ASSUME IInv
    PROVE  \A b : (b \in InHand <=> \E t \in Tasks : b \in Hand(stack[t]))
<1>1. ASSUME NEW b \in InHand PROVE \E t \in Tasks : b \in Hand(stack[t])
  <2>1. PICK f \in Frames : frameAt(f).pc \in {"register", "end"} /\ b = frameAt(f).arena
    BY DEF InHand
  <2>2. f[1] \in Tasks /\ f[2] = 1 /\ frameAt(f) = stack[f[1]][1] /\ f[2] \in 1..Len(stack[f[1]])
    BY <2>1, FrameFacts DEF Waiting
  <2>3. stack[f[1]] # << >>
    BY <2>2, TopFacts
  <2> QED
    BY <2>1, <2>2, <2>3 DEF Hand
<1>2. ASSUME NEW t \in Tasks, NEW b \in Hand(stack[t]) PROVE b \in InHand
  <2>1. stack[t] # << >> /\ stack[t][1].pc \in {"register", "end"} /\ b = stack[t][1].arena
    BY DEF Hand
  <2>2. 1 \in DOMAIN stack[t]
    BY <2>1, TopFacts
  <2>3. <<t, 1>> \in Frames
    BY <2>2, SizeAssumption DEF Frames
  <2>4. frameAt(<<t, 1>>) = stack[t][1]
    BY DEF frameAt
  <2> QED
    BY <2>1, <2>3, <2>4 DEF InHand
<1> QED
  BY <1>1, <1>2

\* What destroyArena does with an object is what its last registration said, or
\* what createArena promises: nobody is left with a deleted arena and no object
\* is out of everybody's hands, for every number of tasks, arenas and slots, every
\* depth of nested calls and however the arenas are registered
\* (ProtoGC.h:296-356).
THEOREM ObjectsAreExact == Spec => []ObjectsExact
<1>1. IInv => ObjectsExact
  <2> SUFFICES ASSUME IInv PROVE ObjectsExact
    OBVIOUS
  <2>1. \A b : (b \in exists <=> b \in handles \cup InHand)
    BY Holders DEF IInv, Owned
  <2>2. exists = handles \cup InHand
    BY <2>1
  <2> QED
    BY <2>2 DEF ObjectsExact, IInv, Values
<1> QED
  BY <1>1, Inductive, PTL

\* Calls of the same task, its callbacks and the collections they nest never leave
\* an arena to be reset that is gone or not registered for it: where one is, another
\* task withdrew it between the snapshot and the reset (ProtoGC.h:1074-1090).
THEOREM ResetsAreCurrent == Spec => []ResetsCurrent
<1>1. IInv => ResetsCurrent
  <2> SUFFICES ASSUME IInv, NEW f \in Frames, frameAt(f).pc = "reset"
               PROVE  pending(frameAt(f)) \ frameAt(f).raced
                        \subseteq concerns(frameAt(f).kind, wanted) \cap exists
    BY DEF ResetsCurrent
  <2>1. /\ pending(frameAt(f)) \ frameAt(f).raced \subseteq concerns(frameAt(f).kind, wanted)
        /\ pending(frameAt(f)) \subseteq Arenas
    BY FrameFacts, PendingKeys DEF FrameOK, Serves
  <2>2. Arenas \cap concerns(frameAt(f).kind, wanted) \subseteq DOMAIN wanted
    BY KeyAssumption DEF concerns
  <2>3. Arenas \cap DOMAIN wanted \subseteq exists
    BY DEF IInv, Owned
  <2> QED
    BY <2>1, <2>2, <2>3
<1> QED
  BY <1>1, Inductive, PTL

\* A collection serves what was registered for it all the time, once each, and
\* nothing that never was, whatever its callbacks and other tasks register,
\* withdraw and destroy meanwhile (ProtoGC.h:1069-1110).
THEOREM CollectIsExact == Spec => []CollectExact
<1>1. IInv => CollectExact
  <2> SUFFICES ASSUME IInv, NEW f \in Frames
               PROVE  LET x == frameAt(f)
                      IN  /\ x.pc = "reset" => Serves(x, Arenas)
                          /\ x.pc \in {"call", "inPurge"} =>
                               x.due \subseteq Callbacks /\ Serves(x, Callbacks)
    BY DEF CollectExact
  <2> QED
    BY FrameFacts DEF FrameOK
<1> QED
  BY <1>1, Inductive, PTL

-----------------------------------------------------------------------------
(* Steps that leave calls of some kind alone: those at one of the labels M. *)

Idle(s, M) == s # << >> => s[1].pc \notin M
Same(x, y) == x.pc = y.pc /\ x.arena = y.arena /\ x.block = y.block /\ x.seen = y.seen
Alike(r, s, M) ==
    \/ Idle(r, M) /\ Idle(s, M)
    \/ r # << >> /\ s # << >> /\ Same(r[1], s[1])
AllAlike(M) == \A u \in Tasks : Alike(stack[u], stack'[u], M)

AllocPcs == {"alloc"}
PollPcs == {"poll", "pollClear", "pollGuard"}

LEMMA AlikeItself == \A s, M : Alike(s, s, M)
  BY DEF Alike, Idle, Same

LEMMA OneStack ==
    ASSUME IInv, NEW t \in Tasks, NEW r, stack' = [stack EXCEPT ![t] = r]
    PROVE  \A u \in Tasks : stack'[u] = IF u = t THEN r ELSE stack[u]
  BY DEF IInv, Stacks

LEMMA SwapAlike ==
    ASSUME IInv, NEW t \in Tasks, NEW r, stack' = [stack EXCEPT ![t] = r], NEW M,
           Idle(stack[t], M), Idle(r, M)
    PROVE  AllAlike(M)
  BY OneStack, AlikeItself DEF Alike, AllAlike

LEMMA OnTop ==
    ASSUME NEW s \in Seq(FrameType), NEW x
    PROVE  <<x>> \o s # << >> /\ (<<x>> \o s)[1] = x
  OBVIOUS

LEMMA TailIdle ==
    ASSUME IInv, NEW t \in Tasks, stack[t] # << >>, NEW M, M \cap Waiting = {}
    PROVE  Idle(Tail(stack[t]), M) /\ Tail(stack[t]) \in Seq(FrameType)
<1>1. Tail(stack[t]) # << >> => Tail(stack[t])[1].pc \in Waiting
  BY TopFacts, PopOK
<1>2. Tail(stack[t]) \in Seq(FrameType)
  BY TopFacts, Popped
<1> QED
  BY <1>1, <1>2 DEF Idle

LEMMA CallableIdle ==
    ASSUME IInv, NEW t \in Tasks, Callable(t), NEW M, M \cap Waiting = {}
    PROVE  Idle(stack[t], M)
  BY TopFacts DEF Idle

LEMMA PushAlike ==
    ASSUME IInv, NEW t \in Tasks, Callable(t), NEW x, Push(t, x),
           NEW M, M \cap Waiting = {}, x.pc \notin M
    PROVE  AllAlike(M)
<1>1. <<x>> \o stack[t] # << >> /\ (<<x>> \o stack[t])[1] = x
  BY TopFacts, OnTop
<1>2. stack' = [stack EXCEPT ![t] = <<x>> \o stack[t]]
  BY DEF Push
<1>3. Idle(<<x>> \o stack[t], M)
  BY <1>1 DEF Idle
<1> QED
  BY <1>2, <1>3, CallableIdle, SwapAlike

LEMMA BecomeAlike ==
    ASSUME IInv, NEW t \in Tasks, stack[t] # << >>, NEW x, Become(t, x),
           NEW M, M \cap Waiting = {}, top(t).pc \notin M, x.pc \notin M
    PROVE  AllAlike(M)
<1>1. <<x>> \o Tail(stack[t]) # << >> /\ (<<x>> \o Tail(stack[t]))[1] = x
  BY TailIdle, OnTop
<1>2. stack' = [stack EXCEPT ![t] = <<x>> \o Tail(stack[t])]
  BY DEF Become
<1>3. Idle(<<x>> \o Tail(stack[t]), M)
  BY <1>1 DEF Idle
<1>4. Idle(stack[t], M)
  BY TopFacts DEF Idle
<1> QED
  BY <1>2, <1>3, <1>4, SwapAlike

LEMMA PopAlike ==
    ASSUME IInv, NEW t \in Tasks, stack[t] # << >>, Pop(t),
           NEW M, M \cap Waiting = {}, top(t).pc \notin M
    PROVE  AllAlike(M)
<1>1. stack' = [stack EXCEPT ![t] = Tail(stack[t])]
  BY DEF Pop
<1>2. Idle(stack[t], M)
  BY TopFacts DEF Idle
<1> QED
  BY <1>1, <1>2, TailIdle, SwapAlike

\* HeapGuard has its turn.
LEMMA GuardPollAlike ==
    ASSUME IInv, NEW t \in Tasks, stack[t] # << >>, GuardPoll(t),
           NEW M, M \cap Waiting = {}, top(t).pc \notin M
    PROVE  AllAlike(M)
<1>1. [NoFrame EXCEPT !.pc = "inGuard"].pc = "inGuard"
  BY DEF NoFrame
<1> QED
  BY <1>1, PopAlike, BecomeAlike DEF GuardPoll, Waiting

LEMMA WantAlike ==
    ASSUME NEW t, NEW s, NEW w, Want(t, w, s), NEW M,
           \A u \in Tasks : s[u] \in Seq(FrameType) /\ Alike(stack[u], s[u], M)
    PROVE  AllAlike(M)
<1>1. ASSUME NEW u \in Tasks PROVE Alike(stack[u], stack'[u], M)
  <2> DEFINE q == s[u]
             r == [i \in DOMAIN q |-> see(q[i], w, t, u)]
  <2>1. stack'[u] = r
    BY DEF Want, Observed
  <2>2. q \in Seq(FrameType) /\ Alike(stack[u], q, M)
    OBVIOUS
  <2> HIDE DEF q
  <2>3. CASE q = << >>
    <3>1. r = << >>
      BY <2>3
    <3> QED
      BY <2>1, <2>2, <2>3, <3>1
  <2>4. CASE q # << >>
    <3>1. 1 \in DOMAIN q /\ q[1] \in FrameType
      BY <2>2, <2>4
    <3>2. r[1] = see(q[1], w, t, u) /\ DOMAIN r = DOMAIN q
      BY <3>1
    <3>3. r # << >>
      BY <3>1, <3>2
    <3>4. Same(r[1], q[1])
      BY <3>1, <3>2, SeeSame DEF Same
    <3> HIDE DEF r
    <3> QED
      BY <2>1, <2>2, <2>4, <3>3, <3>4 DEF Alike, Idle, Same
  <2> QED
    BY <2>3, <2>4
<1> QED
  BY <1>1 DEF AllAlike

\* The calls of the facade that change what is registered, ...
LEMMA CallAlike ==
    ASSUME IInv, NEW t \in Tasks, NEW M, M \subseteq AllocPcs \cup PollPcs,
           \/ \E w : Want(t, w, stack)
           \/ \E a, policy : CreateArena(t, a, policy)
           \/ \E a \in handles : DestroyArena(t, a)
           \/ RegisterCreated(t)
           \/ \E kind \in Kinds : Collect(t, kind)
           \/ UNCHANGED stack
    PROVE  AllAlike(M)
<1>1. M \cap Waiting = {}
  BY DEF Waiting, AllocPcs, PollPcs
<1>2. \A u \in Tasks : stack[u] \in Seq(FrameType) /\ Alike(stack[u], stack[u], M)
  BY TopFacts, AlikeItself
<1>3. CASE \E w : Want(t, w, stack)
  BY <1>2, <1>3, WantAlike
<1>4. ASSUME NEW a, NEW policy, CreateArena(t, a, policy) PROVE AllAlike(M)
  <2>1. [NoFrame EXCEPT !.pc = "register", !.arena = a, !.policy = policy].pc = "register"
    BY DEF NoFrame
  <2>2. [NoFrame EXCEPT !.pc = "register", !.arena = a, !.policy = policy].pc \notin M
    BY <2>1 DEF AllocPcs, PollPcs
  <2> QED
    BY <1>1, <1>4, <2>2, PushAlike DEF CreateArena
<1>5. ASSUME NEW a \in handles, DestroyArena(t, a) PROVE AllAlike(M)
  <2> DEFINE x == EndFrame(a, deletes(a), keeps(a))
             r == <<x>> \o stack[t]
             s == [stack EXCEPT ![t] = r]
  <2>1. Callable(t) /\ Want(t, Unregistered(a), s)
    BY <1>5 DEF DestroyArena, EndFrame
  <2>2. a \in Arenas
    BY DEF IInv, Owned
  <2>3. \/ x = EndFrame(a, TRUE, FALSE) /\ a # Scratch
        \/ x = EndFrame(a, FALSE, TRUE)
    <3>1. \/ deletes(a) = TRUE /\ keeps(a) = FALSE /\ a # Scratch
          \/ deletes(a) = FALSE /\ keeps(a) = TRUE
      BY <2>2, Deletes
    <3> QED
      BY <3>1, Zenon
  <2> HIDE DEF x
  <2>4. x \in FrameType /\ x.pc = "end"
    BY <2>2, <2>3, EndFrames
  <2>5. r # << >> /\ r[1] = x /\ r \in Seq(FrameType)
    BY <2>4, OnTop, TopFacts, PushedOn
  <2>6. \A u \in Tasks : s[u] = IF u = t THEN r ELSE stack[u]
    BY DEF IInv, Stacks
  <2>7. Idle(r, M) /\ Idle(stack[t], M)
    BY <1>1, <2>1, <2>4, <2>5, CallableIdle DEF Idle, AllocPcs, PollPcs
  <2> HIDE DEF r, s
  <2>8. \A u \in Tasks : s[u] \in Seq(FrameType) /\ Alike(stack[u], s[u], M)
    BY <1>2, <2>5, <2>6, <2>7 DEF Alike
  <2> QED
    BY <2>1, <2>8, WantAlike
<1>6. CASE RegisterCreated(t)
  <2> DEFINE r == Tail(stack[t])
             s == [stack EXCEPT ![t] = r]
  <2>1. stack[t] # << >> /\ top(t).pc = "register" /\ \E w : Want(t, w, s)
    BY <1>6 DEF RegisterCreated, At
  <2>2. Idle(r, M) /\ r \in Seq(FrameType)
    BY <1>1, <2>1, TailIdle
  <2>3. Idle(stack[t], M)
    BY <2>1, TopFacts DEF Idle, AllocPcs, PollPcs
  <2>4. \A u \in Tasks : s[u] = IF u = t THEN r ELSE stack[u]
    BY DEF IInv, Stacks
  <2> HIDE DEF r, s
  <2>5. \A u \in Tasks : s[u] \in Seq(FrameType) /\ Alike(stack[u], s[u], M)
    BY <1>2, <2>2, <2>3, <2>4 DEF Alike
  <2> QED
    BY <2>1, <2>5, WantAlike
<1>7. ASSUME NEW kind \in Kinds, Collect(t, kind) PROVE AllAlike(M)
  <2> DEFINE x == [NoFrame EXCEPT !.pc = "arenas", !.kind = kind,
                     !.due = concerns(kind, wanted), !.was = concerns(kind, wanted)]
  <2>1. x.pc = "arenas"
    BY DEF NoFrame
  <2>2. Callable(t) /\ Push(t, x)
    BY <1>7 DEF Collect
  <2> HIDE DEF x
  <2>3. x.pc \notin M
    BY <2>1 DEF AllocPcs, PollPcs
  <2> QED
    BY <1>1, <2>2, <2>3, PushAlike
<1>8. CASE UNCHANGED stack
  BY <1>2, <1>8 DEF AllAlike
<1> QED
  BY <1>3, <1>4, <1>5, <1>6, <1>7, <1>8

\* ... and the steps of collections.
LEMMA CollectionAlike ==
    ASSUME IInv, NEW t \in Tasks, NEW M, M \subseteq AllocPcs \cup PollPcs,
           \/ SnapshotArenas(t) \/ ResetNext(t) \/ SnapshotCallbacks(t) \/ CallNext(t)
           \/ PurgeReturns(t) \/ CollectEnds(t) \/ GuardReturns(t) \/ EndArena(t)
    PROVE  AllAlike(M)
<1> DEFINE y == top(t)
<1>0. M \cap Waiting = {} /\ M \cap (Collecting \cup {"end"}) = {}
  BY DEF Waiting, Collecting, AllocPcs, PollPcs
<1>1. stack[t] # << >> => y \in FrameType
  BY TopFacts
<1>2. ASSUME NEW x, stack[t] # << >>, Become(t, x), y.pc \in Collecting, x.pc \in Collecting
      PROVE  AllAlike(M)
  BY <1>0, <1>2, BecomeAlike
<1>3. CASE SnapshotArenas(t)
  <2> DEFINE x == [y EXCEPT !.pc = "reset", !.todo = arenasToReset(y.kind)]
  <2>1. stack[t] # << >> /\ y.pc = "arenas" /\ Become(t, x)
    BY <1>3 DEF SnapshotArenas, At
  <2>2. x.pc = "reset"
    BY <1>1, <2>1 DEF FrameType
  <2> HIDE DEF x, y
  <2> QED
    BY <1>2, <2>1, <2>2 DEF Collecting
<1>4. CASE ResetNext(t)
  <2> DEFINE a == first(y.todo)
             x == [y EXCEPT !.todo = rest(@), !.due = @ \ {a}, !.raced = @ \ {a}]
  <2>1. stack[t] # << >> /\ y.pc = "reset" /\ Become(t, x)
    BY <1>4 DEF ResetNext, At
  <2>2. x.pc = "reset"
    BY <1>1, <2>1 DEF FrameType
  <2> HIDE DEF x, y
  <2> QED
    BY <1>2, <2>1, <2>2 DEF Collecting
<1>5. CASE SnapshotCallbacks(t)
  <2> DEFINE f == [y EXCEPT !.pc = "call", !.todo = callbacksToCall(y.kind)]
             x == [f EXCEPT !.was = @ \cap pending(f)]
  <2>1. stack[t] # << >> /\ y.pc = "reset" /\ Become(t, x)
    BY <1>5 DEF SnapshotCallbacks, At
  <2>2. x.pc = "call"
    BY <1>1, <2>1 DEF FrameType
  <2> HIDE DEF x, y
  <2> QED
    BY <1>2, <2>1, <2>2 DEF Collecting
<1>6. CASE CallNext(t)
  <2> DEFINE k == first(y.todo)
             x == [y EXCEPT !.pc = "inPurge", !.todo = rest(@), !.due = @ \ {k}, !.was = @ \ {k}]
  <2>1. stack[t] # << >> /\ y.pc = "call" /\ Become(t, x)
    BY <1>6 DEF CallNext, At
  <2>2. x.pc = "inPurge"
    BY <1>1, <2>1 DEF FrameType
  <2> HIDE DEF x, y
  <2> QED
    BY <1>2, <2>1, <2>2 DEF Collecting
<1>7. CASE PurgeReturns(t)
  <2> DEFINE x == [y EXCEPT !.pc = "call"]
  <2>1. stack[t] # << >> /\ y.pc = "inPurge" /\ Become(t, x)
    BY <1>7 DEF PurgeReturns, At
  <2>2. x.pc = "call"
    BY <1>1, <2>1 DEF FrameType
  <2> HIDE DEF x, y
  <2> QED
    BY <1>2, <2>1, <2>2 DEF Collecting
<1>8. CASE CollectEnds(t)
  <2>1. stack[t] # << >> /\ y.pc = "call" /\ (Pop(t) \/ GuardPoll(t))
    BY <1>8 DEF CollectEnds, At
  <2>2. y.pc \notin M
    BY <1>0, <2>1 DEF Collecting
  <2> QED
    BY <1>0, <2>1, <2>2, PopAlike, GuardPollAlike
<1>9. CASE GuardReturns(t)
  BY <1>0, <1>9, PopAlike DEF GuardReturns, At, Waiting
<1>10. CASE EndArena(t)
  BY <1>0, <1>10, PopAlike DEF EndArena, At
<1> QED
  BY <1>3, <1>4, <1>5, <1>6, <1>7, <1>8, <1>9, <1>10

\* An alloc does not poll and a poll does not alloc.
LEMMA AllocAlike ==
    ASSUME IInv, NEW t \in Tasks,
           \/ \E a \in handles, request \in Requests : Alloc(t, a, request)
           \/ AllocMove(t)
    PROVE  AllAlike(PollPcs)
<1>1. PollPcs \cap Waiting = {} /\ "alloc" \notin PollPcs
  BY DEF Waiting, PollPcs
<1>2. ASSUME NEW a \in handles, NEW request \in Requests, Alloc(t, a, request)
      PROVE  AllAlike(PollPcs)
  <2> DEFINE x == AllocFrame(a, block(arena[a], request[1], request[2]))
  <2>1. Callable(t) /\ Push(t, x)
    BY <1>2 DEF Alloc, AllocFrame
  <2>2. x.pc = "alloc"
    BY DEF AllocFrame, NoFrame
  <2> HIDE DEF x
  <2> QED
    BY <1>1, <2>1, <2>2, PushAlike
<1>3. CASE AllocMove(t)
  BY <1>1, <1>3, PopAlike DEF AllocMove, At
<1> QED
  BY <1>2, <1>3

LEMMA PollAlike ==
    ASSUME IInv, NEW t \in Tasks, Poll(t) \/ PollCount(t) \/ PollClear(t) \/ PollGuard(t)
    PROVE  AllAlike(AllocPcs)
<1>1. AllocPcs \cap Waiting = {} /\ AllocPcs \cap PollPcs = {}
  BY DEF Waiting, AllocPcs, PollPcs
<1>2. CASE Poll(t)
  <2>1. [NoFrame EXCEPT !.pc = "poll", !.seen = polls].pc \notin AllocPcs
    BY DEF NoFrame, AllocPcs
  <2> QED
    BY <1>1, <1>2, <2>1, PushAlike DEF Poll
<1>3. CASE PollCount(t)
  <2>1. /\ stack[t] # << >> /\ top(t).pc \notin AllocPcs
        /\ Pop(t) \/ Become(t, [NoFrame EXCEPT !.pc = "pollClear"])
    BY <1>3 DEF PollCount, At, AllocPcs
  <2>2. [NoFrame EXCEPT !.pc = "pollClear"].pc \notin AllocPcs
    BY DEF NoFrame, AllocPcs
  <2> QED
    BY <1>1, <2>1, <2>2, PopAlike, BecomeAlike
<1>4. CASE PollClear(t)
  <2>1. /\ stack[t] # << >> /\ top(t).pc \notin AllocPcs
        /\ Become(t, [NoFrame EXCEPT !.pc = "pollGuard"])
    BY <1>4 DEF PollClear, At, AllocPcs
  <2>2. [NoFrame EXCEPT !.pc = "pollGuard"].pc \notin AllocPcs
    BY DEF NoFrame, AllocPcs
  <2> QED
    BY <1>1, <2>1, <2>2, BecomeAlike
<1>5. CASE PollGuard(t)
  <2>1. stack[t] # << >> /\ top(t).pc \notin AllocPcs /\ GuardPoll(t)
    BY <1>5 DEF PollGuard, At, AllocPcs
  <2> QED
    BY <1>1, <2>1, GuardPollAlike
<1> QED
  BY <1>2, <1>3, <1>4, <1>5

-----------------------------------------------------------------------------
(* The blocks an arena has handed out.                                     *)

\* What is asked of arenas is far from the end of size_t, which alloc adds up
\* without a test, with an alignment other than zero.
PlainRequests ==
    \A r \in Requests : \A n \in Bytes : effective(r[2]) # 0 /\ n + effective(r[2]) + r[1] <= Word

\* The blocks g lie one above the other up to the offset, and it in the buffer.
Laid(m, g) ==
    m.ready = TRUE =>
      /\ m.capacity \in Bytes /\ m.offset <= m.capacity
      /\ \A i \in 1..Len(g) : g[i].hi <= m.offset
      /\ \A i, j \in 1..Len(g) : i < j => g[i].hi <= g[j].lo
      /\ m.offset = IF g = << >> THEN 0 ELSE g[Len(g)].hi

\* The block a call has placed is still free: resets only make more room.
Placed(m, b) ==
    /\ m.ready = TRUE /\ b \in BlockType
    /\ m.offset <= b.lo /\ b.lo <= b.hi /\ b.hi <= m.capacity

\* The arena a call is about to take its block from.
Taking(s) == IF s # << >> /\ s[1].pc \in AllocPcs THEN {s[1].arena} ELSE {}

Layout ==
    /\ given \in [Arenas -> Seq(BlockType)]
    /\ \A a \in Arenas : Laid(arena[a], given[a])
    /\ \A a \in Arenas \ exists : given[a] = << >>
    /\ \A u \in Tasks : \A a \in Taking(stack[u]) :
         a \in handles /\ Placed(arena[a], stack[u][1].block)
    /\ \A u, v \in Tasks : u # v => Taking(stack[u]) \cap Taking(stack[v]) = {}

LEMMA AlikeTaking ==
    ASSUME NEW r, NEW s, Alike(s, r, AllocPcs)
    PROVE  Taking(r) = Taking(s) /\ (Taking(s) # {} => r[1].block = s[1].block)
  BY DEF Alike, Idle, Same, Taking

LEMMA NotInUse ==
    ASSUME IInv, NEW a, ~InUse(a)
    PROVE  \A u \in Tasks : a \notin Taking(stack[u])
<1> SUFFICES ASSUME NEW u \in Tasks, a \in Taking(stack[u]) PROVE FALSE
  OBVIOUS
<1>1. stack[u] # << >> /\ stack[u][1].pc \in AllocPcs /\ stack[u][1].arena = a
  BY DEF Taking
<1>2. 1 \in DOMAIN stack[u]
  BY <1>1, TopFacts
<1> QED
  BY <1>1, <1>2 DEF InUse, AllocPcs

\* No arena changes.
LEMMA LayoutStays ==
    ASSUME Layout, AllAlike(AllocPcs), UNCHANGED <<arena, given>>, exists \subseteq exists',
           \A u \in Tasks : Taking(stack[u]) \subseteq handles'
    PROVE  Layout'
<1>1. arena' = arena /\ given' = given
  OBVIOUS
<1>2. \A u \in Tasks : /\ Taking(stack'[u]) = Taking(stack[u])
                       /\ Taking(stack[u]) # {} => stack'[u][1].block = stack[u][1].block
  BY AlikeTaking DEF AllAlike
<1>3. \A a \in Arenas : Laid(arena'[a], given'[a])
  BY <1>1 DEF Layout, Laid
<1>4. ASSUME NEW u \in Tasks, NEW a \in Taking(stack'[u])
      PROVE  a \in handles' /\ Placed(arena'[a], stack'[u][1].block)
  <2>1. a \in Taking(stack[u]) /\ stack'[u][1].block = stack[u][1].block
    BY <1>2
  <2>2. Placed(arena[a], stack[u][1].block)
    BY <2>1 DEF Layout
  <2> QED
    BY <1>1, <2>1, <2>2 DEF Placed
<1> QED
  BY <1>1, <1>2, <1>3, <1>4 DEF Layout

\* An arena is emptied: no call has placed a block in it or it is only reset.
LEMMA LayoutEmptied ==
    ASSUME Layout, AllAlike(AllocPcs), NEW b \in Arenas, NEW v,
           arena \in [Arenas -> ArenaType], handles \subseteq Arenas,
           arena' = [arena EXCEPT ![b] = v], given' = [given EXCEPT ![b] = << >>],
           v.ready = TRUE => v.capacity \in Bytes /\ v.offset = 0,
           \/ \A u \in Tasks : b \notin Taking(stack[u])
           \/ v = reset(arena[b]),
           exists \subseteq exists' \cup {b},
           \A u \in Tasks : Taking(stack[u]) \subseteq handles'
    PROVE  Layout'
<1>1. /\ \A a \in Arenas \ {b} : arena'[a] = arena[a] /\ given'[a] = given[a]
      /\ arena'[b] = v /\ given'[b] = << >> /\ given' \in [Arenas -> Seq(BlockType)]
  BY DEF Layout
<1>2. \A u \in Tasks : /\ Taking(stack'[u]) = Taking(stack[u])
                       /\ Taking(stack[u]) # {} => stack'[u][1].block = stack[u][1].block
  BY AlikeTaking DEF AllAlike
<1>3. ASSUME NEW a \in Arenas PROVE Laid(arena'[a], given'[a])
  <2>1. CASE a = b
    <3>1. Len(<< >>) = 0 /\ \A n \in Bytes : 0 <= n
      BY SizeAssumption
    <3> QED
      BY <1>1, <2>1, <3>1 DEF Laid
  <2>2. CASE a # b
    BY <1>1, <2>2 DEF Layout, Laid
  <2> QED
    BY <2>1, <2>2
<1>4. ASSUME NEW u \in Tasks, NEW a \in Taking(stack'[u])
      PROVE  a \in handles' /\ Placed(arena'[a], stack'[u][1].block)
  <2>1. a \in Taking(stack[u]) /\ stack'[u][1].block = stack[u][1].block /\ a \in handles'
    BY <1>2
  <2>2. Placed(arena[a], stack[u][1].block)
    BY <2>1 DEF Layout
  <2>3. CASE a = b
    <3>1. v = reset(arena[b]) /\ arena[b] \in ArenaType
      BY <2>1, <2>3
    <3>2. v.ready = arena[b].ready /\ v.capacity = arena[b].capacity /\ v.offset = 0
      BY <3>1 DEF reset, ArenaType
    <3>3. stack[u][1].block.lo \in Nat
      BY <2>2 DEF Placed, BlockType
    <3>4. arena'[b].ready = TRUE
      BY <1>1, <2>2, <2>3, <3>2, Zenon DEF Placed
    <3> QED
      BY <1>1, <2>1, <2>2, <2>3, <3>2, <3>3, <3>4 DEF Placed
  <2>4. CASE a # b
    <3>1. a \in Arenas
      BY <2>1 DEF Layout
    <3> QED
      BY <1>1, <2>1, <2>2, <2>4, <3>1 DEF Placed
  <2> QED
    BY <2>3, <2>4
<1>5. \A a \in Arenas \ exists' : given'[a] = << >>
  BY <1>1 DEF Layout
<1> QED
  BY <1>1, <1>2, <1>3, <1>4, <1>5 DEF Layout

\* alloc places its block above the others.
LEMMA AllocPlaces ==
    ASSUME PlainRequests, NEW m \in ArenaType, NEW g, Laid(m, g), NEW request \in Requests,
           fits(m, request[1], request[2])
    PROVE  Placed(m, block(m, request[1], request[2]))
<1> DEFINE n == request[1]
           e == effective(request[2])
           b == block(m, n, request[2])
<1>1. n \in Nat /\ request[2] \in Nat /\ m.offset \in Nat /\ m.capacity \in Nat
  BY SizeAssumption DEF ArenaType
<1>2. e \in Nat
  BY <1>1 DEF effective, PowersOfTwo
<1>3. m.ready = TRUE
  BY DEF fits, isReady, ArenaType
<1>4. m.capacity \in Bytes /\ m.offset <= m.capacity
  BY <1>3 DEF Laid
<1>5. e # 0 /\ m.capacity + e + n <= Word
  BY <1>4 DEF PlainRequests
<1>6. m.offset + e + n <= Word
  <2> HIDE DEF e, n
  <2> QED
    BY <1>1, <1>2, <1>4, <1>5, WordAssumption
<1>7. Plain(m, n, request[2])
  BY <1>5, <1>6 DEF Plain
<1>8. m.offset <= b.lo /\ b.hi = b.lo + n /\ b.hi <= m.capacity
  BY <1>1, <1>7, AllocIsSound DEF AllocSound
<1>9. b \in BlockType
  BY <1>1, BlockTypes
<1> HIDE DEF b, n
<1>10. b.lo <= b.hi
  BY <1>1, <1>8, <1>9 DEF BlockType
<1> QED
  BY <1>3, <1>8, <1>9, <1>10 DEF Placed, b, n

\* And the offset moves to its end.
LEMMA MoveLays ==
    ASSUME NEW m \in ArenaType, NEW g \in Seq(BlockType), Laid(m, g), NEW b, Placed(m, b)
    PROVE  Laid(move(m, b), Append(g, b)) /\ Append(g, b) \in Seq(BlockType)
<1> DEFINE h == Append(g, b)
           y == move(m, b)
<1>1. /\ m.offset \in Nat /\ m.capacity \in Bytes /\ m.capacity \in Nat /\ m.capacity < Word
      /\ b \in BlockType /\ b.lo \in Nat /\ b.hi \in Nat
      /\ m.offset <= b.lo /\ b.lo <= b.hi /\ b.hi <= m.capacity
  BY SizeAssumption, WordAssumption DEF Placed, Laid, BlockType, ArenaType
<1>2. b.hi % Word = b.hi
  BY <1>1, WordAssumption, BelowWord
<1>3. y.ready = m.ready /\ y.capacity = m.capacity /\ y.offset = b.hi
  BY <1>2 DEF move, ArenaType
<1>4. /\ h \in Seq(BlockType) /\ Len(h) = Len(g) + 1 /\ Len(g) \in Nat /\ h # << >>
      /\ h[Len(h)] = b /\ \A i \in 1..Len(g) : h[i] = g[i] /\ g[i] \in BlockType
  BY <1>1
<1> HIDE DEF h, y
<1>5. \A i \in 1..Len(g) : g[i].hi \in Nat /\ g[i].hi <= m.offset
  BY <1>4 DEF Placed, Laid, BlockType
<1>6. \A i, j \in 1..Len(g) : i < j => g[i].hi <= g[j].lo
  BY DEF Placed, Laid
<1>7. ASSUME NEW i \in 1..Len(h) PROVE h[i].hi <= b.hi
  <2>1. CASE i = Len(h)
    BY <1>1, <1>4, <2>1
  <2>2. CASE i # Len(h)
    BY <1>1, <1>4, <1>5, <2>2
  <2> QED
    BY <2>1, <2>2
<1>8. ASSUME NEW i \in 1..Len(h), NEW j \in 1..Len(h), i < j PROVE h[i].hi <= h[j].lo
  <2>0. i \in 1..Len(g)
    BY <1>4, <1>8
  <2>1. CASE j = Len(h)
    BY <1>1, <1>4, <1>5, <2>0, <2>1
  <2>2. CASE j # Len(h)
    BY <1>4, <1>6, <1>8, <2>0, <2>2
  <2> QED
    BY <2>1, <2>2
<1> QED
  BY <1>1, <1>3, <1>4, <1>7, <1>8 DEF Laid, h, y

LEMMA AllocLayout ==
    ASSUME IInv, Layout, PlainRequests, NEW t \in Tasks, NEW a \in handles,
           NEW request \in Requests, Alloc(t, a, request)
    PROVE  Layout'
<1> DEFINE b == block(arena[a], request[1], request[2])
           x == AllocFrame(a, b)
           r == <<x>> \o stack[t]
<1>1. /\ Callable(t) /\ stack' = [stack EXCEPT ![t] = r] /\ ~InUse(a)
      /\ fits(arena[a], request[1], request[2]) /\ UNCHANGED <<arena, exists, given, handles>>
  BY DEF Alloc, Push, AllocFrame, objVars
<1>2. a \in Arenas /\ arena[a] \in ArenaType /\ Laid(arena[a], given[a])
  BY DEF IInv, Owned, Values, Layout
<1>3. Placed(arena[a], b)
  BY <1>1, <1>2, AllocPlaces
<1> HIDE DEF b
<1>4. x.pc = "alloc" /\ x.arena = a /\ x.block = b
  BY <1>2, <1>3, AllocFrames DEF Placed
<1> HIDE DEF x
<1>5. r # << >> /\ r[1] = x
  BY TopFacts, OnTop
<1>6. \A u \in Tasks : stack'[u] = IF u = t THEN r ELSE stack[u]
  BY <1>1, OneStack
<1> HIDE DEF r
<1>7. Taking(stack'[t]) = {a} /\ stack'[t][1].block = b
  BY <1>4, <1>5, <1>6 DEF Taking, AllocPcs
<1>8. \A u \in Tasks : a \notin Taking(stack[u])
  BY <1>1, NotInUse
<1>9. \A u, v \in Tasks : u # v => Taking(stack'[u]) \cap Taking(stack'[v]) = {}
  <2> SUFFICES ASSUME NEW u \in Tasks, NEW v \in Tasks, u # v
               PROVE  Taking(stack'[u]) \cap Taking(stack'[v]) = {}
    OBVIOUS
  <2>1. CASE u = t \/ v = t
    BY <1>6, <1>7, <1>8, <2>1
  <2>2. CASE u # t /\ v # t
    BY <1>6, <2>2 DEF Layout
  <2> QED
    BY <2>1, <2>2
<1>10. ASSUME NEW u \in Tasks, NEW c \in Taking(stack'[u])
       PROVE  c \in handles /\ Placed(arena[c], stack'[u][1].block)
  BY <1>3, <1>6, <1>7 DEF Layout
<1> QED
  BY <1>1, <1>9, <1>10 DEF Layout

LEMMA AllocMoveLayout ==
    ASSUME IInv, Layout, NEW t \in Tasks, AllocMove(t)
    PROVE  Layout'
<1> DEFINE a == top(t).arena
           b == top(t).block
           r == Tail(stack[t])
           g == Append(given[a], b)
<1>1. /\ stack[t] # << >> /\ top(t).pc = "alloc" /\ stack' = [stack EXCEPT ![t] = r]
      /\ arena' = [arena EXCEPT ![a] = move(@, b)] /\ given' = [given EXCEPT ![a] = g]
      /\ UNCHANGED <<exists, handles>>
  BY DEF AllocMove, At, Pop
<1>2. Taking(stack[t]) = {a} /\ stack[t][1].block = b
  BY <1>1, TopFacts DEF Taking, AllocPcs
<1>3. a \in handles /\ Placed(arena[a], b)
  BY <1>2 DEF Layout
<1>4. a \in Arenas /\ a \in exists /\ arena[a] \in ArenaType
  BY <1>3 DEF IInv, Owned, Values
<1>5. Laid(move(arena[a], b), g) /\ g \in Seq(BlockType)
  BY <1>3, <1>4, MoveLays DEF Layout
<1>6. Taking(r) = {}
  <2>1. AllocPcs \cap Waiting = {}
    BY DEF AllocPcs, Waiting
  <2> QED
    BY <1>1, <2>1, TailIdle DEF Idle, Taking
<1>7. \A u \in Tasks : stack'[u] = IF u = t THEN r ELSE stack[u]
  BY <1>1, OneStack
<1>8. \A u \in Tasks \ {t} : a \notin Taking(stack[u])
  BY <1>2 DEF Layout
<1> HIDE DEF a, b, r, g
<1>9. /\ \A c \in Arenas \ {a} : arena'[c] = arena[c] /\ given'[c] = given[c]
      /\ arena'[a] = move(arena[a], b) /\ given'[a] = g /\ given' \in [Arenas -> Seq(BlockType)]
  BY <1>1, <1>4, <1>5 DEF Layout, IInv, Values
<1>10. \A c \in Arenas : Laid(arena'[c], given'[c])
  BY <1>5, <1>9 DEF Layout
<1>11. \A c \in Arenas \ exists' : given'[c] = << >>
  BY <1>1, <1>4, <1>9 DEF Layout
<1>12. \A u, v \in Tasks : u # v => Taking(stack'[u]) \cap Taking(stack'[v]) = {}
  BY <1>6, <1>7 DEF Layout
<1>13. ASSUME NEW u \in Tasks, NEW c \in Taking(stack'[u])
       PROVE  c \in handles' /\ Placed(arena'[c], stack'[u][1].block)
  <2>1. u # t /\ stack'[u] = stack[u] /\ c # a
    BY <1>6, <1>7, <1>8
  <2>2. c \in handles /\ c \in Arenas /\ Placed(arena[c], stack[u][1].block)
    BY <2>1 DEF Layout, IInv, Owned
  <2> QED
    BY <1>1, <1>9, <2>1, <2>2
<1> QED
  BY <1>9, <1>10, <1>11, <1>12, <1>13 DEF Layout

LEMMA EmptyingLayout ==
    ASSUME IInv, Layout, NEW t \in Tasks,
           \/ \E a \in handles, bytes \in Bytes, got \in BOOLEAN : EnsureCapacity(t, a, bytes, got)
           \/ \E a \in Objects \ exists, policy \in Policies : CreateArena(t, a, policy)
           \/ ResetNext(t) \/ EndArena(t)
    PROVE  Layout'
<1>1. arena \in [Arenas -> ArenaType] /\ handles \subseteq Arenas
  BY DEF IInv, Owned, Values
<1>2. \A u \in Tasks : Taking(stack[u]) \subseteq handles
  BY DEF Layout
<1>3. ASSUME NEW a \in handles, NEW bytes \in Bytes, NEW got \in BOOLEAN,
             EnsureCapacity(t, a, bytes, got)
      PROVE  Layout'
  <2> DEFINE v == ensureCapacity(arena[a], bytes, got)
  <2>1. /\ ~InUse(a) /\ arena' = [arena EXCEPT ![a] = v] /\ given' = [given EXCEPT ![a] = << >>]
        /\ UNCHANGED <<exists, handles, stack>>
    BY <1>3 DEF EnsureCapacity
  <2>2. AllAlike(AllocPcs)
    BY <2>1, CallAlike
  <2>3. v.ready = TRUE => v.capacity \in Bytes /\ v.offset = 0
    <3>1. arena[a] \in ArenaType /\ Laid(arena[a], given[a])
      BY <1>1 DEF Layout
    <3>2. CASE isReady(arena[a]) /\ arena[a].capacity >= bytes
      <4>1. arena[a].ready = TRUE
        BY <3>1, <3>2 DEF isReady, ArenaType
      <4>2. v = reset(arena[a]) /\ arena[a].capacity \in Bytes
        BY <3>1, <3>2, <4>1 DEF ensureCapacity, Laid
      <4> QED
        BY <3>1, <4>2 DEF reset, ArenaType
    <3>3. CASE ~(isReady(arena[a]) /\ arena[a].capacity >= bytes)
      <4>1. v = begin(arena[a], bytes, got)
        BY <3>3 DEF ensureCapacity
      <4>2. CASE got
        BY <4>1, <4>2 DEF begin
      <4>3. CASE ~got
        BY <3>1, <4>1, <4>3 DEF begin, ArenaType
      <4> QED
        BY <4>2, <4>3
    <3> QED
      BY <3>2, <3>3
  <2>4. \A u \in Tasks : a \notin Taking(stack[u])
    BY <2>1, NotInUse
  <2> HIDE DEF v
  <2> QED
    BY <1>1, <1>2, <2>1, <2>2, <2>3, <2>4, LayoutEmptied
<1>4. ASSUME NEW a \in Objects \ exists, NEW policy \in Policies, CreateArena(t, a, policy)
      PROVE  Layout'
  <2>1. PICK bytes \in Bytes : arena' = [arena EXCEPT ![a] = begin(NewArena, bytes, TRUE)]
    BY <1>4 DEF CreateArena
  <2>2. exists' = exists \cup {a} /\ given' = given /\ handles' = handles
    BY <1>4 DEF CreateArena
  <2>3. a \in Arenas /\ a \notin handles
    BY DEF IInv, Owned, Arenas
  <2>4. given' = [given EXCEPT ![a] = << >>]
    BY <2>2, <2>3 DEF Layout
  <2>5. AllAlike(AllocPcs)
    BY <1>4, CallAlike
  <2> DEFINE v == begin(NewArena, bytes, TRUE)
  <2>6. v.ready = TRUE => v.capacity \in Bytes /\ v.offset = 0
    BY DEF begin
  <2> HIDE DEF v
  <2> QED
    BY <1>1, <1>2, <2>1, <2>2, <2>3, <2>4, <2>5, <2>6, LayoutEmptied DEF v
<1>5. CASE ResetNext(t)
  <2> DEFINE a == first(top(t).todo)
  <2>1. /\ stack[t] # << >> /\ top(t).pc = "reset" /\ pending(top(t)) # {}
        /\ arena' = [arena EXCEPT ![a] = reset(arena[a])] /\ given' = [given EXCEPT ![a] = << >>]
        /\ UNCHANGED <<exists, handles>>
    BY <1>5 DEF ResetNext, At
  <2>2. FrameOK(top(t), wanted) /\ top(t).todo \in Todos
    BY <2>1, TopFacts DEF FrameType
  <2>3. Serves(top(t), Arenas) /\ keysOf(top(t).todo) # {}
    BY <2>1, <2>2, PendingKeys DEF FrameOK
  <2>4. a \in keysOf(top(t).todo)
    BY <2>2, <2>3, TodoFacts DEF Serves, Single
  <2>5. a \in Arenas
    BY <2>3, <2>4, PendingKeys DEF Serves
  <2> HIDE DEF a
  <2>6. AllAlike(AllocPcs)
    BY <1>5, CollectionAlike
  <2> DEFINE v == reset(arena[a])
  <2>7. v.ready = TRUE => v.capacity \in Bytes /\ v.offset = 0
    <3>1. arena[a] \in ArenaType /\ Laid(arena[a], given[a])
      BY <1>1, <2>5 DEF Layout
    <3>2. v.ready = arena[a].ready /\ v.capacity = arena[a].capacity /\ v.offset = 0
      BY <3>1 DEF reset, ArenaType
    <3>3. v.ready = TRUE => arena[a].ready = TRUE
      BY <3>2, Zenon
    <3> QED
      BY <3>1, <3>2, <3>3 DEF Laid
  <2>8. v = reset(arena[a]) /\ arena' = [arena EXCEPT ![a] = v]
    BY <2>1
  <2> HIDE DEF v
  <2> QED
    BY <1>1, <1>2, <2>1, <2>5, <2>6, <2>7, <2>8, LayoutEmptied
<1>6. CASE EndArena(t)
  <2> DEFINE a == top(t).arena
             v == end(arena[a])
  <2>1. /\ stack[t] # << >> /\ top(t).pc = "end" /\ exists \subseteq exists' \cup {a}
        /\ arena' = [arena EXCEPT ![a] = v] /\ given' = [given EXCEPT ![a] = << >>]
        /\ handles \subseteq handles'
    BY <1>6 DEF EndArena, At
  <2>2. a \in Arenas /\ Hand(stack[t]) = {a}
    BY <2>1, TopFacts DEF FrameType, Hand
  <2>3. a \notin handles
    BY <2>2 DEF IInv, Owned
  <2>4. AllAlike(AllocPcs)
    BY <1>6, CollectionAlike
  <2>5. v.ready = TRUE => v.capacity \in Bytes /\ v.offset = 0
    BY DEF end, NewArena
  <2> HIDE DEF a, v
  <2> QED
    BY <1>1, <1>2, <2>1, <2>2, <2>3, <2>4, <2>5, LayoutEmptied
<1> QED
  BY <1>3, <1>4, <1>5, <1>6

\* The other steps leave the arenas alone.
LEMMA OtherLayout ==
    ASSUME IInv, Layout, NEW t \in Tasks,
           \/ \E a \in handles \cup {Scratch}, policy \in Policies :
                \E owns \in Owners(a) : RegisterArena(t, a, policy, owns)
           \/ \E a \in Arenas : UnregisterArena(t, a)
           \/ \E a \in handles : DestroyArena(t, a)
           \/ RegisterCreated(t) \/ PurgeCall(t)
           \/ \E kind \in Kinds : Collect(t, kind)
           \/ SnapshotArenas(t) \/ SnapshotCallbacks(t) \/ CallNext(t)
           \/ PurgeReturns(t) \/ CollectEnds(t) \/ GuardReturns(t)
           \/ Poll(t) \/ PollCount(t) \/ PollClear(t) \/ PollGuard(t)
    PROVE  Layout'
<1>0. \A u \in Tasks : Taking(stack[u]) \subseteq handles
  BY DEF Layout
<1>1. ASSUME UNCHANGED objVars, AllAlike(AllocPcs) PROVE Layout'
  BY <1>0, <1>1, LayoutStays DEF objVars
<1>2. ASSUME UNCHANGED objVars, NEW w, Want(t, w, stack) PROVE Layout'
  BY <1>1, <1>2, CallAlike
<1>3. ASSUME NEW a \in handles \cup {Scratch}, NEW policy \in Policies, NEW owns \in Owners(a),
             RegisterArena(t, a, policy, owns)
      PROVE  Layout'
  BY <1>2, <1>3 DEF RegisterArena
<1>4. ASSUME NEW a \in Arenas, UnregisterArena(t, a) PROVE Layout'
  BY <1>2, <1>4 DEF UnregisterArena
<1>5. ASSUME NEW a \in handles, DestroyArena(t, a) PROVE Layout'
  <2>1. ~InUse(a) /\ handles' = handles \ {a} /\ UNCHANGED <<arena, exists, given>>
    BY <1>5 DEF DestroyArena
  <2>2. \A u \in Tasks : Taking(stack[u]) \subseteq handles'
    BY <1>0, <2>1, NotInUse
  <2> QED
    BY <1>5, <2>1, <2>2, CallAlike, LayoutStays
<1>6. CASE RegisterCreated(t)
  <2>1. handles \subseteq handles' /\ UNCHANGED <<arena, exists, given>>
    BY <1>6 DEF RegisterCreated
  <2> QED
    BY <1>0, <1>6, <2>1, CallAlike, LayoutStays
<1>7. CASE PurgeCall(t)
  BY <1>2, <1>7 DEF PurgeCall, RegisterPurgeCallback, UnregisterPurgeCallback
<1>8. ASSUME NEW kind \in Kinds, Collect(t, kind) PROVE Layout'
  BY <1>1, <1>8, CallAlike DEF Collect
<1>9. CASE SnapshotArenas(t) \/ SnapshotCallbacks(t) \/ CallNext(t)
           \/ PurgeReturns(t) \/ CollectEnds(t) \/ GuardReturns(t)
  <2>1. AllAlike(AllocPcs)
    BY <1>9, CollectionAlike
  <2>2. UNCHANGED objVars
    BY <1>9 DEF SnapshotArenas, SnapshotCallbacks, CallNext, PurgeReturns, CollectEnds, GuardReturns
  <2> QED
    BY <1>1, <2>1, <2>2
<1>10. CASE Poll(t) \/ PollCount(t) \/ PollClear(t) \/ PollGuard(t)
  <2>1. AllAlike(AllocPcs)
    BY <1>10, PollAlike
  <2>2. UNCHANGED objVars
    BY <1>10 DEF Poll, PollCount, PollClear, PollGuard
  <2> QED
    BY <1>1, <2>1, <2>2
<1> QED
  BY <1>3, <1>4, <1>5, <1>6, <1>7, <1>8, <1>9, <1>10

LEMMA LayoutStep == IInv /\ PlainRequests /\ Layout /\ [Next]_vars => Layout'
<1> SUFFICES ASSUME IInv, PlainRequests, Layout, [Next]_vars PROVE Layout'
  OBVIOUS
<1>1. CASE Next
  <2>1. PICK t \in Tasks :
          \/ RegistryCall(t, Policies) \/ BlockCall(t) \/ PurgeCall(t) \/ Step(t)
          \/ \E kind \in Kinds : Collect(t, kind)
          \/ Poll(t)
    BY <1>1 DEF Next
  <2>2. CASE RegistryCall(t, Policies)
    BY <2>2, EmptyingLayout, OtherLayout DEF RegistryCall
  <2>3. CASE BlockCall(t)
    BY <2>3, EmptyingLayout, AllocLayout DEF BlockCall
  <2>4. CASE Step(t)
    BY <2>4, EmptyingLayout, OtherLayout, AllocMoveLayout DEF Step
  <2> QED
    BY <2>1, <2>2, <2>3, <2>4, OtherLayout
<1>2. CASE UNCHANGED vars
  <2>1. stack' = stack /\ UNCHANGED <<arena, exists, given, handles>>
    BY <1>2 DEF vars, objVars
  <2>2. AllAlike(AllocPcs)
    BY <2>1, AlikeItself DEF AllAlike
  <2>3. \A u \in Tasks : Taking(stack[u]) \subseteq handles
    BY DEF Layout
  <2> QED
    BY <2>1, <2>2, <2>3, LayoutStays
<1> QED
  BY <1>1, <1>2

LEMMA LayoutInit == Init => Layout
<1> SUFFICES ASSUME Init PROVE Layout
  OBVIOUS
<1>1. /\ given = [a \in Arenas |-> << >>] /\ stack = [t \in Tasks |-> << >>]
      /\ \E got \in BOOLEAN, bytes \in Bytes :
           arena = [a \in Arenas |-> IF a = Scratch THEN begin(NewArena, bytes, got) ELSE NewArena]
  BY DEF Init
<1>2. \A u \in Tasks : Taking(stack[u]) = {}
  BY <1>1 DEF Taking
<1>3. ASSUME NEW a \in Arenas PROVE Laid(arena[a], << >>)
  <2>1. Len(<< >>) = 0 /\ \A n \in Bytes : 0 <= n
    BY SizeAssumption
  <2>2. arena[a].ready = TRUE => arena[a].capacity \in Bytes /\ arena[a].offset = 0
    BY <1>1 DEF begin, NewArena
  <2> QED
    BY <2>1, <2>2 DEF Laid
<1>4. given \in [Arenas -> Seq(BlockType)]
  BY <1>1
<1> QED
  BY <1>1, <1>2, <1>3, <1>4 DEF Layout

LEMMA LayoutHolds == Spec => [](PlainRequests => Layout)
<1> DEFINE J == PlainRequests => Layout
<1>1. Init => J
  BY LayoutInit
<1>2. IInv /\ J /\ [Next]_vars => J'
  BY LayoutStep DEF PlainRequests
<1> HIDE DEF J
<1>3. Spec => []J
  BY <1>1, <1>2, Inductive, PTL DEF Spec
<1> QED
  BY <1>3 DEF J

\* Every block handed out since the last reset lies in the buffer, whatever
\* collections reset the arena in the middle of an alloc and whatever its buffer
\* is changed to, for requests far from the end of size_t (ArenaAllocator.h:44-87).
THEOREM BlocksStayInside == Spec => [](PlainRequests => BlocksInside)
<1>1. IInv /\ (PlainRequests => Layout) => (PlainRequests => BlocksInside)
  <2> SUFFICES ASSUME IInv, Layout, NEW a \in Arenas, isReady(arena[a]),
                      NEW i \in DOMAIN given[a]
               PROVE  given[a][i].hi <= arena[a].capacity
    BY DEF BlocksInside
  <2>1. arena[a] \in ArenaType /\ given[a] \in Seq(BlockType) /\ Laid(arena[a], given[a])
    BY DEF IInv, Values, Layout
  <2>2. arena[a].ready = TRUE /\ i \in 1..Len(given[a])
    BY <2>1 DEF isReady, ArenaType
  <2>3. given[a][i] \in BlockType
    BY <2>1, <2>2
  <2>4. given[a][i].hi \in Nat
    BY <2>3 DEF BlockType
  <2> QED
    BY <2>1, <2>2, <2>4 DEF Laid, ArenaType
<1> QED
  BY <1>1, Inductive, LayoutHolds, PTL

\* Every block handed out since the last reset lies above those before it, and the
\* free part behind the last, though a collection may reset the arena between the
\* read and the write of an alloc and a begin may fail, for the same requests
\* (ArenaAllocator.h:44-106).
THEOREM BlocksStayApart == Spec => [](PlainRequests => BlocksApart)
<1>1. IInv /\ (PlainRequests => Layout) => (PlainRequests => BlocksApart)
  <2> SUFFICES ASSUME IInv, Layout, NEW a \in Arenas, isReady(arena[a])
               PROVE  /\ \A i, j \in DOMAIN given[a] : i < j => given[a][i].hi <= given[a][j].lo
                      /\ arena[a].offset =
                           IF given[a] = << >> THEN 0 ELSE given[a][Len(given[a])].hi
    BY DEF BlocksApart
  <2>1. arena[a] \in ArenaType /\ given[a] \in Seq(BlockType) /\ Laid(arena[a], given[a])
    BY DEF IInv, Values, Layout
  <2>2. arena[a].ready = TRUE /\ DOMAIN given[a] = 1..Len(given[a])
    BY <2>1 DEF isReady, ArenaType
  <2> QED
    BY <2>1, <2>2 DEF Laid
<1> QED
  BY <1>1, Inductive, LayoutHolds, PTL

-----------------------------------------------------------------------------
(* How long HeapGuard may go without its turn.                             *)

PollersOf(s) == {t \in Tasks : s[t] # << >> /\ s[t][1].pc = "poll"}
CheckersOf(s) == {t \in Tasks : s[t] # << >> /\ s[t][1].pc = "pollClear"}
GuardsOf(s) == {t \in Tasks : s[t] # << >> /\ s[t][1].pc = "pollGuard"}
SeenOf(s) == [t \in Tasks |-> s[t][1].seen]

\* There are no three tasks.
Two == \A a, b, c \in Tasks : a = b \/ b = c \/ a = c

\* With the counter at p and n polls unchecked, the tasks P between reading
\* the counter and writing it, the tasks C between writing it and clearing it,
\* and what each of P has read: the l counts no reader can undo any more stand
\* for at most D - 1 lost ones each, ...
Bounded(p, n, P, seen) ==
    \E l \in 0..p :
      /\ \A t \in P : l <= seen[t]
      /\ n <= Divider + l * (Divider - 1) + p
      /\ n <= Divider + l * (Divider - 1) + (Divider - 1)

\* ... and a counter past the divider has a task that is about to clear it, but
\* for one who read it late and then writes it once more.
Cadence(p, n, P, C, seen) ==
    /\ p \in 0..(CounterWord - 1) /\ n \in Nat
    /\ P \subseteq Tasks /\ C \subseteq Tasks /\ P \cap C = {}
    /\ \A t \in P : seen[t] \in 0..(CounterWord - 1)
    /\ n <= Divider * Divider
    /\ Bounded(p, n, P, seen)
    /\ \A t, v \in P : t # v => p = seen[t] \/ p = seen[v]
    /\ p >= Divider => C # {}
    /\ p > Divider => n < Divider \/ C = Tasks
    /\ \A t \in P : seen[t] >= Divider => \E v \in Tasks \ {t} :
         \/ v \in C
         \/ n <= p /\ p < Divider /\ (v \in P => seen[v] = p)
    /\ \A t \in P : seen[t] > Divider => n < Divider

LEMMA Sizes ==
    /\ Divider \in Nat /\ Divider >= 1 /\ CounterWord \in Nat /\ CounterWord >= Divider + 2
    /\ Divider * Divider \in Nat /\ Divider <= Divider * Divider
    /\ Divider * (Divider + 1) = Divider * Divider + Divider
<1>1. /\ Divider \in Nat /\ Divider >= 1 /\ CounterWord \in Nat /\ CounterWord >= Divider + 2
  BY SizeAssumption
<1>2. \A d \in Nat : d * (d + 1) = d * d + d
  OBVIOUS
<1>3. \A d \in Nat : d >= 1 => d * d \in Nat /\ d <= d * d
  <2> SUFFICES ASSUME NEW d \in Nat, d >= 1 PROVE d * d \in Nat /\ d <= d * d
    OBVIOUS
  <2>1. PICK e \in Nat : d = e + 1
    <3>1. d - 1 \in Nat /\ d = (d - 1) + 1
      OBVIOUS
    <3> QED
      BY <3>1
  <2>2. d * d = e * e + 2 * e + 1 /\ e * e \in Nat
    BY <2>1
  <2> QED
    BY <2>1, <2>2
<1> QED
  BY <1>1, <1>2, <1>3

\* The bound grows with l, by D - 1 for each, and ends at D * D.
LEMMA Rows ==
    ASSUME NEW l \in Nat, NEW m \in Nat
    PROVE  /\ l * (Divider - 1) \in Nat
           /\ l <= m => l * (Divider - 1) <= m * (Divider - 1)
           /\ (l + 1) * (Divider - 1) = l * (Divider - 1) + (Divider - 1)
           /\ 0 * (Divider - 1) = 0
           /\ l + 2 <= Divider => Divider + l * (Divider - 1) + Divider <= Divider * Divider
<1> DEFINE e == Divider - 1
<1>1. e \in Nat /\ Divider = e + 1
  BY Sizes
<1> HIDE DEF e
<1>2. \A a, b \in Nat : a <= b => a * e <= b * e
  <2> SUFFICES ASSUME NEW a \in Nat, NEW b \in Nat, a <= b PROVE a * e <= b * e
    OBVIOUS
  <2>1. PICK c \in Nat : b = a + c
    <3>1. b - a \in Nat /\ b = a + (b - a)
      OBVIOUS
    <3> QED
      BY <3>1
  <2>2. b * e = a * e + c * e /\ c * e \in Nat /\ a * e \in Nat
    BY <1>1, <2>1
  <2> QED
    BY <2>2
<1>3. l * e \in Nat /\ (l + 1) * e = l * e + e /\ 0 * e = 0
  BY <1>1
<1>4. l <= m => l * e <= m * e
  BY <1>2
<1>5. l + 2 <= Divider => Divider + l * e + Divider <= Divider * Divider
  <2> SUFFICES ASSUME l + 2 <= Divider PROVE Divider + l * e + Divider <= Divider * Divider
    OBVIOUS
  <2>1. PICK f \in Nat : e = f + 1
    <3>1. e - 1 \in Nat /\ e = (e - 1) + 1
      BY <1>1
    <3> QED
      BY <3>1
  <2>2. l <= f
    BY <1>1, <2>1
  <2>3. l * e <= f * e
    BY <1>2, <2>2
  <2>4. f * e = f * f + f /\ f * f \in Nat
    BY <2>1
  <2>5. Divider * Divider = f * f + 4 * f + 4
    BY <1>1, <2>1
  <2> QED
    BY <1>1, <1>3, <2>1, <2>3, <2>4, <2>5
<1> QED
  BY <1>3, <1>4, <1>5 DEF e

-----------------------------------------------------------------------------
(* The steps that move the counter.                                        *)

LEMMA Fresh == Cadence(0, 0, {}, {}, SeenOf(stack))
<1>1. Bounded(0, 0, {}, SeenOf(stack))
  <2>1. 0 \in 0..0 /\ 0 * (Divider - 1) = 0
    BY Rows
  <2> QED
    BY <2>1, Sizes DEF Bounded
<1> QED
  BY <1>1, Sizes DEF Cadence

\* HeapGuard's turn in between only helps.
LEMMA Cleared ==
    ASSUME NEW p, NEW n, NEW P, NEW C, NEW seen, Cadence(p, n, P, C, seen)
    PROVE  Cadence(p, 0, P, C, seen)
<1>1. PICK l \in 0..p :
        /\ \A t \in P : l <= seen[t]
        /\ n <= Divider + l * (Divider - 1) + p
        /\ n <= Divider + l * (Divider - 1) + (Divider - 1)
  BY DEF Cadence, Bounded
<1>2. p \in Nat /\ l \in Nat /\ n \in Nat /\ l * (Divider - 1) \in Nat
  BY Rows DEF Cadence
<1>3. Bounded(p, 0, P, seen)
  <2> DEFINE row == l * (Divider - 1)
  <2>1. 0 <= Divider + row + p /\ 0 <= Divider + row + (Divider - 1)
    <3> HIDE DEF row
    <3> QED
      BY <1>2, Sizes DEF row
  <2> QED
    BY <1>1, <2>1 DEF Bounded

<1>4. \A t \in P : seen[t] >= Divider => \E v \in Tasks \ {t} :
         \/ v \in C
         \/ 0 <= p /\ p < Divider /\ (v \in P => seen[v] = p)
  BY <1>2 DEF Cadence
<1> QED
  BY <1>2, <1>3, <1>4, Sizes DEF Cadence

\* A task reads the counter.
LEMMA Reads ==
    ASSUME Two, NEW p, NEW n, NEW P, NEW C, NEW seen, Cadence(p, n, P, C, seen),
           NEW t \in Tasks, t \notin P, t \notin C,
           NEW after, after[t] = p, \A v \in P : after[v] = seen[v]
    PROVE  Cadence(p, n, P \cup {t}, C, after)
<1> DEFINE Q == P \cup {t}
<1>1. PICK l \in 0..p :
        /\ \A v \in P : l <= seen[v]
        /\ n <= Divider + l * (Divider - 1) + p
        /\ n <= Divider + l * (Divider - 1) + (Divider - 1)
  BY DEF Cadence, Bounded
<1>2. \A v \in Q : l <= after[v]
  BY <1>1
<1>3. Bounded(p, n, Q, after)
  BY <1>1, <1>2 DEF Bounded
<1>4. \A v, w \in Q : v # w => p = after[v] \/ p = after[w]
  BY DEF Two, Cadence
<1>5. \A v \in Q : after[v] > Divider => n < Divider
  BY DEF Cadence
<1>6. ASSUME NEW v \in Q, after[v] >= Divider
      PROVE  \E w \in Tasks \ {v} :
               \/ w \in C
               \/ n <= p /\ p < Divider /\ (w \in Q => after[w] = p)
  <2>1. CASE v = t
    BY <1>6, <2>1 DEF Cadence
  <2>2. CASE v # t
    <3>1. PICK w \in Tasks \ {v} :
            \/ w \in C
            \/ n <= p /\ p < Divider /\ (w \in P => seen[w] = p)
      BY <1>6, <2>2 DEF Cadence
    <3> QED
      BY <3>1
  <2> QED
    BY <2>1, <2>2
<1>7. /\ p \in 0..(CounterWord - 1) /\ n \in Nat
      /\ Q \subseteq Tasks /\ C \subseteq Tasks /\ Q \cap C = {}
      /\ \A v \in Q : after[v] \in 0..(CounterWord - 1)
      /\ n <= Divider * Divider
      /\ p >= Divider => C # {}
      /\ p > Divider => n < Divider \/ C = Tasks
  BY DEF Cadence
<1> HIDE DEF Q
<1>8. Cadence(p, n, Q, C, after)
  BY <1>3, <1>4, <1>5, <1>6, <1>7 DEF Cadence
<1> QED
  BY <1>8 DEF Q

\* A task counts on: from what it has read, and back to 0 from the last value.
LEMMA Counts ==
    ASSUME Two, NEW p, NEW n, NEW P, NEW C, NEW seen, Cadence(p, n, P, C, seen),
           NEW t \in P, NEW q, q = (seen[t] + 1) % CounterWord, q < Divider
    PROVE  Cadence(q, n + 1, P \ {t}, C, seen)
<1> DEFINE a == seen[t]
           Q == P \ {t}
<1>1. /\ a \in 0..(CounterWord - 1) /\ p \in Nat /\ n \in Nat /\ Divider \in Nat /\ Divider >= 1
      /\ CounterWord \in Nat /\ CounterWord >= Divider + 2
  BY Sizes DEF Cadence
<1>2. /\ P \subseteq Tasks /\ C \subseteq Tasks /\ Q \cap C = {} /\ t \in Tasks /\ t \notin C
      /\ \A v \in Q : seen[v] \in 0..(CounterWord - 1)
  BY DEF Cadence
<1>3. \A v, w \in Q : v = w
  BY <1>2 DEF Two
<1>4. PICK l \in 0..p :
        /\ \A v \in P : l <= seen[v]
        /\ n <= Divider + l * (Divider - 1) + p
        /\ n <= Divider + l * (Divider - 1) + (Divider - 1)
  BY DEF Cadence, Bounded
<1>5. \A v \in Q : seen[v] >= Divider => n <= p /\ p < Divider /\ a = p
  <2> SUFFICES ASSUME NEW v \in Q, seen[v] >= Divider PROVE n <= p /\ p < Divider /\ a = p
    OBVIOUS
  <2>1. PICK w \in Tasks \ {v} :
          \/ w \in C
          \/ n <= p /\ p < Divider /\ (w \in P => seen[w] = p)
    BY DEF Cadence
  <2>2. w = t
    BY <1>2, <2>1 DEF Two
  <2> QED
    BY <1>2, <2>1, <2>2
<1>6. CASE a + 1 < CounterWord
  <2>1. q = a + 1
    BY <1>1, <1>6
  <2>2. a + 2 <= Divider /\ l <= a /\ l \in Nat /\ a \in Nat
    BY <1>1, <1>4, <2>1
  <2>3. /\ l * (Divider - 1) \in Nat /\ a * (Divider - 1) \in Nat
        /\ l * (Divider - 1) <= a * (Divider - 1)
        /\ Divider + a * (Divider - 1) + Divider <= Divider * Divider
        /\ (a + 1) * (Divider - 1) = a * (Divider - 1) + (Divider - 1)
    BY <2>2, Rows
  <2>4. n + 1 <= Divider * Divider
    <3> DEFINE r1 == l * (Divider - 1)
               r2 == a * (Divider - 1)
               dd == Divider * Divider
    <3>1. r1 \in Nat /\ r2 \in Nat /\ dd \in Nat /\ r1 <= r2 /\ Divider + r2 + Divider <= dd
      BY <2>3, Sizes
    <3>2. n <= Divider + r1 + (Divider - 1)
      BY <1>4
    <3> HIDE DEF r1, r2, dd
    <3>3. n + 1 <= dd
      BY <1>1, <3>1, <3>2
    <3> QED
      BY <3>3 DEF dd
  <2>5. Bounded(q, n + 1, Q, seen)
    <3>1. CASE \A v \in Q : a + 1 <= seen[v]
      <4> DEFINE r1 == l * (Divider - 1)
                 r2 == a * (Divider - 1)
                 r3 == (a + 1) * (Divider - 1)
      <4>1. r1 \in Nat /\ r2 \in Nat /\ r1 <= r2 /\ r3 = r2 + (Divider - 1)
        BY <2>3
      <4>2. n <= Divider + r1 + (Divider - 1)
        BY <1>4
      <4> HIDE DEF r1, r2, r3
      <4>3. n + 1 <= Divider + r3 + (a + 1) /\ n + 1 <= Divider + r3 + (Divider - 1)
        BY <1>1, <2>2, <4>1, <4>2
      <4>4. a + 1 \in 0..q
        BY <2>1, <2>2
      <4> QED
        BY <2>1, <3>1, <4>3, <4>4 DEF Bounded, r3
    <3>2. CASE \E v \in Q : ~(a + 1 <= seen[v])
      <4>1. PICK v \in Q : ~(a + 1 <= seen[v])
        BY <3>2
      <4> DEFINE b == seen[v]
      <4>2. b \in Nat /\ b <= a /\ l <= b
        BY <1>1, <1>2, <1>4, <4>1
      <4>3. p = a \/ p = b
        BY <4>1 DEF Cadence
      <4>4. \A w \in Q : b <= seen[w]
        <5>1. \A w \in Q : w = v
          BY <1>3
        <5> QED
          BY <4>2, <5>1
      <4> HIDE DEF b
      <4>5. /\ l * (Divider - 1) \in Nat /\ b * (Divider - 1) \in Nat
            /\ l * (Divider - 1) <= b * (Divider - 1)
        BY <2>2, <4>2, Rows
      <4> DEFINE r1 == l * (Divider - 1)
                 r2 == b * (Divider - 1)
      <4>6. r1 \in Nat /\ r2 \in Nat /\ r1 <= r2
        BY <4>5
      <4>7. n <= Divider + r1 + p
        BY <1>4
      <4> HIDE DEF r1, r2
      <4>8. n + 1 <= Divider + r2 + (a + 1) /\ n + 1 <= Divider + r2 + (Divider - 1)
        BY <1>1, <2>2, <4>2, <4>3, <4>6, <4>7
      <4>9. b \in 0..q
        BY <2>1, <2>2, <4>2
      <4> QED
        BY <2>1, <4>4, <4>8, <4>9 DEF Bounded, r2
    <3> QED
      BY <3>1, <3>2
  <2>6. ASSUME NEW v \in Q, seen[v] >= Divider
        PROVE  n + 1 <= q /\ q < Divider
    BY <1>1, <1>5, <2>1, <2>6
  <2>7. ASSUME NEW v \in Q, seen[v] >= Divider
        PROVE  \E w \in Tasks \ {v} :
                 \/ w \in C
                 \/ n + 1 <= q /\ q < Divider /\ (w \in Q => seen[w] = q)
    <3>1. t \in Tasks \ {v} /\ t \notin Q
      BY <1>2
    <3> QED
      BY <2>6, <2>7, <3>1
  <2>8. \A v \in Q : seen[v] > Divider => n + 1 < Divider
    <3> SUFFICES ASSUME NEW v \in Q, seen[v] > Divider PROVE n + 1 < Divider
      OBVIOUS
    <3>1. n + 1 <= q /\ q < Divider
      BY <1>1, <1>2, <2>6
    <3> QED
      BY <1>1, <2>1, <2>2, <3>1
  <2>9. q \in 0..(CounterWord - 1) /\ ~(q >= Divider) /\ ~(q > Divider) /\ n + 1 \in Nat
    BY <1>1, <2>1, <2>2
  <2> HIDE DEF Q, a
  <2>10. Q \subseteq Tasks
    BY <1>2 DEF Q
  <2>11. Cadence(q, n + 1, Q, C, seen)
    BY <1>2, <1>3, <2>4, <2>5, <2>7, <2>8, <2>9, <2>10 DEF Cadence
  <2> QED
    BY <2>11 DEF Q
<1>7. CASE a + 1 = CounterWord
  <2>1. q = 0
    BY <1>1, <1>7
  <2>2. n < Divider
    BY <1>1, <1>7 DEF Cadence
  <2>3. PICK v \in Tasks \ {t} :
          \/ v \in C
          \/ n <= p /\ p < Divider /\ (v \in P => seen[v] = p)
    BY <1>1, <1>7 DEF Cadence
  <2>4. \A w \in Q : w = v
    BY <1>2, <2>3 DEF Two
  <2>5. \A w \in Q : seen[w] < Divider
    BY <1>1, <1>2, <2>3, <2>4
  <2>6. Bounded(q, n + 1, Q, seen)
    <3>1. 0 * (Divider - 1) = 0 /\ 0 \in 0..q
      BY <2>1, Rows
    <3>2. \A w \in Q : 0 <= seen[w]
      BY <1>1, <1>2
    <3> QED
      BY <1>1, <2>1, <2>2, <3>1, <3>2 DEF Bounded
  <2>7. n + 1 <= Divider * Divider
    BY <1>1, <2>2, Sizes
  <2>8. q \in 0..(CounterWord - 1) /\ ~(q >= Divider) /\ ~(q > Divider) /\ n + 1 \in Nat
    BY <1>1, <2>1
  <2>9. \A w \in Q : ~(seen[w] >= Divider) /\ ~(seen[w] > Divider)
    BY <1>1, <1>2, <2>5
  <2> HIDE DEF Q, a
  <2>10. Q \subseteq Tasks
    BY <1>2 DEF Q
  <2>11. Cadence(q, n + 1, Q, C, seen)
    BY <1>2, <1>3, <2>6, <2>7, <2>8, <2>9, <2>10 DEF Cadence
  <2> QED
    BY <2>11 DEF Q
<1> QED
  BY <1>1, <1>6, <1>7

\* A task finds the check due.
LEMMA FindsDue ==
    ASSUME Two, NEW p, NEW n, NEW P, NEW C, NEW seen, Cadence(p, n, P, C, seen),
           NEW t \in P, NEW q, q = (seen[t] + 1) % CounterWord, ~(q < Divider)
    PROVE  Cadence(q, n, P \ {t}, C \cup {t}, seen)
<1> DEFINE a == seen[t]
           Q == P \ {t}
           K == C \cup {t}
<1>1. /\ a \in 0..(CounterWord - 1) /\ p \in Nat /\ n \in Nat /\ Divider \in Nat /\ Divider >= 1
      /\ CounterWord \in Nat /\ CounterWord >= Divider + 2
  BY Sizes DEF Cadence
<1>2. /\ P \subseteq Tasks /\ C \subseteq Tasks /\ Q \cap K = {} /\ t \in Tasks
      /\ Q \subseteq Tasks /\ K \subseteq Tasks /\ t \in K
      /\ \A v \in Q : seen[v] \in 0..(CounterWord - 1)
  BY DEF Cadence
<1>3. \A v, w \in Q : v = w
  BY <1>2 DEF Two
<1>4. q = a + 1 /\ q >= Divider /\ q < CounterWord
  <2>1. CASE a + 1 = CounterWord
    <3>1. q = 0
      BY <1>1, <2>1
    <3> QED
      BY <1>1, <3>1
  <2>2. CASE a + 1 < CounterWord
    <3>1. q = a + 1
      BY <1>1, <2>2
    <3> QED
      BY <1>1, <2>2, <3>1
  <2> QED
    BY <1>1, <2>1, <2>2
<1>5. Bounded(q, n, Q, seen)
  <2>1. PICK l \in 0..p :
        /\ \A v \in P : l <= seen[v]
        /\ n <= Divider + l * (Divider - 1) + p
        /\ n <= Divider + l * (Divider - 1) + (Divider - 1)
    BY DEF Cadence, Bounded
  <2>2. l \in Nat /\ l <= a /\ l * (Divider - 1) \in Nat
    BY <1>1, <2>1, Rows
  <2>3. l \in 0..q
    BY <1>1, <1>4, <2>2
  <2> DEFINE r == l * (Divider - 1)
  <2>4. r \in Nat /\ n <= Divider + r + (Divider - 1)
    BY <2>1, <2>2
  <2> HIDE DEF r
  <2>5. n <= Divider + r + q
    BY <1>1, <1>4, <2>4
  <2> QED
    BY <2>1, <2>3, <2>4, <2>5 DEF Bounded, r
<1>6. q > Divider => n < Divider \/ K = Tasks
  <2> SUFFICES ASSUME q > Divider PROVE n < Divider \/ K = Tasks
    OBVIOUS
  <2>1. PICK v \in Tasks \ {t} :
          \/ v \in C
          \/ n <= p /\ p < Divider /\ (v \in P => seen[v] = p)
    BY <1>1, <1>4 DEF Cadence
  <2>2. CASE v \in C
    <3>1. \A w \in Tasks : w = v \/ w = t
      BY <1>2, <2>1 DEF Two
    <3> QED
      BY <1>2, <2>2, <3>1
  <2> QED
    BY <1>1, <2>1, <2>2
<1>7. \A v \in Q : seen[v] > Divider => n < Divider
  BY DEF Cadence
<1>8. n <= Divider * Divider /\ q \in 0..(CounterWord - 1)
  BY <1>1, <1>4 DEF Cadence
<1>9. \A v \in Q : t \in Tasks \ {v}
  BY <1>2
<1> HIDE DEF Q, K, a
<1>10. Cadence(q, n, Q, K, seen)
  BY <1>1, <1>2, <1>3, <1>5, <1>6, <1>7, <1>8, <1>9 DEF Cadence
<1> QED
  BY <1>10 DEF Q, K

\* A task clears the counter.
LEMMA Clears ==
    ASSUME Two, NEW p, NEW n, NEW P, NEW C, NEW seen, Cadence(p, n, P, C, seen), NEW t \in C
    PROVE  Cadence(0, 0, P, C \ {t}, seen)
<1>1. Divider \in Nat /\ Divider >= 1 /\ CounterWord \in Nat /\ CounterWord >= Divider + 2
  BY Sizes
<1>2. /\ P \subseteq Tasks /\ C \ {t} \subseteq Tasks /\ P \cap (C \ {t}) = {} /\ t \in Tasks
      /\ t \notin P /\ \A v \in P : seen[v] \in 0..(CounterWord - 1)
  BY DEF Cadence
<1>3. \A v, w \in P : v = w
  BY <1>2 DEF Two
<1>4. Bounded(0, 0, P, seen)
  <2>1. 0 * (Divider - 1) = 0 /\ 0 \in 0..0
    BY Rows
  <2>2. \A v \in P : 0 <= seen[v]
    BY <1>1, <1>2
  <2> QED
    BY <1>1, <2>1, <2>2 DEF Bounded
<1>5. 0 < Divider /\ 0 <= Divider * Divider /\ 0 \in 0..(CounterWord - 1)
  BY <1>1, Sizes
<1>6. \A v \in P : t \in Tasks \ {v}
  BY <1>2
<1> QED
  BY <1>1, <1>2, <1>3, <1>4, <1>5, <1>6 DEF Cadence

\* What tasks that are not about to count have read is of no interest.
LEMMA SeenAlike ==
    ASSUME NEW p, NEW n, NEW P, NEW C, NEW seen, Cadence(p, n, P, C, seen),
           NEW after, \A v \in P : after[v] = seen[v]
    PROVE  Cadence(p, n, P, C, after)
<1>1. Bounded(p, n, P, after)
  BY DEF Cadence, Bounded
<1>2. /\ \A t \in P : after[t] \in 0..(CounterWord - 1)
      /\ \A t, v \in P : t # v => p = after[t] \/ p = after[v]
      /\ \A t \in P : after[t] > Divider => n < Divider
  BY DEF Cadence
<1>3. ASSUME NEW t \in P, after[t] >= Divider
      PROVE  \E v \in Tasks \ {t} :
               \/ v \in C
               \/ n <= p /\ p < Divider /\ (v \in P => after[v] = p)
  BY <1>3 DEF Cadence
<1> QED
  BY <1>1, <1>2, <1>3 DEF Cadence

-----------------------------------------------------------------------------
(* The counter is cleared before HeapGuard looks: tasks D are in between.   *)

\* What another task, which is not one of them, may still add to n is bounded.
Owes(u, p, n, P, C, seen) ==
    /\ u \in P => /\ seen[u] > Divider => n < Divider
                  /\ seen[u] < Divider => n <= Divider * Divider + seen[u]
    /\ u \notin P \cup C => n <= Divider * Divider + p

\* The counter starts anew, but the polls that are unchecked are not forgotten.
Regular(p, n, P, C, D, seen) ==
    /\ D \subseteq Tasks /\ D \cap (P \cup C) = {}
    /\ n \in Nat /\ n <= Divider * Divider + (Divider - 1)
    /\ D = {} => Cadence(p, n, P, C, seen)
    /\ D # {} => /\ Cadence(p, 0, P, C, seen)
                 /\ \A u \in Tasks \ D : Owes(u, p, n, P, C, seen)

\* Between two tasks the counter is below the divider when nobody is to clear it.
LEMMA RegularReads ==
    ASSUME Two, NEW p, NEW n, NEW P, NEW C, NEW D, NEW seen, Regular(p, n, P, C, D, seen),
           NEW t \in Tasks, t \notin P, t \notin C, t \notin D,
           NEW after, after[t] = p, \A v \in P : after[v] = seen[v]
    PROVE  Regular(p, n, P \cup {t}, C, D, after)
<1> DEFINE Q == P \cup {t}
<1>1. CASE D = {}
  <2>1. Cadence(p, n, Q, C, after)
    BY <1>1, Reads DEF Regular
  <2> QED
    BY <1>1, <2>1 DEF Regular
<1>2. CASE D # {}
  <2>1. Cadence(p, 0, P, C, seen) /\ Owes(t, p, n, P, C, seen)
    BY <1>2 DEF Regular
  <2>2. Cadence(p, 0, Q, C, after)
    BY <2>1, Reads
  <2>3. \A u \in Tasks \ D : u = t
    BY <1>2 DEF Two, Regular
  <2>4. C = {}
    BY <2>1, <2>3 DEF Regular, Cadence
  <2>5. p \in Nat /\ p < Divider /\ Divider \in Nat
    BY <2>1, <2>4, Sizes DEF Cadence
  <2>6. Owes(t, p, n, Q, C, after)
    BY <2>1, <2>5 DEF Owes
  <2>7. D \cap (Q \cup C) = {}
    BY DEF Regular
  <2>8. \A u \in Tasks \ D : Owes(u, p, n, Q, C, after)
    BY <2>3, <2>6
  <2>9. D \subseteq Tasks /\ n \in Nat /\ n <= Divider * Divider + (Divider - 1)
    BY DEF Regular
  <2> HIDE DEF Q
  <2>10. Regular(p, n, Q, C, D, after)
    BY <1>2, <2>2, <2>7, <2>8, <2>9 DEF Regular
  <2> QED
    BY <2>10 DEF Q
<1> QED
  BY <1>1, <1>2

LEMMA RegularCounts ==
    ASSUME Two, NEW p, NEW n, NEW P, NEW C, NEW D, NEW seen, Regular(p, n, P, C, D, seen),
           NEW t \in P, NEW q, q = (seen[t] + 1) % CounterWord, q < Divider
    PROVE  Regular(q, n + 1, P \ {t}, C, D, seen)
<1> DEFINE Q == P \ {t}
           dd == Divider * Divider
<1>0. /\ Divider \in Nat /\ Divider >= 1 /\ CounterWord \in Nat /\ CounterWord >= Divider + 2
      /\ dd \in Nat /\ Divider <= dd /\ n \in Nat
  BY Sizes DEF Regular
<1>1. CASE D = {}
  <2>1. Cadence(q, n + 1, Q, C, seen)
    BY <1>1, Counts DEF Regular
  <2>2. n + 1 <= dd /\ n + 1 \in Nat
    BY <2>1 DEF Cadence
  <2> HIDE DEF dd
  <2>3. n + 1 <= dd + (Divider - 1)
    BY <1>0, <2>2
  <2> QED
    BY <1>1, <2>1, <2>2, <2>3 DEF Regular, dd
<1>2. CASE D # {}
  <2>1. Cadence(p, 0, P, C, seen) /\ t \in Tasks /\ t \notin D /\ t \notin C
    BY <1>2 DEF Regular, Cadence
  <2>2. Owes(t, p, n, P, C, seen)
    BY <1>2, <2>1 DEF Regular
  <2>3. Cadence(q, 0 + 1, Q, C, seen)
    BY <2>1, Counts
  <2>4. Cadence(q, 0, Q, C, seen)
    BY <2>3, Cleared
  <2>5. \A u \in Tasks \ D : u = t
    BY <1>2, <2>1 DEF Two, Regular
  <2>6. seen[t] \in 0..(CounterWord - 1)
    BY <2>1 DEF Cadence
  <2>7. n + 1 <= dd + q /\ q \in Nat
    <3>1. CASE seen[t] + 1 = CounterWord
      <4>1. q = 0 /\ seen[t] > Divider
        BY <1>0, <2>6, <3>1
      <4>2. n < Divider
        BY <2>2, <4>1 DEF Owes
      <4> HIDE DEF dd
      <4> QED
        BY <1>0, <4>1, <4>2
    <3>2. CASE seen[t] + 1 # CounterWord
      <4>1. q = seen[t] + 1
        BY <1>0, <2>6, <3>2
      <4>2. n <= dd + seen[t]
        BY <1>0, <2>2, <2>6, <4>1 DEF Owes
      <4> HIDE DEF dd
      <4> QED
        BY <1>0, <2>6, <4>1, <4>2
    <3> QED
      BY <3>1, <3>2
  <2>8. n + 1 <= dd + (Divider - 1) /\ n + 1 \in Nat
    <3> HIDE DEF dd
    <3> QED
      BY <1>0, <2>7
  <2>9. Owes(t, q, n + 1, Q, C, seen)
    BY <2>7 DEF Owes
  <2>10. D \cap (Q \cup C) = {}
    BY DEF Regular
  <2>11. \A u \in Tasks \ D : Owes(u, q, n + 1, Q, C, seen)
    BY <2>5, <2>9
  <2>12. D \subseteq Tasks
    BY DEF Regular
  <2> HIDE DEF Q
  <2>13. Regular(q, n + 1, Q, C, D, seen)
    BY <1>2, <2>4, <2>8, <2>10, <2>11, <2>12 DEF Regular
  <2> QED
    BY <2>13 DEF Q
<1> QED
  BY <1>1, <1>2

LEMMA RegularFindsDue ==
    ASSUME Two, NEW p, NEW n, NEW P, NEW C, NEW D, NEW seen, Regular(p, n, P, C, D, seen),
           NEW t \in P, NEW q, q = (seen[t] + 1) % CounterWord, ~(q < Divider)
    PROVE  Regular(q, n, P \ {t}, C \cup {t}, D, seen)
<1> DEFINE Q == P \ {t}
           K == C \cup {t}
<1>1. D \cap (Q \cup K) = {}
  BY DEF Regular
<1>2. CASE D = {}
  <2>1. Cadence(q, n, Q, K, seen)
    BY <1>2, FindsDue DEF Regular
  <2> QED
    BY <1>1, <1>2, <2>1 DEF Regular
<1>3. CASE D # {}
  <2>1. Cadence(p, 0, P, C, seen) /\ t \in Tasks /\ t \notin D
    BY <1>3 DEF Regular, Cadence
  <2>2. Cadence(q, 0, Q, K, seen)
    BY <2>1, FindsDue
  <2>3. \A u \in Tasks \ D : u = t
    BY <1>3, <2>1 DEF Two, Regular
  <2>4. Owes(t, q, n, Q, K, seen)
    BY DEF Owes
  <2>5. \A u \in Tasks \ D : Owes(u, q, n, Q, K, seen)
    BY <2>3, <2>4
  <2>6. D \subseteq Tasks /\ n \in Nat /\ n <= Divider * Divider + (Divider - 1)
    BY DEF Regular
  <2> HIDE DEF Q, K
  <2>7. Regular(q, n, Q, K, D, seen)
    BY <1>1, <1>3, <2>2, <2>5, <2>6 DEF Regular
  <2> QED
    BY <2>7 DEF Q, K
<1> QED
  BY <1>2, <1>3

\* A task clears the counter and has yet to let HeapGuard look.
LEMMA RegularClears ==
    ASSUME Two, NEW p, NEW n, NEW P, NEW C, NEW D, NEW seen, Regular(p, n, P, C, D, seen),
           NEW t \in C
    PROVE  Regular(0, n, P, C \ {t}, D \cup {t}, seen)
<1> DEFINE K == C \ {t}
           E == D \cup {t}
<1>1. t \in Tasks /\ t \notin P /\ E \subseteq Tasks /\ E \cap (P \cup K) = {} /\ E # {}
  BY DEF Regular, Cadence
<1>2. Cadence(0, 0, P, K, seen)
  BY Clears DEF Regular
<1>3. ASSUME NEW u \in Tasks \ E PROVE Owes(u, 0, n, P, K, seen)
  <2>1. D = {}
    BY <1>1 DEF Two, Regular
  <2>2. Cadence(p, n, P, C, seen)
    BY <2>1 DEF Regular
  <2>3. /\ n <= Divider * Divider /\ n \in Nat
        /\ u \in P => seen[u] \in Nat /\ (seen[u] > Divider => n < Divider)
    BY <2>2, Sizes DEF Cadence
  <2>4. Divider * Divider \in Nat
    BY Sizes
  <2> DEFINE dd == Divider * Divider
  <2>5. u \in P => n <= dd + seen[u]
    <3> HIDE DEF dd
    <3> QED
      BY <2>3, <2>4 DEF dd
  <2>6. n <= dd + 0
    <3> HIDE DEF dd
    <3> QED
      BY <2>3, <2>4 DEF dd
  <2> QED
    BY <2>3, <2>5, <2>6 DEF Owes
<1> HIDE DEF K, E
<1>4. n \in Nat /\ n <= Divider * Divider + (Divider - 1)
  BY DEF Regular
<1>5. Regular(0, n, P, K, E, seen)
  BY <1>1, <1>2, <1>3, <1>4 DEF Regular
<1> QED
  BY <1>5 DEF K, E

\* HeapGuard looks: for one of them, or for a collection.
LEMMA RegularLooks ==
    ASSUME NEW p, NEW n, NEW P, NEW C, NEW D, NEW seen, Regular(p, n, P, C, D, seen),
           NEW E, E \subseteq D
    PROVE  Regular(p, 0, P, C, E, seen)
<1>1. Cadence(p, 0, P, C, seen)
  BY Cleared DEF Regular
<1>2. Divider \in Nat /\ Divider >= 1 /\ Divider * Divider \in Nat
  BY Sizes
<1>3. p \in Nat /\ \A u \in P : seen[u] \in Nat
  BY <1>1, Sizes DEF Cadence
<1> DEFINE dd == Divider * Divider
<1>4. 0 <= dd + (Divider - 1) /\ 0 <= dd + p /\ \A u \in P : 0 <= dd + seen[u]
  <2> HIDE DEF dd
  <2> QED
    BY <1>2, <1>3 DEF dd
<1>5. \A u \in Tasks \ E : Owes(u, p, 0, P, C, seen)
  BY <1>2, <1>4 DEF Owes
<1>6. E \subseteq Tasks /\ E \cap (P \cup C) = {}
  BY DEF Regular
<1> QED
  BY <1>1, <1>4, <1>5, <1>6 DEF Regular

LEMMA RegularAlike ==
    ASSUME NEW p, NEW n, NEW P, NEW C, NEW D, NEW seen, Regular(p, n, P, C, D, seen),
           NEW after, \A v \in P : after[v] = seen[v]
    PROVE  Regular(p, n, P, C, D, after)
<1>1. CASE D = {}
  BY <1>1, SeenAlike DEF Regular
<1>2. CASE D # {}
  <2>1. Cadence(p, 0, P, C, after)
    BY <1>2, SeenAlike DEF Regular
  <2>2. \A u \in Tasks \ D : Owes(u, p, n, P, C, after)
    BY <1>2 DEF Regular, Owes
  <2> QED
    BY <1>2, <2>1, <2>2 DEF Regular
<1> QED
  BY <1>1, <1>2

-----------------------------------------------------------------------------
(* The steps of poll, and the others.                                      *)

RegularNow ==
    Two => Regular(polls, unchecked, PollersOf(stack), CheckersOf(stack), GuardsOf(stack),
                   SeenOf(stack))

LEMMA AlikeKeeps ==
    ASSUME RegularNow, AllAlike(PollPcs), polls' = polls, unchecked' \in {unchecked, 0}
    PROVE  RegularNow'
<1> DEFINE P == PollersOf(stack)
           C == CheckersOf(stack)
           D == GuardsOf(stack)
<1>1. /\ PollersOf(stack') = P /\ CheckersOf(stack') = C /\ GuardsOf(stack') = D
      /\ \A u \in P : SeenOf(stack')[u] = SeenOf(stack)[u]
  BY DEF AllAlike, Alike, Same, Idle, PollPcs, PollersOf, CheckersOf, GuardsOf, SeenOf
<1> HIDE DEF P, C, D
<1>2. ASSUME Two PROVE Regular(polls, unchecked', P, C, D, SeenOf(stack))
  BY <1>2, RegularLooks DEF RegularNow, P, C, D
<1>3. ASSUME Two PROVE Regular(polls, unchecked', P, C, D, SeenOf(stack'))
  BY <1>1, <1>2, <1>3, RegularAlike
<1> QED
  BY <1>1, <1>3 DEF RegularNow, Two

LEMMA PollRegular ==
    ASSUME IInv, RegularNow, NEW t \in Tasks, Poll(t)
    PROVE  RegularNow'
<1> DEFINE x == [NoFrame EXCEPT !.pc = "poll", !.seen = polls]
           r == <<x>> \o stack[t]
           P == PollersOf(stack)
           C == CheckersOf(stack)
           D == GuardsOf(stack)
<1>1. Callable(t) /\ stack' = [stack EXCEPT ![t] = r] /\ polls' = polls /\ unchecked' = unchecked
  BY DEF Poll, Push, pollVars
<1>2. x.pc = "poll" /\ x.seen = polls
  BY DEF NoFrame
<1> HIDE DEF x
<1>3. r # << >> /\ r[1] = x
  BY TopFacts, OnTop
<1>4. Idle(stack[t], PollPcs)
  <2>1. PollPcs \cap Waiting = {}
    BY DEF PollPcs, Waiting
  <2> QED
    BY <1>1, <2>1, CallableIdle
<1>5. \A u \in Tasks : stack'[u] = IF u = t THEN r ELSE stack[u]
  BY <1>1, OneStack
<1> HIDE DEF r
<1>6. /\ PollersOf(stack') = P \cup {t} /\ CheckersOf(stack') = C /\ GuardsOf(stack') = D
      /\ t \notin P /\ t \notin C /\ t \notin D
  BY <1>2, <1>3, <1>4, <1>5 DEF PollersOf, CheckersOf, GuardsOf, Idle, PollPcs
<1>7. SeenOf(stack')[t] = polls /\ \A v \in P : SeenOf(stack')[v] = SeenOf(stack)[v]
  BY <1>2, <1>3, <1>5, <1>6 DEF SeenOf, PollersOf
<1> HIDE DEF P, C, D
<1>8. ASSUME Two PROVE Regular(polls, unchecked, P \cup {t}, C, D, SeenOf(stack'))
  BY <1>6, <1>7, <1>8, RegularReads DEF RegularNow, P, C, D
<1> QED
  BY <1>1, <1>6, <1>8 DEF RegularNow, Two

LEMMA PollCountRegular ==
    ASSUME IInv, RegularNow, NEW t \in Tasks, PollCount(t)
    PROVE  RegularNow'
<1> DEFINE P == PollersOf(stack)
           C == CheckersOf(stack)
           D == GuardsOf(stack)
<1>1. stack[t] # << >> /\ top(t) = stack[t][1] /\ stack[t][1].pc = "poll"
  BY TopFacts DEF PollCount, At
<1>2. t \in P /\ t \notin C /\ t \notin D /\ SeenOf(stack)[t] = top(t).seen
  BY <1>1 DEF PollersOf, CheckersOf, GuardsOf, SeenOf
<1>3. polls' = (SeenOf(stack)[t] + 1) % CounterWord
  BY <1>2 DEF PollCount
<1>4. CASE countsOn(polls')
  <2> DEFINE r == Tail(stack[t])
  <2>1. stack' = [stack EXCEPT ![t] = r] /\ unchecked' = unchecked + 1 /\ polls' < Divider
    BY <1>4 DEF PollCount, Pop, countsOn
  <2>2. Idle(r, PollPcs)
    <3>1. PollPcs \cap Waiting = {}
      BY DEF PollPcs, Waiting
    <3> QED
      BY <1>1, <3>1, TailIdle
  <2>3. \A u \in Tasks : stack'[u] = IF u = t THEN r ELSE stack[u]
    BY <2>1, OneStack
  <2> HIDE DEF r
  <2>4. PollersOf(stack') = P \ {t} /\ CheckersOf(stack') = C /\ GuardsOf(stack') = D
    BY <1>2, <2>2, <2>3 DEF PollersOf, CheckersOf, GuardsOf, Idle, PollPcs
  <2>5. \A v \in P \ {t} : SeenOf(stack')[v] = SeenOf(stack)[v]
    BY <2>3 DEF SeenOf, PollersOf
  <2> HIDE DEF P, C, D
  <2>6. ASSUME Two PROVE Regular(polls', unchecked + 1, P \ {t}, C, D, SeenOf(stack))
    BY <1>2, <1>3, <2>1, <2>6, RegularCounts DEF RegularNow, P, C, D
  <2>7. ASSUME Two PROVE Regular(polls', unchecked + 1, P \ {t}, C, D, SeenOf(stack'))
    BY <2>5, <2>6, <2>7, RegularAlike
  <2> QED
    BY <2>1, <2>4, <2>7 DEF RegularNow, Two
<1>5. CASE ~countsOn(polls')
  <2> DEFINE x == [NoFrame EXCEPT !.pc = "pollClear"]
             r == <<x>> \o Tail(stack[t])
  <2>1. stack' = [stack EXCEPT ![t] = r] /\ unchecked' = unchecked /\ ~(polls' < Divider)
    BY <1>5 DEF PollCount, Become, countsOn
  <2>2. x.pc = "pollClear"
    BY DEF NoFrame
  <2> HIDE DEF x
  <2>3. r # << >> /\ r[1] = x
    BY <1>1, TopFacts, Popped, OnTop
  <2>4. \A u \in Tasks : stack'[u] = IF u = t THEN r ELSE stack[u]
    BY <2>1, OneStack
  <2> HIDE DEF r
  <2>5. PollersOf(stack') = P \ {t} /\ CheckersOf(stack') = C \cup {t} /\ GuardsOf(stack') = D
    BY <1>2, <2>2, <2>3, <2>4 DEF PollersOf, CheckersOf, GuardsOf
  <2>6. \A v \in P \ {t} : SeenOf(stack')[v] = SeenOf(stack)[v]
    BY <2>4 DEF SeenOf, PollersOf
  <2> HIDE DEF P, C, D
  <2>7. ASSUME Two PROVE Regular(polls', unchecked, P \ {t}, C \cup {t}, D, SeenOf(stack))
    BY <1>2, <1>3, <2>1, <2>7, RegularFindsDue DEF RegularNow, P, C, D
  <2>8. ASSUME Two PROVE Regular(polls', unchecked, P \ {t}, C \cup {t}, D, SeenOf(stack'))
    BY <2>6, <2>7, <2>8, RegularAlike
  <2> QED
    BY <2>1, <2>5, <2>8 DEF RegularNow, Two
<1> QED
  BY <1>4, <1>5

LEMMA PollClearRegular ==
    ASSUME IInv, RegularNow, NEW t \in Tasks, PollClear(t)
    PROVE  RegularNow'
<1> DEFINE P == PollersOf(stack)
           C == CheckersOf(stack)
           D == GuardsOf(stack)
           x == [NoFrame EXCEPT !.pc = "pollGuard"]
           r == <<x>> \o Tail(stack[t])
<1>1. /\ stack[t] # << >> /\ top(t).pc = "pollClear" /\ stack' = [stack EXCEPT ![t] = r]
      /\ polls' = 0 /\ unchecked' = unchecked
  BY DEF PollClear, At, Become
<1>2. stack[t][1].pc = "pollClear"
  BY <1>1, TopFacts
<1>3. t \in C /\ t \notin P /\ t \notin D
  BY <1>1, <1>2 DEF PollersOf, CheckersOf, GuardsOf
<1>4. x.pc = "pollGuard"
  BY DEF NoFrame
<1> HIDE DEF x
<1>5. r # << >> /\ r[1] = x
  BY <1>1, TopFacts, Popped, OnTop
<1>6. \A u \in Tasks : stack'[u] = IF u = t THEN r ELSE stack[u]
  BY <1>1, OneStack
<1> HIDE DEF r
<1>7. PollersOf(stack') = P /\ CheckersOf(stack') = C \ {t} /\ GuardsOf(stack') = D \cup {t}
  BY <1>3, <1>4, <1>5, <1>6 DEF PollersOf, CheckersOf, GuardsOf
<1>8. \A v \in P : SeenOf(stack')[v] = SeenOf(stack)[v]
  BY <1>3, <1>6 DEF SeenOf, PollersOf
<1> HIDE DEF P, C, D
<1>9. ASSUME Two PROVE Regular(0, unchecked, P, C \ {t}, D \cup {t}, SeenOf(stack))
  BY <1>3, <1>9, RegularClears DEF RegularNow, P, C, D
<1>10. ASSUME Two PROVE Regular(0, unchecked, P, C \ {t}, D \cup {t}, SeenOf(stack'))
  BY <1>8, <1>9, <1>10, RegularAlike
<1> QED
  BY <1>1, <1>7, <1>10 DEF RegularNow, Two

\* HeapGuard has its turn, and the task goes on without the counter.
LEMMA GuardPollStack ==
    ASSUME IInv, NEW t \in Tasks, stack[t] # << >>, GuardPoll(t)
    PROVE  \E r : Idle(r, PollPcs) /\ stack' = [stack EXCEPT ![t] = r]
<1>1. PollPcs \cap Waiting = {}
  BY DEF PollPcs, Waiting
<1>2. CASE Pop(t)
  BY <1>1, <1>2, TailIdle DEF Pop
<1>3. CASE Become(t, [NoFrame EXCEPT !.pc = "inGuard"])
  <2> DEFINE x == [NoFrame EXCEPT !.pc = "inGuard"]
             r == <<x>> \o Tail(stack[t])
  <2>1. x.pc = "inGuard"
    BY DEF NoFrame
  <2> HIDE DEF x
  <2>2. r # << >> /\ r[1] = x
    BY TopFacts, Popped, OnTop
  <2>3. Idle(r, PollPcs)
    BY <2>1, <2>2 DEF Idle, PollPcs
  <2>4. stack' = [stack EXCEPT ![t] = r]
    BY <1>3 DEF Become, x
  <2> QED
    BY <2>3, <2>4
<1> QED
  BY <1>2, <1>3 DEF GuardPoll

LEMMA PollGuardRegular ==
    ASSUME IInv, RegularNow, NEW t \in Tasks, PollGuard(t)
    PROVE  RegularNow'
<1> DEFINE P == PollersOf(stack)
           C == CheckersOf(stack)
           D == GuardsOf(stack)
<1>1. stack[t] # << >> /\ top(t) = stack[t][1] /\ stack[t][1].pc = "pollGuard"
  BY TopFacts DEF PollGuard, At
<1>2. t \in D /\ t \notin P /\ t \notin C
  BY <1>1 DEF PollersOf, CheckersOf, GuardsOf
<1>3. polls' = polls /\ unchecked' = 0 /\ GuardPoll(t)
  BY DEF PollGuard, GuardPoll
<1>4. PICK r : Idle(r, PollPcs) /\ stack' = [stack EXCEPT ![t] = r]
  BY <1>1, <1>3, GuardPollStack
<1>5. \A u \in Tasks : stack'[u] = IF u = t THEN r ELSE stack[u]
  BY <1>4, OneStack
<1>6. PollersOf(stack') = P /\ CheckersOf(stack') = C /\ GuardsOf(stack') = D \ {t}
  BY <1>2, <1>4, <1>5 DEF PollersOf, CheckersOf, GuardsOf, Idle, PollPcs
<1>7. \A v \in P : SeenOf(stack')[v] = SeenOf(stack)[v]
  BY <1>2, <1>5 DEF SeenOf, PollersOf
<1> HIDE DEF P, C, D
<1>8. ASSUME Two PROVE Regular(polls, 0, P, C, D \ {t}, SeenOf(stack))
  BY <1>8, RegularLooks DEF RegularNow, P, C, D
<1>9. ASSUME Two PROVE Regular(polls, 0, P, C, D \ {t}, SeenOf(stack'))
  BY <1>7, <1>8, <1>9, RegularAlike
<1> QED
  BY <1>3, <1>6, <1>9 DEF RegularNow, Two

\* All other steps leave the polls alone, though a collection lets HeapGuard look.
LEMMA OtherRegular ==
    ASSUME IInv, RegularNow, NEW t \in Tasks,
           \/ RegistryCall(t, Policies) \/ BlockCall(t) \/ PurgeCall(t)
           \/ \E kind \in Kinds : Collect(t, kind)
           \/ RegisterCreated(t) \/ EndArena(t) \/ AllocMove(t)
           \/ SnapshotArenas(t) \/ ResetNext(t) \/ SnapshotCallbacks(t) \/ CallNext(t)
           \/ PurgeReturns(t) \/ CollectEnds(t) \/ GuardReturns(t)
    PROVE  RegularNow'
<1>1. ASSUME UNCHANGED pollVars, AllAlike(PollPcs) PROVE RegularNow'
  BY <1>1, AlikeKeeps DEF pollVars
<1>2. CASE RegistryCall(t, Policies)
  <2>1. UNCHANGED pollVars
    BY <1>2 DEF RegistryCall, CreateArena, RegisterArena, UnregisterArena, DestroyArena
  <2>2. AllAlike(PollPcs)
    <3>1. \/ \E a, policy : CreateArena(t, a, policy)
          \/ \E w : Want(t, w, stack)
          \/ \E a \in handles : DestroyArena(t, a)
      BY <1>2 DEF RegistryCall, RegisterArena, UnregisterArena
    <3> QED
      BY <3>1, CallAlike
  <2> QED
    BY <1>1, <2>1, <2>2
<1>3. CASE BlockCall(t)
  <2>1. UNCHANGED pollVars
    BY <1>3 DEF BlockCall, EnsureCapacity, Alloc
  <2>2. UNCHANGED stack \/ \E a \in handles, request \in Requests : Alloc(t, a, request)
    BY <1>3 DEF BlockCall, EnsureCapacity
  <2> QED
    BY <1>1, <2>1, <2>2, CallAlike, AllocAlike
<1>4. CASE PurgeCall(t)
  <2>1. UNCHANGED pollVars /\ \E w : Want(t, w, stack)
    BY <1>4 DEF PurgeCall, RegisterPurgeCallback, UnregisterPurgeCallback
  <2> QED
    BY <1>1, <2>1, CallAlike
<1>5. CASE \E kind \in Kinds : Collect(t, kind)
  <2>1. UNCHANGED pollVars
    BY <1>5 DEF Collect
  <2> QED
    BY <1>1, <1>5, <2>1, CallAlike
<1>6. CASE RegisterCreated(t)
  <2>1. UNCHANGED pollVars
    BY <1>6 DEF RegisterCreated
  <2> QED
    BY <1>1, <1>6, <2>1, CallAlike
<1>7. CASE AllocMove(t)
  <2>1. UNCHANGED pollVars
    BY <1>7 DEF AllocMove
  <2> QED
    BY <1>1, <1>7, <2>1, AllocAlike
<1>8. CASE \/ EndArena(t) \/ SnapshotArenas(t) \/ ResetNext(t) \/ SnapshotCallbacks(t)
           \/ CallNext(t) \/ PurgeReturns(t) \/ CollectEnds(t) \/ GuardReturns(t)
  <2>1. polls' = polls /\ unchecked' \in {unchecked, 0}
    BY <1>8 DEF EndArena, SnapshotArenas, ResetNext, SnapshotCallbacks, CallNext, PurgeReturns,
                CollectEnds, GuardReturns, GuardPoll, pollVars
  <2>2. AllAlike(PollPcs)
    BY <1>8, CollectionAlike
  <2> QED
    BY <2>1, <2>2, AlikeKeeps
<1> QED
  BY <1>2, <1>3, <1>4, <1>5, <1>6, <1>7, <1>8

LEMMA RegularStep == IInv /\ RegularNow /\ [Next]_vars => RegularNow'
<1> SUFFICES ASSUME IInv, RegularNow, [Next]_vars PROVE RegularNow'
  OBVIOUS
<1>1. CASE Next
  <2>1. PICK t \in Tasks :
          \/ RegistryCall(t, Policies) \/ BlockCall(t) \/ PurgeCall(t) \/ Step(t)
          \/ \E kind \in Kinds : Collect(t, kind)
          \/ Poll(t)
    BY <1>1 DEF Next
  <2>2. CASE Step(t)
    BY <2>2, OtherRegular, PollCountRegular, PollClearRegular, PollGuardRegular DEF Step
  <2> QED
    BY <2>1, <2>2, OtherRegular, PollRegular
<1>2. CASE UNCHANGED vars
  <2>1. UNCHANGED <<stack, polls, unchecked>>
    BY <1>2 DEF vars, pollVars
  <2>2. AllAlike(PollPcs)
    BY <2>1, AlikeItself DEF AllAlike
  <2> QED
    BY <2>1, <2>2, AlikeKeeps
<1> QED
  BY <1>1, <1>2

LEMMA TwoTasks == Cardinality(Tasks) <= 2 => Two
<1> SUFFICES ASSUME Cardinality(Tasks) <= 2, NEW a \in Tasks, NEW b \in Tasks, NEW c \in Tasks,
                    a # b, b # c, a # c
             PROVE  FALSE
  BY DEF Two
<1>1. IsFiniteSet(Tasks) /\ {a, b, c} \subseteq Tasks
  BY SizeAssumption
<1>2. IsFiniteSet({a, b, c}) /\ Cardinality({a, b, c}) <= Cardinality(Tasks)
  BY <1>1, FS_Subset
<1>3. IsFiniteSet({a}) /\ Cardinality({a}) = 1
  BY FS_Singleton
<1>4. \A S, x : IsFiniteSet(S) /\ x \notin S =>
        IsFiniteSet(S \cup {x}) /\ Cardinality(S \cup {x}) = Cardinality(S) + 1
  BY FS_AddElement
<1>5. IsFiniteSet({a} \cup {b}) /\ Cardinality({a} \cup {b}) = 2
  <2>1. b \notin {a}
    OBVIOUS
  <2> QED
    BY <1>3, <1>4, <2>1
<1>6. Cardinality({a, b, c}) = 3
  <2> DEFINE S == {a} \cup {b}
  <2>1. {a, b, c} = S \cup {c} /\ c \notin S
    OBVIOUS
  <2>2. IsFiniteSet(S) /\ Cardinality(S) = 2
    BY <1>5
  <2> HIDE DEF S
  <2>3. Cardinality(S \cup {c}) = Cardinality(S) + 1
    BY <1>4, <2>1, <2>2
  <2> QED
    BY <2>1, <2>2, <2>3
<1>7. Cardinality(Tasks) \in Nat
  BY <1>1, FS_CardinalityType
<1> QED
  BY <1>2, <1>6, <1>7

\* However two tasks interleave in poll, which counts without a lock, losing
\* each other's counts and writing stale ones over a counter that was cleared,
\* HeapGuard looks at the memory before D * (D + 1) polls went by without, for
\* every divider D and every counter wide enough to pass it by two
\* (ProtoGC.h:765-773).
THEOREM GuardIsRegular == Spec => []GuardCadence
<1>1. Init => RegularNow
  <2> SUFFICES ASSUME Init PROVE RegularNow
    OBVIOUS
  <2>1. /\ PollersOf(stack) = {} /\ CheckersOf(stack) = {} /\ GuardsOf(stack) = {}
        /\ polls = 0 /\ unchecked = 0
    BY DEF Init, PollersOf, CheckersOf, GuardsOf
  <2>2. Regular(0, 0, {}, {}, {}, SeenOf(stack))
    BY Fresh, Sizes DEF Regular
  <2> QED
    BY <2>1, <2>2 DEF RegularNow
<1>2. RegularNow => GuardCadence
  <2> SUFFICES ASSUME RegularNow, Cardinality(Tasks) <= 2
               PROVE  unchecked < Divider * (Divider + 1)
    BY DEF GuardCadence
  <2>1. unchecked \in Nat /\ unchecked <= Divider * Divider + (Divider - 1)
    BY TwoTasks DEF RegularNow, Regular
  <2>2. Divider \in Nat /\ Divider * Divider \in Nat /\ Divider * (Divider + 1) = Divider * Divider + Divider
    BY Sizes
  <2> DEFINE dd == Divider * Divider
             de == Divider * (Divider + 1)
  <2>3. unchecked < de
    <3>1. unchecked <= dd + (Divider - 1) /\ de = dd + Divider /\ dd \in Nat
      BY <2>1, <2>2
    <3> HIDE DEF dd, de
    <3> QED
      BY <2>1, <2>2, <3>1
  <2> QED
    BY <2>3
<1> QED
  BY <1>1, <1>2, RegularStep, Inductive, PTL DEF Spec
=============================================================================
