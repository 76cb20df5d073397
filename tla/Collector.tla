------------------------------ MODULE Collector ------------------------------
(***************************************************************************)
(* The collections of the ProtoGC facade (src/src/ProtoGC.h) with the      *)
(* arenas and purge callbacks they act on: createArena, destroyArena and   *)
(* the registries, scratchArena, collectLight, collectFull, emergency and  *)
(* poll with HeapGuard behind it.                                          *)
(*                                                                         *)
(* A collection resets and calls from snapshots, outside the critical      *)
(* section, and callbacks call the facade again, so a task has a stack of  *)
(* frames, the top one first.  Each critical section is one step.  Draining*)
(* and trimming (DeferredFree, ManagedHeap) and compaction (Pools) touch   *)
(* nothing here; operator new, pgc_malloc and the free memory HeapGuard    *)
(* measures are external and may turn out either way.                      *)
(***************************************************************************)
EXTENDS ArenaAllocator, Registry, Sequences, FiniteSets

CONSTANTS
    Objects,      \* arenas operator new can give createArena
    External,     \* an arena object the application made with operator new
    Scratch,      \* sScratchArena
    Callbacks,    \* callback and context pairs
    Tasks,
    MaxArenas, MaxCallbacks,   \* PROTOGC_MAX_ARENAS, PROTOGC_MAX_PURGE_CALLBACKS
    Divider,      \* PROTOGC_HEAPGUARD_POLL_DIVIDER
    CounterWord,  \* 2 ^ (bits of sHeapGuardPollCounter)
    PhaseSets,    \* phase masks callbacks are registered with
    Bytes,        \* capacities of arenas
    Requests,     \* what is asked of arenas: <<bytes, alignment>>
    MaxDepth      \* bound of the model: frames on a stack

Arenas == Objects \cup {External, Scratch}
Kinds == {"light", "full", "emergency"}
Policies == {"Manual", "ResetOnLight", "ResetOnFull"}

ASSUME KeyAssumption ==
    /\ External # Scratch /\ Objects \cap {External, Scratch} = {}
    /\ Arenas \cap Callbacks = {} /\ NoKey \notin Arenas \cup Callbacks
ASSUME SizeAssumption ==
    /\ MaxArenas \in Nat \ {0} /\ MaxCallbacks \in Nat \ {0} /\ MaxDepth \in Nat \ {0}
    /\ Divider \in Nat \ {0} /\ CounterWord \in Nat /\ CounterWord > Divider + 1
    /\ IsFiniteSet(Tasks)
    /\ Bytes \subseteq 0..(Word - 1) /\ Requests \subseteq Nat \X Nat
ASSUME PhaseAssumption == {} \notin PhaseSets    \* registerPurgeCallback refuses none

VARIABLES
    arena,       \* the ArenaAllocator objects
    exists,      \* those that are constructed and not deleted
    given,       \* the blocks each has handed out since its last reset
    arenas,      \* sArenaRecords
    purges,      \* sPurgeRecords
    polls,       \* sHeapGuardPollCounter
    stack,       \* each task's calls
    handles,     \* arenas the application may use
    wanted,      \* what was registered last: arena |-> policy and owner of the
                 \* object, callback |-> phases
    unchecked    \* polls since HeapGuard looked at the memory

objVars == <<arena, exists, given, handles>>
regVars == <<arenas, purges, wanted>>
pollVars == <<polls, unchecked>>
vars == <<objVars, regVars, pollVars, stack>>

ArenaRecord(a, policy, owns) == [key |-> a, policy |-> policy, ownsObject |-> owns]
PurgeRecord(k, phases) == [key |-> k, phases |-> phases]
Wish(policy, owns) == [policy |-> policy, owns |-> owns]

\* begin has run; the scratch arena got its buffer or did without.
Init ==
    /\ \E got \in BOOLEAN, bytes \in Bytes :
         /\ arena = [a \in Arenas |-> IF a = Scratch THEN begin(NewArena, bytes, got)
                                      ELSE NewArena]
         /\ arenas = IF got THEN register(EmptyTable(MaxArenas),
                                          ArenaRecord(Scratch, "ResetOnLight", FALSE))
                     ELSE EmptyTable(MaxArenas)
         /\ wanted = [a \in IF got THEN {Scratch} ELSE {} |-> Wish("ResetOnLight", FALSE)]
    /\ exists = {External, Scratch} /\ handles = {External, Scratch}
    /\ given = [a \in Arenas |-> << >>]
    /\ purges = EmptyTable(MaxCallbacks)
    /\ polls = 0 /\ unchecked = 0
    /\ stack = [t \in Tasks |-> << >>]

-----------------------------------------------------------------------------
(* Which records a collection acts on.                                     *)

maskOf(kind) == CASE kind = "light" -> {"light"}
                  [] kind = "full" -> {"full"}
                  [] kind = "emergency" -> {"full", "emergency"}

\* FAULT: an emergency resets "regardless of policy".
resetsRegardless(kind, policy) ==
    \/ kind = "emergency"
    \/ policy = "ResetOnLight" \/ (policy = "ResetOnFull" /\ kind = "full")

resets(kind, policy) ==
    \/ policy = "ResetOnLight" /\ "light" \in maskOf(kind)
    \/ policy \in {"ResetOnLight", "ResetOnFull"} /\ maskOf(kind) \cap {"full", "emergency"} # {}

calls(kind, phases) == phases \cap maskOf(kind) # {}

\* The same as tests/native/test_main.cpp:725-744 has it, of what is registered
\* (ghost).  README.md:185 and 199-200 promise more, which the program does not
\* do: that a full collection calls what is registered for light ones, and that
\* an emergency resets and calls everything.
concerns(kind, w) ==
    {a \in Arenas \cap DOMAIN w :
        \/ w[a].policy = "ResetOnLight"
        \/ w[a].policy = "ResetOnFull" /\ kind # "light"}
    \cup {k \in Callbacks \cap DOMAIN w :
        kind \in w[k] \/ (kind = "emergency" /\ "full" \in w[k])}

-----------------------------------------------------------------------------
(* The stack.  A collection's frame remembers what it concerns: due is what*)
(* is registered all the time and not served yet, was what has been        *)
(* registered at some time, raced what other tasks have withdrawn since the*)
(* snapshot of the arenas.                                                 *)

NoFrame == [pc |-> "none", kind |-> "none", arena |-> Scratch, policy |-> "Manual",
            deletes |-> FALSE, keeps |-> FALSE, block |-> [lo |-> 0, hi |-> 0],
            todo |-> << >>, due |-> {}, was |-> {}, raced |-> {}, seen |-> 0]

pending(frame) == keysOf(frame.todo)

top(t) == Head(stack[t])
At(t, l) == stack[t] # << >> /\ top(t).pc = l
\* A task is free to call, and a callback calls like any other code.
Callable(t) ==
    stack[t] # << >> => Len(stack[t]) < MaxDepth /\ top(t).pc \in {"inPurge", "inGuard"}

Push(t, frame) == stack' = [stack EXCEPT ![t] = <<frame>> \o @]
Become(t, frame) == stack' = [stack EXCEPT ![t] = <<frame>> \o Tail(@)]
Pop(t) == stack' = [stack EXCEPT ![t] = Tail(@)]

\* What a collection of task u sees when task t changes what is registered to w.
see(frame, w, t, u) ==
    LET now == concerns(frame.kind, w)
        before == frame.pc \in {"arenas", "reset"}     \* the last snapshot
    IN  IF frame.kind = "none" THEN frame
        ELSE [frame EXCEPT
                !.due = @ \cap now,
                !.was = IF before THEN @ \cup now ELSE @,
                !.raced = IF frame.pc = "reset" /\ t # u THEN @ \cup (pending(frame) \ now) ELSE @]
Observed(t, s, w) == [u \in Tasks |-> [i \in DOMAIN s[u] |-> see(s[u][i], w, t, u)]]

Registered(key, x) == [q \in DOMAIN wanted \cup {key} |-> IF q = key THEN x ELSE wanted[q]]
Unregistered(key) == [q \in DOMAIN wanted \ {key} |-> wanted[q]]

\* A change of what is registered by task t, and what becomes of its stack.
Want(t, w, s) == wanted' = w /\ stack' = Observed(t, s, w)

-----------------------------------------------------------------------------
(* Arenas.                                                                 *)

\* An arena has no lock: the application lets one task at a time allocate from
\* it, change its buffer or destroy it.
InUse(a) ==
    \E u \in Tasks : \E i \in DOMAIN stack[u] :
      stack[u][i].pc \in {"alloc", "end"} /\ stack[u][i].arena = a

\* createArena, also of a ScopedArena: a new object with its buffer; when either
\* is not to be had nothing remains.
CreateArena(t, a, policy) ==
    /\ Callable(t)
    /\ exists' = exists \cup {a}
    /\ \E bytes \in Bytes : arena' = [arena EXCEPT ![a] = begin(NewArena, bytes, TRUE)]
    /\ Push(t, [NoFrame EXCEPT !.pc = "register", !.arena = a, !.policy = policy])
    /\ UNCHANGED <<given, handles, regVars, pollVars>>

\* registerArena in createArena; with a full table the arena goes untracked.
RegisterCreated(t) ==
    /\ At(t, "register")
    /\ LET a == top(t).arena
           popped == [stack EXCEPT ![t] = Tail(@)]
       IN  /\ arenas' = register(arenas, ArenaRecord(a, top(t).policy, TRUE))
           /\ Want(t, IF accepts(arenas, a) THEN Registered(a, Wish(top(t).policy, TRUE))
                      ELSE wanted, popped)
           /\ handles' = handles \cup {a}
    /\ UNCHANGED <<arena, exists, given, purges, pollVars>>

\* registerArena, for the first time or again: who deletes the object is what the
\* last call said, and ownsObject is false unless it says otherwise.
RegisterArena(t, a, policy, owns) ==
    /\ Callable(t) /\ accepts(arenas, a)
    /\ arenas' = register(arenas, ArenaRecord(a, policy, owns))
    /\ Want(t, Registered(a, Wish(policy, owns)), stack)
    /\ UNCHANGED <<objVars, purges, pollVars>>

UnregisterArena(t, a) ==
    /\ Callable(t) /\ a \in DOMAIN wanted
    /\ arenas' = unregister(arenas, a)
    /\ Want(t, Unregistered(a), stack)
    /\ UNCHANGED <<objVars, purges, pollVars>>

\* FAULT: an arena that was never tracked is not deleted.
deletesTracked(a) == has(arenas, a) /\ recordOf(arenas, a).ownsObject
deletes(a) ==
    IF has(arenas, a) THEN recordOf(arenas, a).ownsObject ELSE a # Scratch

\* The object outlives destroyArena when its last registration said that it is
\* not ProtoGC's (ghost).
keeps(a) == a = Scratch \/ (a \in DOMAIN wanted /\ ~wanted[a].owns)

\* destroyArena: unregister inside the critical section, ...
DestroyArena(t, a) ==
    /\ Callable(t) /\ ~InUse(a)
    /\ arenas' = unregister(arenas, a)
    /\ handles' = handles \ {a}
    /\ Want(t, Unregistered(a),
            [stack EXCEPT ![t] = <<[NoFrame EXCEPT !.pc = "end", !.arena = a,
                                      !.deletes = deletes(a), !.keeps = keeps(a)]>> \o @])
    /\ UNCHANGED <<arena, exists, given, purges, pollVars>>

\* ... end and delete outside it.
EndArena(t) ==
    /\ At(t, "end")
    /\ LET a == top(t).arena
       IN  /\ arena' = [arena EXCEPT ![a] = end(@)] /\ given' = [given EXCEPT ![a] = << >>]
           /\ exists' = IF top(t).deletes THEN exists \ {a} ELSE exists
           /\ handles' = IF top(t).keeps THEN handles \cup {a} ELSE handles
    /\ Pop(t)
    /\ UNCHANGED <<regVars, pollVars>>

\* ensureCapacity, of the scratch arena by scratchArena: begin again when the
\* buffer is too small, whether or not the arena is registered.
EnsureCapacity(t, a, bytes, got) ==
    /\ Callable(t) /\ ~InUse(a) /\ (a = Scratch => bytes > 0)
    /\ arena' = [arena EXCEPT ![a] = ensureCapacity(@, bytes, got)]
    /\ given' = [given EXCEPT ![a] = << >>]
    /\ UNCHANGED <<exists, handles, regVars, pollVars, stack>>

\* alloc reads the offset, and returns null when the request does not fit; ...
Alloc(t, a, request) ==
    /\ Callable(t) /\ ~InUse(a)
    /\ fits(arena[a], request[1], request[2])
    /\ Push(t, [NoFrame EXCEPT !.pc = "alloc", !.arena = a,
                               !.block = block(arena[a], request[1], request[2])])
    /\ UNCHANGED <<objVars, regVars, pollVars>>

\* ... and writes it, with no lock against a collection that resets the arena.
AllocMove(t) ==
    /\ At(t, "alloc")
    /\ LET a == top(t).arena
       IN  /\ arena' = [arena EXCEPT ![a] = move(@, top(t).block)]
           /\ given' = [given EXCEPT ![a] = Append(@, top(t).block)]
    /\ Pop(t)
    /\ UNCHANGED <<exists, handles, regVars, pollVars>>

-----------------------------------------------------------------------------
(* Purge callbacks.                                                        *)

RegisterPurgeCallback(t, k, phases) ==
    /\ Callable(t) /\ accepts(purges, k)
    /\ purges' = register(purges, PurgeRecord(k, phases))
    /\ Want(t, Registered(k, phases), stack)
    /\ UNCHANGED <<objVars, arenas, pollVars>>

UnregisterPurgeCallback(t, k) ==
    /\ Callable(t) /\ k \in DOMAIN wanted
    /\ purges' = unregister(purges, k)
    /\ Want(t, Unregistered(k), stack)
    /\ UNCHANGED <<objVars, arenas, pollVars>>

-----------------------------------------------------------------------------
(* Collections.                                                            *)

\* collectLight, collectFull and emergency; an emergency is also what the
\* critical callback of HeapGuard calls.
Collect(t, kind) ==
    /\ Callable(t)
    /\ Push(t, [NoFrame EXCEPT !.pc = "arenas", !.kind = kind,
                               !.due = concerns(kind, wanted), !.was = concerns(kind, wanted)])
    /\ UNCHANGED <<objVars, regVars, pollVars>>

arenasToReset(kind) ==
    snapshot(arenas, {i \in DOMAIN arenas : arenas[i].key # NoKey /\ resets(kind, arenas[i].policy)})
callbacksToCall(kind) ==
    snapshot(purges, {i \in DOMAIN purges : purges[i].key # NoKey /\ calls(kind, purges[i].phases)})

\* resetTrackedArenas: a snapshot, then one arena after the other.
SnapshotArenas(t) ==
    /\ At(t, "arenas")
    /\ Become(t, [top(t) EXCEPT !.pc = "reset", !.todo = arenasToReset(top(t).kind)])
    /\ UNCHANGED <<objVars, regVars, pollVars>>

ResetNext(t) ==
    /\ At(t, "reset") /\ pending(top(t)) # {}
    /\ LET a == first(top(t).todo)
       IN  /\ arena' = [arena EXCEPT ![a] = reset(@)] /\ given' = [given EXCEPT ![a] = << >>]
           /\ Become(t, [top(t) EXCEPT !.todo = rest(@), !.due = @ \ {a}, !.raced = @ \ {a}])
    /\ UNCHANGED <<exists, handles, regVars, pollVars>>

\* runPurgeCallbacks: a snapshot, then one call after the other.
SnapshotCallbacks(t) ==
    /\ At(t, "reset") /\ pending(top(t)) = {}
    /\ LET f == [top(t) EXCEPT !.pc = "call", !.todo = callbacksToCall(top(t).kind)]
       IN  Become(t, [f EXCEPT !.was = @ \cap pending(f)])
    /\ UNCHANGED <<objVars, regVars, pollVars>>

CallNext(t) ==
    /\ At(t, "call") /\ pending(top(t)) # {}
    /\ LET k == first(top(t).todo)
       IN  Become(t, [top(t) EXCEPT !.pc = "inPurge", !.todo = rest(@),
                                   !.due = @ \ {k}, !.was = @ \ {k}])
    /\ UNCHANGED <<objVars, regVars, pollVars>>

PurgeReturns(t) ==
    /\ At(t, "inPurge")
    /\ Become(t, [top(t) EXCEPT !.pc = "call"])
    /\ UNCHANGED <<objVars, regVars, pollVars>>

\* HeapGuard::poll, at the end of a full or emergency collection or of a poll:
\* the memory is fine or one of the callbacks runs.
GuardPoll(t) ==
    /\ unchecked' = 0
    /\ \/ Pop(t)
       \/ Become(t, [NoFrame EXCEPT !.pc = "inGuard"])

CollectEnds(t) ==
    /\ At(t, "call") /\ pending(top(t)) = {}
    /\ IF top(t).kind = "light" THEN Pop(t) /\ UNCHANGED unchecked ELSE GuardPoll(t)
    /\ UNCHANGED <<objVars, regVars, polls>>

GuardReturns(t) ==
    /\ At(t, "inGuard")
    /\ Pop(t)
    /\ UNCHANGED <<objVars, regVars, pollVars>>

\* poll: the counter is read, incremented and written without a lock, ...
Poll(t) ==
    /\ Callable(t)
    /\ Push(t, [NoFrame EXCEPT !.pc = "poll", !.seen = polls])
    /\ UNCHANGED <<objVars, regVars, pollVars>>

\* FAULT: the check is due when the counter equals the divider.
countsOnMissed(n) == n # Divider
countsOn(n) == n < Divider

PollCount(t) ==
    /\ At(t, "poll")
    /\ polls' = (top(t).seen + 1) % CounterWord
    /\ IF countsOn(polls') THEN Pop(t) /\ unchecked' = unchecked + 1
       ELSE Become(t, [NoFrame EXCEPT !.pc = "pollClear"]) /\ UNCHANGED unchecked
    /\ UNCHANGED <<objVars, regVars>>

\* ... cleared when it has come that far, ...
PollClear(t) ==
    /\ At(t, "pollClear")
    /\ polls' = 0
    /\ Become(t, [NoFrame EXCEPT !.pc = "pollGuard"])
    /\ UNCHANGED <<objVars, regVars, unchecked>>

\* ... and then HeapGuard has its turn.
PollGuard(t) ==
    /\ At(t, "pollGuard")
    /\ GuardPoll(t)
    /\ UNCHANGED <<objVars, regVars, polls>>

-----------------------------------------------------------------------------
Owners(a) == IF a = Scratch THEN {FALSE} ELSE BOOLEAN

RegistryCall(t, policies) ==
    \/ \E a \in Objects \ exists, policy \in policies : CreateArena(t, a, policy)
    \/ \E a \in handles \cup {Scratch}, policy \in policies :
         \E owns \in Owners(a) : RegisterArena(t, a, policy, owns)
    \/ \E a \in Arenas : UnregisterArena(t, a)
    \/ \E a \in handles : DestroyArena(t, a)

BlockCall(t) ==
    \E a \in handles :
      \/ \E bytes \in Bytes, got \in BOOLEAN : EnsureCapacity(t, a, bytes, got)
      \/ \E request \in Requests : Alloc(t, a, request)

PurgeCall(t) ==
    \/ \E k \in Callbacks, phases \in PhaseSets : RegisterPurgeCallback(t, k, phases)
    \/ \E k \in Callbacks : UnregisterPurgeCallback(t, k)

Step(t) ==
    \/ RegisterCreated(t) \/ EndArena(t) \/ AllocMove(t)
    \/ SnapshotArenas(t) \/ ResetNext(t) \/ SnapshotCallbacks(t) \/ CallNext(t) \/ PurgeReturns(t)
    \/ CollectEnds(t) \/ GuardReturns(t) \/ PollCount(t) \/ PollClear(t) \/ PollGuard(t)

Next == \E t \in Tasks :
    \/ RegistryCall(t, Policies) \/ BlockCall(t) \/ PurgeCall(t) \/ Step(t)
    \/ \E kind \in Kinds : Collect(t, kind)
    \/ Poll(t)

Spec == Init /\ [][Next]_vars

-----------------------------------------------------------------------------
(* Properties.                                                             *)

Frames == {f \in Tasks \X (1..MaxDepth) : f[2] \in DOMAIN stack[f[1]]}
frameAt(f) == stack[f[1]][f[2]]
InHand == {frameAt(f).arena : f \in {g \in Frames : frameAt(g).pc \in {"register", "end"}}}

\* What destroyArena does with the object is what the last registerArena said, or
\* what createArena promises when the table was full or the arena withdrawn: the
\* objects that exist are those the application may use or a call has in hand,
\* and none that is gone keeps its buffer (ProtoGC.h:296-356).
ObjectsExact ==
    /\ exists = handles \cup InHand
    /\ \A a \in Arenas \ exists : ~isReady(arena[a])

\* A collection serves what it concerns: what has been registered for it all
\* the time since it began is reset or called once, and nothing is that has
\* not been registered for it at some time since, whatever callbacks and other
\* tasks register, withdraw and destroy meanwhile (ProtoGC.h:1069-1110).
Serves(x, keys) ==
    /\ x.due \cap keys \subseteq pending(x)
    /\ pending(x) \subseteq x.was \cap keys
    /\ \A i, j \in pendingSlots(x.todo) : x.todo[i] = x.todo[j] => i = j

CollectExact ==
    \A f \in Frames :
      LET x == frameAt(f)
      IN  /\ x.pc = "reset" => Serves(x, Arenas)
          /\ x.pc \in {"call", "inPurge"} => x.due \subseteq Callbacks /\ Serves(x, Callbacks)

\* An arena that a collection is about to reset exists and is registered for it,
\* unless another task withdrew it after the snapshot (ProtoGC.h:1087-1090):
\* calls of the same task, its callbacks and the collections they nest never
\* leave a stale arena behind.
ResetsCurrent ==
    \A f \in Frames :
      LET x == frameAt(f)
      IN  x.pc = "reset" => pending(x) \ x.raced \subseteq concerns(x.kind, wanted) \cap exists

\* "Returns nullptr if out of space" (ArenaAllocator.h:67): what an arena has
\* handed out since its last reset lies in its buffer, also after a change of
\* capacity or a begin that failed (ArenaAllocator.h:44-87).
BlocksInside ==
    \A a \in Arenas : isReady(arena[a]) =>
      \A i \in DOMAIN given[a] : given[a][i].hi <= arena[a].capacity

\* And each block lies above those before it, the free part behind the last,
\* though a collection may reset the arena in the middle of an alloc, and a
\* begin that failed left the offset where it was (ArenaAllocator.h:44-106): no
\* block is taken back before "all previous allocations are invalidated" (:89).
BlocksApart ==
    \A a \in Arenas : isReady(arena[a]) =>
      /\ \A i, j \in DOMAIN given[a] : i < j => given[a][i].hi <= given[a][j].lo
      /\ arena[a].offset = IF given[a] = << >> THEN 0 ELSE given[a][Len(given[a])].hi

\* Two tasks that poll and lose each other's counts put the check of HeapGuard
\* off, but not for good (ProtoGC.h:765-773).
GuardCadence == Cardinality(Tasks) <= 2 => unchecked < Divider * (Divider + 1)

-----------------------------------------------------------------------------
(* What the documentation says and the code does not keep.                 *)

\* What was destroyed or unregistered is removed "from auto-reset tracking"
\* (README.md:399-401), "no further calls" (test_main.cpp:749): no collection
\* resets an arena that is gone or calls a callback that is not registered.
NothingGone ==
    \A f \in Frames :
      LET x == frameAt(f)
      IN  /\ x.pc = "reset" => pending(x) \subseteq exists
          /\ x.pc = "call" => pending(x) \subseteq DOMAIN wanted
=============================================================================
