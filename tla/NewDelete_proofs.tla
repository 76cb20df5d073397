-------------------------- MODULE NewDelete_proofs --------------------------
(***************************************************************************)
(* operator new and operator delete lose no memory and free none twice, for*)
(* every number of tasks and cells, every capacity and layout, whenever the*)
(* takeover switch is turned and whether or not begin came first; they keep*)
(* the contract of a heap; and once begin has come first, the accounting of*)
(* the backend is exact.                                                   *)
(***************************************************************************)
EXTENDS NewDelete, TLAPS, SumTheorems

Types ==
    /\ sys \subseteq Cells /\ blocks \subseteq Cells /\ kept \subseteq Cells
    /\ DOMAIN live \subseteq Cells
    /\ held \in [Tasks -> SUBSET Cells]
    /\ DOMAIN pc = Tasks /\ DOMAIN req = Tasks
    /\ DOMAIN header = Cells \cup {ForeignCell}
    /\ ~header[ForeignCell].live

Calm == {"idle", "internal", "psram", "begin"}
Freeing == {"heapFree", "pgcFree"}

\* Where the pointer is that task t gives back: still its caller's, in its hands,
\* or none of ours.
CallOK(t) ==
    /\ pc[t] \in Calm => req[t] = NoReq
    /\ held[t] # {} => pc[t] \in {"pgcFree", "hostFree"}
    /\ pc[t] = "heapFree" => req[t].cell \in DOMAIN live \cup {ForeignCell}
    /\ pc[t] = "pgcFree" =>
         \/ held[t] = {} /\ req[t].cell \in (DOMAIN live \ blocks) \cup {ForeignCell}
         \/ held[t] = {req[t].cell} /\ header[req[t].cell].live

Calls == \A t \in Tasks : CallOK(t)

\* No two tasks give the same pointer back.
Apart ==
    \A t, u \in Tasks :
      t # u /\ pc[t] \in Freeing /\ pc[u] \in Freeing /\ req[t].cell = req[u].cell
        => req[t].cell = ForeignCell

IInv == Types /\ NothingLost /\ Calls /\ Apart

-----------------------------------------------------------------------------
\* The ghost of what callers own, with a pointer more or less.
LEMMA LiveDomains ==
    ASSUME NEW c, NEW n
    PROVE  /\ DOMAIN With(c, n) = DOMAIN live \cup {c}
           /\ DOMAIN Without(c) = DOMAIN live \ {c}
  BY DEF With, Without

\* The parts of NothingLost, cell by cell.
Spread ==
    /\ \A c \in Cells : \/ c \in sys \/ c \in DOMAIN live \/ c \in kept
                        \/ \E t \in Tasks : c \in held[t]
    /\ \A c \in Cells : /\ c \in sys => c \notin DOMAIN live /\ c \notin kept
                        /\ c \in kept => c \notin DOMAIN live
                        /\ c \in blocks => c \in DOMAIN live
                        /\ c \in DOMAIN live \/ c \in kept => header[c].live
    /\ \A t \in Tasks : \A c \in held[t] :
         /\ c \notin sys /\ c \notin DOMAIN live /\ c \notin kept
         /\ \A u \in Tasks \ {t} : c \notin held[u]

LEMMA LostFacts == /\ Types => (NothingLost <=> Spread)
                   /\ Types' => (NothingLost' <=> Spread')
<1>1. ASSUME Types PROVE NothingLost <=> Spread
  BY <1>1 DEF NothingLost, Spread, Types
<1>2. ASSUME Types' PROVE NothingLost' <=> Spread'
  BY <1>2 DEF NothingLost, Spread, Types
<1> QED
  BY <1>1, <1>2

LEMMA InitHolds == Init => IInv
<1> SUFFICES ASSUME Init PROVE IInv
  OBVIOUS
<1>1. DOMAIN live = {}
  BY DEF Init
<1>2. Types
  BY <1>1 DEF Init, Types, NoHeader
<1>3. NothingLost
  BY <1>1, <1>2, LostFacts DEF Init, Spread
<1>4. Calls /\ Apart
  BY DEF Init, Calls, CallOK, Apart, Freeing
<1> QED
  BY <1>2, <1>3, <1>4 DEF IInv

\* A step that moves no memory and touches no pointer that is given back.
Quiet(t) ==
    /\ UNCHANGED <<sys, blocks, kept, live, held, header>>
    /\ \A u \in Tasks \ {t} : pc'[u] = pc[u] /\ req'[u] = req[u]
    /\ DOMAIN pc' = Tasks /\ DOMAIN req' = Tasks
    /\ pc'[t] \notin {"pgcFree", "hostFree"} => held[t] = {}

LEMMA QuietKeeps ==
    ASSUME IInv, NEW t \in Tasks, Quiet(t), CallOK(t)',
           pc'[t] \in Freeing => pc[t] \in Freeing /\ req'[t] = req[t]
    PROVE  IInv'
<1>1. Types'
  BY DEF IInv, Types, Quiet
<1>2. NothingLost'
  BY DEF IInv, NothingLost, Quiet
<1>3. Calls'
  BY DEF IInv, Calls, CallOK, Quiet
<1>4. Apart'
  BY DEF IInv, Apart, Quiet
<1> QED
  BY <1>1, <1>2, <1>3, <1>4 DEF IInv

\* begin, the switch, and operator new up to the host's malloc move no memory.
LEMMA CalmStepsKeep ==
    ASSUME IInv, NEW t \in Tasks,
           \/ Begin(t) \/ ClearUsed(t) \/ BeginRest(t) \/ (\E b \in BOOLEAN : EnableTakeover(t, b))
           \/ (\E n \in Sizes : New(t, n)) \/ Load(t) \/ Reserve(t) \/ HostMallocFails(t)
    PROVE  IInv'
<1> USE DEF memVars, beginVars, Goto, Return
<1>1. CallOK(t) /\ Types
  BY DEF IInv, Calls
<1>2. CASE Begin(t) \/ ClearUsed(t) \/ BeginRest(t) \/ \E b \in BOOLEAN : EnableTakeover(t, b)
  <2>1. Quiet(t) /\ pc[t] \in Calm /\ pc'[t] \in Calm /\ req' = req
    BY <1>1, <1>2 DEF Begin, ClearUsed, BeginRest, EnableTakeover, Quiet, Types, CallOK, Regions, Calm
  <2>2. CallOK(t)'
    BY <1>1, <2>1 DEF CallOK, Calm, Quiet
  <2> QED
    BY <2>1, <2>2, QuietKeeps DEF Calm, Freeing
<1>3. CASE \E n \in Sizes : New(t, n)
  <2>1. Quiet(t) /\ pc'[t] = "try"
    BY <1>1, <1>3 DEF New, Quiet, Types, CallOK
  <2>2. CallOK(t)'
    BY <1>1, <2>1 DEF CallOK, Calm, Quiet
  <2> QED
    BY <2>1, <2>2, QuietKeeps DEF Freeing
<1>4. CASE Load(t)
  <2>1. Quiet(t) /\ pc'[t] = "reserve"
    BY <1>1, <1>4 DEF Load, Quiet, Types, CallOK
  <2>2. CallOK(t)'
    BY <1>1, <2>1 DEF CallOK, Calm, Quiet
  <2> QED
    BY <2>1, <2>2, QuietKeeps DEF Freeing
<1>5. CASE Reserve(t) \/ HostMallocFails(t)
  <2>1. /\ Quiet(t)
        /\ \/ pc'[t] \in {"try", "reserve", "malloc"}
           \/ pc'[t] = "idle" /\ req'[t] = NoReq
    BY <1>1, <1>5 DEF Reserve, HostMallocFails, NextTry, Quiet, Types, CallOK
  <2>2. CallOK(t)'
    BY <1>1, <2>1 DEF CallOK, Calm, Quiet
  <2> QED
    BY <2>1, <2>2, QuietKeeps DEF Freeing
<1> QED
  BY <1>2, <1>3, <1>4, <1>5

\* Memory moves, but no task comes to hold or to give back what another has.
LEMMA MoveKeeps ==
    ASSUME IInv, NEW t \in Tasks, Types', NothingLost', CallOK(t)',
           \A u \in Tasks \ {t} : pc'[u] = pc[u] /\ req'[u] = req[u] /\ held'[u] = held[u],
           NEW c,
           \A u \in Tasks \ {t} : pc[u] \in Freeing => req[u].cell # c \/ c = ForeignCell,
           pc'[t] \in Freeing => req'[t].cell = c,
           \A d \in Cells \ {c} : /\ (d \in DOMAIN live <=> d \in DOMAIN live')
                                  /\ (d \in blocks <=> d \in blocks')
                                  /\ header'[d].live = header[d].live
    PROVE  IInv'
<1>1. ASSUME NEW u \in Tasks \ {t} PROVE CallOK(u)'
  <2>1. CallOK(u) /\ pc'[u] = pc[u] /\ req'[u] = req[u] /\ held'[u] = held[u]
    BY DEF IInv, Calls
  <2> DEFINE x == req[u].cell
  <2>4. pc[u] \in Freeing => x # c \/ x = ForeignCell
    OBVIOUS
  <2>5. DOMAIN live \subseteq Cells /\ \A d \in held[u] : d \in Cells
    BY DEF IInv, Types
  <2>6. x \in Cells /\ x # c => /\ (x \in DOMAIN live <=> x \in DOMAIN live')
                                /\ (x \in blocks <=> x \in blocks')
                                /\ header'[x].live = header[x].live
    OBVIOUS
  <2> HIDE DEF x
  <2>2. pc[u] = "heapFree" => req[u].cell \in DOMAIN live' \cup {ForeignCell}
    BY <2>1, <2>4, <2>5, <2>6 DEF CallOK, Freeing, x
  <2>3. pc[u] = "pgcFree" =>
          \/ held[u] = {} /\ req[u].cell \in (DOMAIN live' \ blocks') \cup {ForeignCell}
          \/ held[u] = {req[u].cell} /\ header'[req[u].cell].live
    BY <2>1, <2>4, <2>5, <2>6, ForeignAssumption DEF CallOK, Freeing, x
  <2> QED
    BY <2>1, <2>2, <2>3 DEF CallOK
<1>2. Calls'
  BY <1>1 DEF Calls
<1>3. Apart'
  BY DEF IInv, Apart
<1> QED
  BY <1>2, <1>3 DEF IInv

\* What a task gives back is its caller's, in its hands, or none of ours.
LEMMA GivenBack ==
    ASSUME IInv, NEW u \in Tasks, pc[u] \in Freeing
    PROVE  \/ req[u].cell = ForeignCell
           \/ req[u].cell \in DOMAIN live
           \/ req[u].cell \in held[u]
  BY DEF IInv, Calls, CallOK, Freeing

\* Memory that was the heap's or the host's is nobody's to give back.
LEMMA NotGivenBack ==
    ASSUME IInv, NEW c \in sys \cup kept
    PROVE  \A u \in Tasks : pc[u] \in Freeing => req[u].cell # c
<1>1. /\ c \in Cells /\ c # ForeignCell /\ c \notin DOMAIN live
      /\ \A u \in Tasks : c \notin held[u]
  BY ForeignAssumption, LostFacts DEF IInv, Types, Spread
<1> QED
  BY <1>1, GivenBack

LEMMA ReuseKeeps ==
    ASSUME IInv, NEW t \in Tasks, Reuse(t) PROVE IInv'
<1> USE DEF memVars, beginVars, Goto, Return
<1>1. PICK c \in kept :
        /\ kept' = kept \ {c} /\ blocks' = blocks \cup {c}
        /\ live' = With(c, req[t].bytes)
  BY DEF Reuse
<1>2. /\ Types /\ CallOK(t) /\ NothingLost
      /\ pc[t] = "try" /\ pc'[t] = "idle" /\ req'[t] = NoReq
      /\ UNCHANGED <<header, sys, held>>
      /\ \A u \in Tasks \ {t} : pc'[u] = pc[u] /\ req'[u] = req[u]
      /\ DOMAIN pc' = Tasks /\ DOMAIN req' = Tasks
  BY DEF IInv, Calls, Reuse, Types
<1>3. held[t] = {}
  BY <1>2 DEF CallOK
<1>4. DOMAIN live' = DOMAIN live \cup {c}
  BY <1>1, LiveDomains
<1>5. Types'
  BY <1>1, <1>2, <1>4 DEF Types
<1>6. NothingLost'
  <2>1. c \in Cells /\ Spread
    BY <1>2, LostFacts DEF Types
  <2>2. Spread'
    BY <1>1, <1>2, <1>4, <2>1 DEF Spread
  <2> QED
    BY <1>5, <2>2, LostFacts
<1>7. CallOK(t)'
  BY <1>2, <1>3 DEF CallOK, Calm
<1> QED
  BY <1>1, <1>2, <1>4, <1>5, <1>6, <1>7, NotGivenBack, MoveKeeps DEF Freeing

LEMMA HostMallocKeeps ==
    ASSUME IInv, NEW t \in Tasks, HostMalloc(t) PROVE IInv'
<1> USE DEF memVars, beginVars, Goto, Return
<1>1. PICK c \in sys, address \in 0..(Alignment - 1) :
        /\ sys' = sys \ {c}
        /\ header' = [header EXCEPT ![c] = Header(now(t).region, req[t].bytes, address)]
        /\ blocks' = IF now(t).via = "heap" THEN blocks \cup {c} ELSE blocks
        /\ live' = With(c, req[t].bytes)
  BY DEF HostMalloc
<1>2. /\ Types /\ CallOK(t) /\ NothingLost
      /\ pc[t] = "malloc" /\ pc'[t] = "idle" /\ req'[t] = NoReq
      /\ UNCHANGED <<kept, held>>
      /\ \A u \in Tasks \ {t} : pc'[u] = pc[u] /\ req'[u] = req[u]
      /\ DOMAIN pc' = Tasks /\ DOMAIN req' = Tasks
  BY DEF IInv, Calls, HostMalloc, Types
<1>3. held[t] = {}
  BY <1>2 DEF CallOK
<1>4. DOMAIN live' = DOMAIN live \cup {c}
  BY <1>1, LiveDomains
<1>5. c \in Cells /\ c # ForeignCell
  BY <1>2, ForeignAssumption DEF Types
<1>6. /\ DOMAIN header' = Cells \cup {ForeignCell} /\ header'[c].live
      /\ \A d \in Cells \cup {ForeignCell} : d # c => header'[d] = header[d]
  BY <1>1, <1>2, <1>5 DEF Types, Header
<1>7. Types'
  BY <1>1, <1>2, <1>4, <1>5, <1>6 DEF Types
<1>8. NothingLost'
  <2>1. Spread
    BY <1>2, LostFacts
  <2>2. Spread'
    BY <1>1, <1>2, <1>4, <1>5, <1>6, <2>1 DEF Spread
  <2> QED
    BY <1>7, <2>2, LostFacts
<1>9. CallOK(t)'
  BY <1>2, <1>3 DEF CallOK, Calm
<1> QED
  BY <1>1, <1>2, <1>4, <1>6, <1>7, <1>8, <1>9, NotGivenBack, MoveKeeps DEF Freeing

LEMMA DeleteKeeps ==
    ASSUME IInv, NEW t \in Tasks, NEW c \in Usable \cup {ForeignCell}, Delete(t, c) PROVE IInv'
<1> USE DEF memVars, beginVars, Goto
<1>1. /\ Types /\ CallOK(t) /\ NothingLost
      /\ pc[t] = "idle" /\ pc'[t] = "heapFree"
      /\ UNCHANGED <<header, sys, blocks, kept, live, held>>
      /\ \A u \in Tasks \ {t} : pc'[u] = pc[u] /\ req'[u] = req[u]
      /\ DOMAIN pc' = Tasks /\ DOMAIN req' = Tasks
  BY DEF IInv, Calls, Delete, startsWith, Types
<1>2. req'[t].cell = c
  BY <1>1 DEF Delete, CallOK, Calm, NoReq, Types
<1>3. Types' /\ NothingLost'
  BY <1>1 DEF Types, NothingLost
<1>4. CallOK(t)'
  BY <1>1, <1>2 DEF CallOK, Calm, Usable
<1>5. \A u \in Tasks \ {t} : req[u].cell # c \/ c = ForeignCell
  BY DEF Usable
<1> QED
  BY <1>1, <1>2, <1>3, <1>4, <1>5, MoveKeeps

LEMMA HeapFreeKeeps ==
    ASSUME IInv, NEW t \in Tasks, HeapFree(t) PROVE IInv'
<1> USE DEF memVars, beginVars, Goto, Return
<1> DEFINE c == req[t].cell
<1>1. /\ Types /\ CallOK(t) /\ NothingLost /\ Spread
      /\ pc[t] = "heapFree" /\ held[t] = {} /\ c \in DOMAIN live \cup {ForeignCell}
      /\ UNCHANGED <<header, sys>>
  BY LostFacts DEF IInv, Calls, HeapFree, CallOK
<1>2. \A u \in Tasks \ {t} : pc[u] \in Freeing => req[u].cell # c \/ c = ForeignCell
  BY <1>1 DEF IInv, Apart, Freeing
<1>3. CASE c \notin blocks
  <2>1. /\ UNCHANGED <<blocks, kept, live, held, req>> /\ pc' = [pc EXCEPT ![t] = "pgcFree"]
    BY <1>3 DEF HeapFree
  <2>2. Types' /\ NothingLost'
    BY <1>1, <2>1 DEF Types, NothingLost
  <2>3. CallOK(t)'
    BY <1>1, <1>3, <2>1 DEF CallOK, Calm, Types
  <2>4. \A u \in Tasks \ {t} : pc'[u] = pc[u] /\ req'[u] = req[u] /\ held'[u] = held[u]
    BY <1>1, <2>1 DEF Types
  <2> QED
    BY <1>1, <1>2, <2>1, <2>2, <2>3, <2>4, MoveKeeps
<1>4. CASE c \in blocks
  <2>1. /\ blocks' = blocks \ {c} /\ live' = Without(c)
        /\ \/ kept' = kept \cup {c} /\ held' = held
              /\ pc' = [pc EXCEPT ![t] = "idle"] /\ req' = [req EXCEPT ![t] = NoReq]
           \/ kept' = kept /\ held' = [held EXCEPT ![t] = {c}]
              /\ pc' = [pc EXCEPT ![t] = "pgcFree"] /\ req' = req
    BY <1>4 DEF HeapFree
  <2>2. DOMAIN live' = DOMAIN live \ {c}
    BY <2>1, LiveDomains
  <2>3. c \in Cells /\ c # ForeignCell /\ header[c].live /\ c \in DOMAIN live
    BY <1>1, <1>4, ForeignAssumption DEF Types, Spread
  <2>4. Types'
    BY <1>1, <2>1, <2>2, <2>3 DEF Types
  <2>5. Spread'
    <3>1. CASE kept' = kept \cup {c} /\ held' = held
      BY <1>1, <2>1, <2>2, <2>3, <3>1 DEF Spread
    <3>2. CASE kept' = kept /\ held' = [held EXCEPT ![t] = {c}]
      <4>1. held'[t] = {c} /\ \A u \in Tasks \ {t} : held'[u] = held[u]
        BY <1>1, <3>2 DEF Types
      <4>2. \A u \in Tasks : c \notin held[u]
        BY <1>1, <2>3 DEF Spread
      <4> QED
        BY <1>1, <2>1, <2>2, <2>3, <3>2, <4>1, <4>2 DEF Spread
    <3> QED
      BY <2>1, <3>1, <3>2
  <2>6. NothingLost'
    BY <2>4, <2>5, LostFacts
  <2>7. CallOK(t)'
    BY <1>1, <2>1, <2>3 DEF CallOK, Calm, Types
  <2>8. /\ \A u \in Tasks \ {t} : pc'[u] = pc[u] /\ req'[u] = req[u] /\ held'[u] = held[u]
        /\ pc'[t] \in Freeing => req'[t].cell = c
    BY <1>1, <2>1 DEF Types, Freeing
  <2> QED
    BY <1>1, <1>2, <2>1, <2>2, <2>4, <2>6, <2>7, <2>8, MoveKeeps
<1> QED
  BY <1>3, <1>4

LEMMA TrimKeeps ==
    ASSUME IInv, NEW t \in Tasks, Trim(t) PROVE IInv'
<1> USE DEF Goto
<1>1. PICK c \in kept : /\ kept' = kept \ {c}
                        /\ held' = [held EXCEPT ![t] = {c}]
                        /\ req' = [req EXCEPT ![t].cell = c]
  BY DEF Trim
<1>2. /\ Types /\ CallOK(t) /\ NothingLost /\ Spread
      /\ pc[t] = "idle" /\ pc'[t] = "pgcFree"
      /\ UNCHANGED <<header, sys, blocks, live>>
      /\ DOMAIN pc' = Tasks /\ DOMAIN req' = Tasks
  BY <1>1, LostFacts DEF IInv, Calls, Trim, Types
<1>3. held[t] = {} /\ held'[t] = {c} /\ req'[t].cell = c
  BY <1>1, <1>2 DEF CallOK, Calm, NoReq, Types
<1>4. \A u \in Tasks \ {t} : pc'[u] = pc[u] /\ req'[u] = req[u] /\ held'[u] = held[u]
  BY <1>1, <1>2 DEF Types, Trim
<1>5. c \in Cells /\ header[c].live
  BY <1>2 DEF Types, Spread
<1>6. Types'
  BY <1>1, <1>2, <1>5 DEF Types
<1>7. NothingLost'
  <2>1. \A u \in Tasks : c \notin held[u]
    BY <1>2, <1>5 DEF Spread
  <2>2. Spread'
    BY <1>1, <1>2, <1>3, <1>4, <1>5, <2>1 DEF Spread
  <2> QED
    BY <1>6, <2>2, LostFacts
<1>8. CallOK(t)'
  BY <1>2, <1>3, <1>5 DEF CallOK, Calm
<1> QED
  BY <1>2, <1>3, <1>4, <1>6, <1>7, <1>8, NotGivenBack, MoveKeeps

LEMMA PgcFreeKeeps ==
    ASSUME IInv, NEW t \in Tasks, PgcFree(t) PROVE IInv'
<1> USE DEF memVars, beginVars, Goto, Return
<1> DEFINE c == req[t].cell
<1>1. /\ Types /\ CallOK(t) /\ NothingLost /\ Spread /\ pc[t] = "pgcFree"
      /\ UNCHANGED <<sys, blocks, kept>>
  BY LostFacts DEF IInv, Calls, PgcFree
<1>2. \A u \in Tasks \ {t} : pc[u] \in Freeing => req[u].cell # c \/ c = ForeignCell
  BY <1>1 DEF IInv, Apart, Freeing
<1>3. \/ held[t] = {} /\ c \in (DOMAIN live \ blocks) \cup {ForeignCell}
      \/ held[t] = {c} /\ header[c].live
  BY <1>1 DEF CallOK
<1>4. CASE ~header[c].live
  <2>1. held[t] = {}
    BY <1>1, <1>3, <1>4 DEF Spread, Types
  <2>2. /\ UNCHANGED <<header, live, held>> /\ pc' = [pc EXCEPT ![t] = "idle"]
        /\ req' = [req EXCEPT ![t] = NoReq]
    BY <1>4 DEF PgcFree
  <2>3. Quiet(t) /\ pc'[t] = "idle" /\ req'[t] = NoReq
    BY <1>1, <2>1, <2>2 DEF Quiet, Types
  <2>4. CallOK(t)'
    BY <2>1, <2>2, <2>3 DEF CallOK, Calm
  <2> QED
    BY <2>3, <2>4, QuietKeeps DEF Freeing
<1>5. CASE header[c].live
  <2>1. /\ header' = [header EXCEPT ![c].live = FALSE] /\ live' = Without(c)
        /\ held' = [held EXCEPT ![t] = {c}]
        /\ pc' = [pc EXCEPT ![t] = "hostFree"] /\ req' = req
    BY <1>5 DEF PgcFree
  <2>2. DOMAIN live' = DOMAIN live \ {c}
    BY <2>1, LiveDomains
  <2>3. c \in Cells /\ c # ForeignCell
    BY <1>1, <1>3, <1>5, ForeignAssumption DEF Types
  <2>4. /\ DOMAIN header' = Cells \cup {ForeignCell}
        /\ \A d \in Cells \cup {ForeignCell} : d # c => header'[d] = header[d]
    BY <1>1, <2>1, <2>3 DEF Types
  <2>5. held'[t] = {c} /\ \A u \in Tasks \ {t} : held'[u] = held[u]
    BY <1>1, <2>1 DEF Types
  <2>6. /\ c \notin sys /\ c \notin kept /\ c \notin blocks
        /\ \A u \in Tasks \ {t} : c \notin held[u]
    <3>1. CASE held[t] = {c}
      BY <1>1, <2>3, <3>1 DEF Spread
    <3>2. CASE c \in DOMAIN live \ blocks
      BY <1>1, <2>3, <3>2 DEF Spread
    <3> QED
      BY <1>3, <2>3, <3>1, <3>2
  <2>7. Types'
    BY <1>1, <2>1, <2>2, <2>3, <2>4, ForeignAssumption DEF Types
  <2>8. Spread'
    <3>1. held[t] \subseteq {c}
      BY <1>3
    <3> QED
      BY <1>1, <2>2, <2>3, <2>4, <2>5, <2>6, <3>1 DEF Spread
  <2>9. NothingLost'
    BY <2>7, <2>8, LostFacts
  <2>10. /\ pc'[t] = "hostFree"
         /\ \A u \in Tasks \ {t} : pc'[u] = pc[u] /\ req'[u] = req[u]
    BY <1>1, <2>1 DEF Types
  <2>11. CallOK(t)'
    BY <2>10 DEF CallOK, Calm
  <2> QED
    BY <1>1, <1>2, <2>1, <2>2, <2>4, <2>5, <2>7, <2>9, <2>10, <2>11, MoveKeeps DEF Freeing
<1> QED
  BY <1>4, <1>5

LEMMA HostFreeKeeps ==
    ASSUME IInv, NEW t \in Tasks, HostFree(t) PROVE IInv'
<1> USE DEF memVars, beginVars, Goto, Return
<1>1. /\ Types /\ CallOK(t) /\ NothingLost /\ Spread /\ pc[t] = "hostFree"
      /\ UNCHANGED <<header, blocks, kept, live>>
      /\ sys' = sys \cup held[t] /\ held' = [held EXCEPT ![t] = {}]
      /\ pc' = [pc EXCEPT ![t] = "idle"] /\ req' = [req EXCEPT ![t] = NoReq]
  BY LostFacts DEF IInv, Calls, HostFree
<1>2. /\ held'[t] = {} /\ pc'[t] = "idle" /\ req'[t] = NoReq
      /\ \A u \in Tasks \ {t} : pc'[u] = pc[u] /\ req'[u] = req[u] /\ held'[u] = held[u]
  BY <1>1 DEF Types
<1>3. Types'
  BY <1>1 DEF Types
<1>4. Spread'
  BY <1>1, <1>2 DEF Spread
<1>5. NothingLost'
  BY <1>3, <1>4, LostFacts
<1>6. CallOK(t)'
  BY <1>2 DEF CallOK, Calm
<1> QED
  BY <1>1, <1>2, <1>3, <1>5, <1>6, MoveKeeps DEF Freeing

LEMMA NextKeeps == IInv /\ [Next]_vars => IInv'
<1> SUFFICES ASSUME IInv, [Next]_vars PROVE IInv'
  OBVIOUS
<1>1. CASE Next
  <2>1. PICK t \in Tasks : Call(t) \/ Step(t)
    BY <1>1 DEF Next
  <2>2. CASE Call(t)
    BY <2>2, CalmStepsKeep, DeleteKeeps, TrimKeeps DEF Call
  <2>3. CASE Step(t)
    BY <2>3, CalmStepsKeep, ReuseKeeps, HostMallocKeeps, HeapFreeKeeps, PgcFreeKeeps,
       HostFreeKeeps DEF Step
  <2> QED
    BY <2>1, <2>2, <2>3
<1>2. CASE UNCHANGED vars
  <2>1. UNCHANGED <<used, header, sys, blocks, kept, live, initDone, begun, takeover, pc, req, held>>
    BY <1>2 DEF vars, memVars, beginVars
  <2> QED
    BY <2>1 DEF IInv, Types, NothingLost, Calls, CallOK, Apart
<1> QED
  BY <1>1, <1>2

\* Every pointer goes back where it came from, for any number of tasks and turns
\* of the switch (ProtoGCNewDelete.cpp:28-60, pgc_desktop.cpp:112-165).
THEOREM NothingIsLost == Spec => []NothingLost
<1>1. IInv => NothingLost
  BY DEF IInv
<1> QED
  BY <1>1, InitHolds, NextKeeps, PTL DEF Spec

-----------------------------------------------------------------------------
(* Every counter is exact, once begin has run first.                       *)

Beginning == {"internal", "psram", "begin"}
Asking == {"try", "reserve", "malloc"}

\* begin is run once, by one task, before there is anything to count.
BegunOnce ==
    /\ begun => initDone
    /\ \A t \in Tasks : pc[t] \in Beginning =>
         initDone /\ ~begun /\ \A u \in Tasks \ {t} : pc[u] \notin Beginning
    /\ ~begun => /\ \A t \in Tasks : pc[t] \notin Asking
                 /\ \A c \in Cells : ~header[c].live
                 /\ \A r \in Regions : used[r] = 0

\* A request has these fields.
Whole(q) == [bytes |-> q.bytes, tries |-> q.tries, seen |-> q.seen, cell |-> q.cell]

TryType == [via : {"heap", "raw"}, region : Regions]

\* Who asks has somewhere left to ask, and the host has no live header.
Requests ==
    \A t \in Tasks : pc[t] \in Asking =>
      /\ req[t] = Whole(req[t]) /\ req[t].bytes \in Nat
      /\ req[t].tries \in Seq(TryType) /\ req[t].tries # << >>

Headers ==
    /\ used = [r \in Regions |-> used[r]]
    /\ \A c \in Cells : header[c].live => header[c].size \in Nat /\ header[c].region \in Regions
    /\ \A c \in sys : ~header[c].live
    /\ \A t \in Tasks : pc[t] = "hostFree" => \A c \in held[t] : ~header[c].live

Account == IInv /\ Requests /\ Headers

\* A counter is what is allocated and what is reserved.
AllocatedSum(r) == SumOf(headerSizes, Allocated(r))
ReservedSum(r) == SumOf(reservedBytes, Reserving(r))
CountedIn(r) ==
    used[r] \in Nat /\ used[r] <= capacityFor(r) /\ used[r] = AllocatedSum(r) + ReservedSum(r)
Counted == \A r \in Regions : CountedIn(r)

-----------------------------------------------------------------------------
(* Requests, headers and the start.                                        *)

LEMMA TriesFacts ==
    /\ heapTries \in Seq(TryType) /\ << >> \in Seq(TryType)
    /\ \A s \in Seq(TryType) : s \o rawTries \in Seq(TryType) /\ s \o rawTries # << >>
<1>1. \A caps : regionForCaps(caps) \in Regions
  BY DEF regionForCaps, Regions
<1>2. /\ \A caps : Try("heap", caps) \in TryType
      /\ \A caps : Try("raw", caps) \in TryType
  BY <1>1 DEF Try, TryType
<1>3. heapTries \in Seq(TryType)
  BY <1>2 DEF heapTries
<1>4. rawTries \in Seq(TryType) /\ Len(rawTries) = 3
  BY <1>2 DEF rawTries
<1>5. rawTries[1] \in TryType /\ 1 \in 1..Len(rawTries)
  BY <1>4
<1>6. ASSUME NEW s \in Seq(TryType), NEW r \in Seq(TryType), NEW i \in 1..Len(r)
      PROVE  s \o r \in Seq(TryType) /\ s \o r # << >>
  <2>1. s \o r \in Seq(TryType)
    OBVIOUS
  <2>2. Len(s \o r) = Len(s) + Len(r)
    OBVIOUS
  <2>3. Len(s) \in Nat /\ Len(r) \in Nat /\ Len(r) >= 1
    OBVIOUS
  <2>4. Len(s \o r) >= 1
    BY <2>2, <2>3
  <2>5. Len(<< >>) = 0
    OBVIOUS
  <2> DEFINE q == s \o r
  <2>6. Len(q) >= 1
    BY <2>4
  <2> HIDE DEF q
  <2>7. q # << >>
    BY <2>5, <2>6
  <2> QED
    BY <2>1, <2>7 DEF q
<1>7. << >> \in Seq(TryType)
  OBVIOUS
<1>8. ASSUME NEW s \in Seq(TryType)
      PROVE  s \o rawTries \in Seq(TryType) /\ s \o rawTries # << >>
  BY <1>4, <1>5, <1>6
<1> QED
  BY <1>3, <1>7, <1>8, Zenon

LEMMA NowFacts ==
    ASSUME Requests, NEW t \in Tasks, pc[t] \in Asking
    PROVE  /\ now(t).region \in Regions
           /\ Len(req[t].tries) \in Nat /\ Len(req[t].tries) >= 1
           /\ Tail(req[t].tries) \in Seq(TryType)
           /\ Len(req[t].tries) # 1 => Tail(req[t].tries) # << >>
<1>1. req[t].tries \in Seq(TryType) /\ req[t].tries # << >>
  BY DEF Requests
<1>2. \A s \in Seq(TryType) : s # << >> =>
        /\ Head(s) \in TryType /\ Len(s) \in Nat /\ Len(s) >= 1 /\ Tail(s) \in Seq(TryType)
        /\ Len(Tail(s)) = Len(s) - 1
  OBVIOUS
<1>3. Len(<< >>) = 0
  OBVIOUS
<1>4. now(t) \in TryType
  BY <1>1, <1>2 DEF now
<1>5. Len(req[t].tries) # 1 => Len(Tail(req[t].tries)) # 0
  BY <1>1, <1>2
<1> QED
  BY <1>1, <1>2, <1>3, <1>4, <1>5 DEF TryType

-----------------------------------------------------------------------------
(* begin comes once and first.                                             *)

LEMMA BeginningKept ==
    ASSUME Account, BegunOnce, NEW t \in Tasks, Begin(t) \/ ClearUsed(t) \/ BeginRest(t)
    PROVE  BegunOnce'
<1> USE DEF memVars, beginVars, Goto
<1>1. BegunOnce /\ Types /\ used = [r \in Regions |-> used[r]]
  BY DEF Account, IInv, Headers
<1>2. CASE Begin(t)
  BY <1>1, <1>2 DEF Begin, BegunOnce, Beginning, Asking, Types
<1>3. CASE ClearUsed(t)
  <2>1. pc[t] \in Beginning /\ ~begun /\ used' = used
    BY <1>1, <1>3 DEF ClearUsed, BegunOnce, Beginning, Regions
  <2> QED
    BY <1>1, <1>3, <2>1 DEF ClearUsed, BegunOnce, Beginning, Asking, Types, Regions
<1>4. CASE BeginRest(t)
  BY <1>1, <1>4 DEF BeginRest, BegunOnce, Beginning, Asking, Types
<1> QED
  BY <1>2, <1>3, <1>4

\* Steps that ask for memory come after begin.
LEMMA AskingKept ==
    ASSUME BeginFirst, Account, BegunOnce, NEW t \in Tasks,
           \/ \E n \in Sizes : New(t, n)
           \/ Reuse(t) \/ Load(t) \/ Reserve(t) \/ HostMalloc(t) \/ HostMallocFails(t)
    PROVE  begun /\ BegunOnce'
<1> USE DEF memVars, beginVars, Goto, Return, NextTry
<1>1. BegunOnce /\ Types
  BY DEF Account, IInv
<1>2. begun /\ begun' = begun /\ initDone' = initDone
  BY <1>1 DEF New, Reuse, Load, Reserve, HostMalloc, HostMallocFails, BegunOnce, Asking
<1>3. \A u \in Tasks \ {t} : pc'[u] = pc[u]
  BY <1>1 DEF New, Reuse, Load, Reserve, HostMalloc, HostMallocFails, Types
<1>4. pc'[t] \notin Beginning
  BY <1>1 DEF New, Reuse, Load, Reserve, HostMalloc, HostMallocFails, Types, Beginning
<1> QED
  BY <1>1, <1>2, <1>3, <1>4 DEF BegunOnce

\* Before begin there is nothing to give back.
LEMMA GivingKept ==
    ASSUME Account, BegunOnce, NEW t \in Tasks,
           \/ \E b \in BOOLEAN : EnableTakeover(t, b)
           \/ \E c \in Usable \cup {ForeignCell} : Delete(t, c)
           \/ Trim(t) \/ HeapFree(t) \/ PgcFree(t) \/ HostFree(t)
    PROVE  BegunOnce'
<1> USE DEF memVars, beginVars, Goto, Return
<1>1. BegunOnce /\ Types /\ CallOK(t)
  BY DEF Account, IInv, Calls
<1>2. begun' = begun /\ initDone' = initDone
  BY <1>1 DEF EnableTakeover, Delete, Trim, HeapFree, PgcFree, HostFree
<1>3. \A u \in Tasks \ {t} : pc'[u] = pc[u]
  BY <1>1 DEF EnableTakeover, Delete, Trim, HeapFree, PgcFree, HostFree, Types
<1>4. pc'[t] \notin Beginning /\ pc'[t] \notin Asking
  BY <1>1 DEF EnableTakeover, Delete, Trim, HeapFree, PgcFree, HostFree, Types, Beginning, Asking, startsWith
<1>5. ASSUME ~begun PROVE used' = used /\ header' = header
  <2>1. CASE PgcFree(t)
    <3>1. req[t].cell \in Cells \cup {ForeignCell}
      BY <1>1, <2>1 DEF PgcFree, CallOK, Types
    <3>2. ~header[req[t].cell].live
      BY <1>1, <1>5, <3>1 DEF BegunOnce, Types
    <3> QED
      BY <2>1, <3>2 DEF PgcFree
  <2> QED
    BY <2>1 DEF EnableTakeover, Delete, Trim, HeapFree, HostFree
<1> QED
  BY <1>1, <1>2, <1>3, <1>4, <1>5 DEF BegunOnce

-----------------------------------------------------------------------------
(* Requests stay well formed, and only memory in use has a header.         *)

\* A task that asks has a request in hand.
Asks(t) ==
    pc[t] \in Asking =>
      /\ req[t] = Whole(req[t]) /\ req[t].bytes \in Nat
      /\ req[t].tries \in Seq(TryType) /\ req[t].tries # << >>

LEMMA RequestsAre == (Requests <=> \A t \in Tasks : Asks(t)) /\ (Requests' <=> \A t \in Tasks : Asks(t)')
  BY DEF Requests, Asks

LEMMA RequestsKept ==
    ASSUME Account, NEW t \in Tasks, Call(t) \/ Step(t)
    PROVE  Requests'
<1> USE DEF memVars, beginVars, Goto, Return
<1>1. Types /\ Requests
  BY DEF Account, IInv
<1>2. \A u \in Tasks \ {t} : pc'[u] = pc[u] /\ req'[u] = req[u]
  BY <1>1 DEF Call, Step, Begin, ClearUsed, BeginRest, EnableTakeover, New, Reuse, Load, Reserve, NextTry,
     HostMalloc, HostMallocFails, Delete, Trim, HeapFree, PgcFree, HostFree, Types
<1>3. Asks(t)'
  <2>1. CASE \E n \in Sizes : New(t, n)
    <3>1. PICK n \in Sizes : New(t, n)
      BY <2>1
    <3> DEFINE tries == (IF takeover THEN heapTries ELSE << >>) \o rawTries
    <3>2. tries \in Seq(TryType) /\ tries # << >>
      BY TriesFacts
    <3> HIDE DEF tries
    <3> DEFINE bytes == IF n = 0 THEN 1 ELSE n
    <3>3. bytes \in Nat
      BY SizesAssumption
    <3>4. req' = [req EXCEPT ![t] = [[NoReq EXCEPT !.bytes = bytes] EXCEPT !.tries = tries]]
      BY <3>1 DEF New, tries
    <3> HIDE DEF bytes
    <3> DEFINE first == [NoReq EXCEPT !.bytes = bytes]
    <3>a. first = [bytes |-> bytes, tries |-> << >>, seen |-> 0, cell |-> ForeignCell]
      BY DEF NoReq
    <3> HIDE DEF first
    <3>5. [first EXCEPT !.tries = tries] = [bytes |-> bytes, tries |-> tries, seen |-> 0, cell |-> ForeignCell]
      BY <3>a
    <3>6. req'[t] = [bytes |-> bytes, tries |-> tries, seen |-> 0, cell |-> ForeignCell]
      BY <1>1, <3>4, <3>5 DEF Types, first
    <3> QED
      BY <3>2, <3>3, <3>6 DEF Asks, Whole
  <2>2. CASE Load(t) \/ Reserve(t) \/ HostMallocFails(t)
    <3>1. pc[t] \in Asking
      BY <2>2 DEF Load, Reserve, HostMallocFails, Asking
    <3>2. Asks(t)
      BY <1>1, RequestsAre
    <3> DEFINE q == req[t]
    <3>3. \/ pc'[t] = "idle"
          \/ req'[t] = q
          \/ \E n : req'[t] = [q EXCEPT !.seen = n]
          \/ req'[t] = [[q EXCEPT !.tries = Tail(@)] EXCEPT !.seen = 0] /\ Len(q.tries) # 1
      BY <1>1, <2>2 DEF Load, Reserve, HostMallocFails, NextTry, Types
    <3>4. Len(q.tries) # 1 => Tail(q.tries) \in Seq(TryType) /\ Tail(q.tries) # << >>
      BY <1>1, <3>1, NowFacts
    <3>5. q = Whole(q) /\ q.bytes \in Nat /\ q.tries \in Seq(TryType) /\ q.tries # << >>
      BY <3>1, <3>2 DEF Asks
    <3> HIDE DEF q
    <3>6. ASSUME NEW n, req'[t] = [q EXCEPT !.seen = n] PROVE Asks(t)'
      BY <3>5, <3>6 DEF Asks, Whole
    <3>7. ASSUME req'[t] = [[q EXCEPT !.tries = Tail(@)] EXCEPT !.seen = 0], Len(q.tries) # 1 PROVE Asks(t)'
      <4>1. req'[t] = [bytes |-> q.bytes, tries |-> Tail(q.tries), seen |-> 0, cell |-> q.cell]
        BY <3>5, <3>7 DEF Whole
      <4> QED
        BY <3>4, <3>5, <3>7, <4>1 DEF Asks, Whole
    <3>8. CASE pc'[t] = "idle"
      BY <3>8 DEF Asks, Asking
    <3>9. CASE req'[t] = q
      BY <3>5, <3>9 DEF Asks
    <3> QED
      BY <3>3, <3>6, <3>7, <3>8, <3>9
  <2>3. CASE ~(\E n \in Sizes : New(t, n)) /\ ~Load(t) /\ ~Reserve(t) /\ ~HostMallocFails(t)
    <3>1. pc'[t] \notin Asking
      BY <1>1, <2>3 DEF Call, Step, Begin, ClearUsed, BeginRest, EnableTakeover, Reuse,
         HostMalloc, Delete, Trim, HeapFree, PgcFree, HostFree, Types, Asking, startsWith
    <3> QED
      BY <3>1 DEF Asks
  <2> QED
    BY <2>1, <2>2, <2>3
<1> QED
  BY <1>1, <1>2, <1>3, RequestsAre DEF Asks

\* A header never lives on in memory the host has.
LEMMA HeadersKept ==
    ASSUME Account, NEW t \in Tasks, Call(t) \/ Step(t)
    PROVE  Headers'
<1> USE DEF memVars, beginVars, Goto, Return
<1>1. Types /\ Headers /\ NothingLost /\ CallOK(t) /\ Requests
  BY DEF Account, IInv, Calls
<1>2. used' = [r \in Regions |-> used'[r]]
  BY <1>1 DEF Headers, Call, Step, Begin, ClearUsed, BeginRest, EnableTakeover, New, Reuse, Load, Reserve, NextTry,
     HostMalloc, HostMallocFails, Delete, Trim, HeapFree, PgcFree, HostFree
<1>3. CASE HostMalloc(t)
  <2>1. PICK c \in sys, address \in 0..(Alignment - 1) :
          /\ sys' = sys \ {c}
          /\ header' = [header EXCEPT ![c] = Header(now(t).region, req[t].bytes, address)]
    BY <1>3 DEF HostMalloc
  <2>2. header'[c].size \in Nat /\ header'[c].region \in Regions
    <3>1. pc[t] \in Asking
      BY <1>3 DEF HostMalloc, Asking
    <3>2. now(t).region \in Regions /\ req[t].bytes \in Nat
      BY <1>1, <3>1, NowFacts DEF Requests
    <3>3. header'[c] = Header(now(t).region, req[t].bytes, address)
      BY <1>1, <2>1 DEF Types
    <3> QED
      BY <3>2, <3>3 DEF Header
  <2>3. \A d \in Cells : d # c => header'[d] = header[d]
    BY <2>1
  <2>4. \A u \in Tasks : pc'[u] = "hostFree" => pc[u] = "hostFree" /\ c \notin held[u]
    BY <1>1, <1>3 DEF HostMalloc, Types, NothingLost
  <2>5. held' = held
    BY <1>3 DEF HostMalloc
  <2> QED
    BY <1>1, <1>2, <2>1, <2>2, <2>3, <2>4, <2>5 DEF Headers, Types
<1>4. CASE PgcFree(t)
  <2>1. /\ \A d \in Cells : \/ header'[d] = header[d]
                            \/ header'[d].live = FALSE
        /\ \A u \in Tasks \ {t} : pc'[u] = pc[u] /\ held'[u] = held[u]
        /\ sys' = sys
    <3>1. CASE header[req[t].cell].live
      <4>1. header' = [header EXCEPT ![req[t].cell].live = FALSE]
        BY <1>4, <3>1 DEF PgcFree
      <4>2. \A d \in Cells : d # req[t].cell => header'[d] = header[d]
        BY <4>1
      <4>3. req[t].cell \in Cells \cup {ForeignCell}
        BY <1>1, <1>4, <3>1 DEF PgcFree, CallOK, Types
      <4>4. header'[req[t].cell].live = FALSE
        BY <1>1, <4>1, <4>3 DEF Types
      <4> QED
        BY <1>1, <1>4, <3>1, <4>2, <4>4 DEF PgcFree, Types
    <3>2. CASE ~header[req[t].cell].live
      BY <1>1, <1>4, <3>2 DEF PgcFree, Types
    <3> QED
      BY <3>1, <3>2
  <2>2. pc'[t] = "hostFree" => \A c \in held'[t] : ~header'[c].live
    <3> SUFFICES ASSUME pc'[t] = "hostFree" PROVE \A c \in held'[t] : ~header'[c].live
      OBVIOUS
    <3>1. header[req[t].cell].live
      BY <1>1, <1>4 DEF PgcFree, Types
    <3>2. held'[t] = {req[t].cell} /\ header' = [header EXCEPT ![req[t].cell].live = FALSE]
      BY <1>1, <1>4, <3>1 DEF PgcFree, Types
    <3>3. req[t].cell \in Cells \cup {ForeignCell}
      BY <1>1, <1>4, <3>1 DEF PgcFree, CallOK, Types
    <3> QED
      BY <1>1, <3>2, <3>3 DEF Types
  <2> QED
    BY <1>1, <1>2, <2>1, <2>2 DEF Headers, Types
<1>5. CASE HostFree(t)
  BY <1>1, <1>2, <1>5 DEF HostFree, Headers, Types
<1>6. CASE ~HostMalloc(t) /\ ~PgcFree(t) /\ ~HostFree(t)
  <2>1. header' = header /\ sys' = sys
    BY <1>6 DEF Call, Step, Begin, ClearUsed, BeginRest, EnableTakeover, New, Reuse, Load, Reserve,
     HostMallocFails, Delete, Trim, HeapFree
  <2>2. \A u \in Tasks : pc'[u] = "hostFree" => pc[u] = "hostFree" /\ held'[u] = held[u]
    BY <1>1, <1>6 DEF Call, Step, Begin, ClearUsed, BeginRest, EnableTakeover, New, Reuse, Load, Reserve, NextTry,
     HostMallocFails, Delete, Trim, HeapFree, Types, startsWith, Regions
  <2> QED
    BY <1>1, <1>2, <2>1, <2>2 DEF Headers
<1> QED
  BY <1>3, <1>4, <1>5, <1>6

-----------------------------------------------------------------------------
(* What is allocated and what is reserved, as they grow and shrink.        *)

\* fetch_sub does not wrap on what was added before.
LEMMA ExactSub ==
    ASSUME NEW n \in Nat, n < Word, NEW bytes \in Nat, bytes <= n
    PROVE  sub(n, bytes) = n - bytes
<1>1. \A w \in Nat, m \in Nat : m < w => (m + w) % w = m
  OBVIOUS
<1>2. Word \in Nat /\ n - bytes \in Nat /\ n - bytes < Word /\ n - bytes + Word = (n - bytes) + Word
  BY CapacityAssumption
<1> QED
  BY <1>1, <1>2 DEF sub

LEMMA SummandsAre ==
    ASSUME Headers, Requests, NEW r
    PROVE  /\ IsFiniteSet(Allocated(r)) /\ \A c \in Allocated(r) : headerSizes[c] \in Nat
           /\ IsFiniteSet(Reserving(r)) /\ \A t \in Reserving(r) : reservedBytes[t] \in Nat
<1>1. Allocated(r) \subseteq Cells /\ Reserving(r) \subseteq Tasks
  BY DEF Allocated, Reserving
<1>2. IsFiniteSet(Allocated(r)) /\ IsFiniteSet(Reserving(r))
  BY <1>1, FS_Subset, FiniteAssumption
<1>3. \A c \in Allocated(r) : headerSizes[c] \in Nat
  BY DEF Allocated, headerSizes, Headers
<1>4. \A t \in Reserving(r) : reservedBytes[t] \in Nat
  BY DEF Reserving, reservedBytes, Requests, Asking
<1> QED
  BY <1>2, <1>3, <1>4

LEMMA SumsAreNat ==
    ASSUME Headers, Requests, NEW r
    PROVE  /\ AllocatedSum(r) \in Nat /\ \A c \in Allocated(r) : header[c].size <= AllocatedSum(r)
           /\ ReservedSum(r) \in Nat /\ \A t \in Reserving(r) : req[t].bytes <= ReservedSum(r)
<1>1. AllocatedSum(r) \in Nat /\ \A c \in Allocated(r) : headerSizes[c] <= AllocatedSum(r)
  BY SummandsAre, SumNat DEF AllocatedSum
<1>2. ReservedSum(r) \in Nat /\ \A t \in Reserving(r) : reservedBytes[t] <= ReservedSum(r)
  BY SummandsAre, SumNat DEF ReservedSum
<1>3. \A c \in Allocated(r) : headerSizes[c] = header[c].size
  BY DEF headerSizes, Allocated
<1>4. \A t \in Reserving(r) : reservedBytes[t] = req[t].bytes
  BY DEF reservedBytes, Reserving
<1> QED
  BY <1>1, <1>2, <1>3, <1>4

LEMMA AllocatedSame ==
    ASSUME Headers, Requests, NEW r, Allocated(r)' = Allocated(r),
           \A c \in Allocated(r) : header'[c].size = header[c].size
    PROVE  AllocatedSum(r)' = AllocatedSum(r)
<1> DEFINE f == headerSizes  g == headerSizes'  S == Allocated(r)
<1>1. \A c \in S : g[c] = f[c]
  BY DEF headerSizes, Allocated
<1>2. IsFiniteSet(S)
  BY SummandsAre
<1>3. AllocatedSum(r)' = SumOf(g, S) /\ AllocatedSum(r) = SumOf(f, S)
  BY DEF AllocatedSum
<1> HIDE DEF f, g, S
<1> QED
  BY <1>1, <1>2, <1>3, SumSame

LEMMA ReservedSame ==
    ASSUME Headers, Requests, NEW r, Reserving(r)' = Reserving(r),
           \A t \in Reserving(r) : req'[t].bytes = req[t].bytes
    PROVE  ReservedSum(r)' = ReservedSum(r)
<1> DEFINE f == reservedBytes  g == reservedBytes'  S == Reserving(r)
<1>1. \A t \in S : g[t] = f[t]
  BY DEF reservedBytes, Reserving
<1>2. IsFiniteSet(S)
  BY SummandsAre
<1>3. ReservedSum(r)' = SumOf(g, S) /\ ReservedSum(r) = SumOf(f, S)
  BY DEF ReservedSum
<1> HIDE DEF f, g, S
<1> QED
  BY <1>1, <1>2, <1>3, SumSame

LEMMA AllocatedPut ==
    ASSUME Headers, Requests, NEW r, NEW c \in Cells, c \notin Allocated(r), Allocated(r)' = Allocated(r) \cup {c},
           \A d \in Allocated(r) : header'[d].size = header[d].size, header'[c].size \in Nat
    PROVE  AllocatedSum(r)' = AllocatedSum(r) + header'[c].size
<1> DEFINE f == headerSizes  g == headerSizes'  S == Allocated(r)
<1>1. \A d \in S : g[d] = f[d] /\ f[d] \in Nat
  BY SummandsAre DEF headerSizes, Allocated
<1>2. IsFiniteSet(S) /\ c \notin S
  BY SummandsAre
<1>3. AllocatedSum(r)' = SumOf(g, S \cup {c}) /\ AllocatedSum(r) = SumOf(f, S)
  BY DEF AllocatedSum
<1>4. g[c] = header'[c].size
  BY DEF headerSizes
<1>5. g[c] \in Nat
  BY <1>4
<1> HIDE DEF f, g, S
<1>6. SumOf(g, S \cup {c}) = SumOf(g, S) + g[c]
  <2>1. \A y \in S \cup {c} : g[y] \in Int
    BY <1>1, <1>5
  <2> QED
    BY <1>2, <2>1, SumPut
<1>7. SumOf(f, S) = SumOf(g, S)
  BY <1>1, <1>2, SumSame
<1> QED
  BY <1>3, <1>4, <1>6, <1>7

LEMMA AllocatedDrop ==
    ASSUME Headers, Requests, NEW r, NEW c \in Allocated(r), Allocated(r)' = Allocated(r) \ {c},
           \A d \in Allocated(r) \ {c} : header'[d].size = header[d].size
    PROVE  AllocatedSum(r) = AllocatedSum(r)' + header[c].size
<1> DEFINE f == headerSizes  g == headerSizes'  S == Allocated(r)
<1>1. \A d \in S \ {c} : g[d] = f[d]
  BY DEF headerSizes, Allocated
<1>2. IsFiniteSet(S) /\ IsFiniteSet(S \ {c}) /\ \A d \in S : f[d] \in Nat
  BY SummandsAre, FS_Subset
<1>3. AllocatedSum(r)' = SumOf(g, S \ {c}) /\ AllocatedSum(r) = SumOf(f, S)
  BY DEF AllocatedSum
<1>4. f[c] = header[c].size /\ c \in S
  BY DEF headerSizes, Allocated
<1> HIDE DEF f, g, S
<1>5. SumOf(f, S) = f[c] + SumOf(f, S \ {c}) /\ SumOf(f, S \ {c}) \in Int
  <2>1. \A y \in S : f[y] \in Int
    BY <1>2
  <2>2. \A y \in S \ {c} : f[y] \in Int
    BY <1>2
  <2> QED
    BY <1>2, <1>4, <2>1, <2>2, SumAdds
<1>6. SumOf(f, S \ {c}) = SumOf(g, S \ {c})
  BY <1>1, <1>2, SumSame
<1>7. f[c] \in Int
  BY <1>2, <1>4
<1> QED
  BY <1>3, <1>4, <1>5, <1>6, <1>7

LEMMA ReservedPut ==
    ASSUME Headers, Requests, NEW r, NEW t \in Tasks, t \notin Reserving(r), Reserving(r)' = Reserving(r) \cup {t},
           \A u \in Reserving(r) : req'[u].bytes = req[u].bytes, req'[t].bytes \in Nat
    PROVE  ReservedSum(r)' = ReservedSum(r) + req'[t].bytes
<1> DEFINE f == reservedBytes  g == reservedBytes'  S == Reserving(r)
<1>1. \A u \in S : g[u] = f[u] /\ f[u] \in Nat
  BY SummandsAre DEF reservedBytes, Reserving
<1>2. IsFiniteSet(S) /\ t \notin S
  BY SummandsAre
<1>3. ReservedSum(r)' = SumOf(g, S \cup {t}) /\ ReservedSum(r) = SumOf(f, S)
  BY DEF ReservedSum
<1>4. g[t] = req'[t].bytes
  BY DEF reservedBytes
<1>5. g[t] \in Nat
  BY <1>4
<1> HIDE DEF f, g, S
<1>6. SumOf(g, S \cup {t}) = SumOf(g, S) + g[t]
  <2>1. \A y \in S \cup {t} : g[y] \in Int
    BY <1>1, <1>5
  <2> QED
    BY <1>2, <2>1, SumPut
<1>7. SumOf(f, S) = SumOf(g, S)
  BY <1>1, <1>2, SumSame
<1> QED
  BY <1>3, <1>4, <1>6, <1>7

LEMMA ReservedDrop ==
    ASSUME Headers, Requests, NEW r, NEW t \in Reserving(r), Reserving(r)' = Reserving(r) \ {t},
           \A u \in Reserving(r) \ {t} : req'[u].bytes = req[u].bytes
    PROVE  ReservedSum(r) = ReservedSum(r)' + req[t].bytes
<1> DEFINE f == reservedBytes  g == reservedBytes'  S == Reserving(r)
<1>1. \A u \in S \ {t} : g[u] = f[u]
  BY DEF reservedBytes, Reserving
<1>2. IsFiniteSet(S) /\ IsFiniteSet(S \ {t}) /\ \A u \in S : f[u] \in Nat
  BY SummandsAre, FS_Subset
<1>3. ReservedSum(r)' = SumOf(g, S \ {t}) /\ ReservedSum(r) = SumOf(f, S)
  BY DEF ReservedSum
<1>4. f[t] = req[t].bytes /\ t \in S
  BY DEF reservedBytes, Reserving
<1> HIDE DEF f, g, S
<1>5. SumOf(f, S) = f[t] + SumOf(f, S \ {t}) /\ SumOf(f, S \ {t}) \in Int
  <2>1. \A y \in S : f[y] \in Int
    BY <1>2
  <2>2. \A y \in S \ {t} : f[y] \in Int
    BY <1>2
  <2> QED
    BY <1>2, <1>4, <2>1, <2>2, SumAdds
<1>6. SumOf(f, S \ {t}) = SumOf(g, S \ {t})
  BY <1>1, <1>2, SumSame
<1>7. f[t] \in Int
  BY <1>2, <1>4
<1> QED
  BY <1>3, <1>4, <1>5, <1>6, <1>7

\* What is left when one is taken off.
LEMMA ReservedLess ==
    ASSUME Headers, Requests, NEW r, NEW t \in Reserving(r), Reserving(r)' = Reserving(r) \ {t},
           \A u \in Reserving(r) \ {t} : req'[u].bytes = req[u].bytes
    PROVE  ReservedSum(r)' \in Nat
<1> DEFINE g == reservedBytes'  S == Reserving(r) \ {t}
<1>1. ReservedSum(r)' = SumOf(g, S)
  BY DEF ReservedSum
<1>2. IsFiniteSet(S)
  BY SummandsAre, FS_Subset
<1>3. \A u \in S : g[u] \in Nat
  BY SummandsAre DEF reservedBytes, Reserving
<1> HIDE DEF g, S
<1> QED
  BY <1>1, <1>2, <1>3, SumNat

LEMMA AllocatedLess ==
    ASSUME Headers, Requests, NEW r, NEW c \in Allocated(r), Allocated(r)' = Allocated(r) \ {c},
           \A d \in Allocated(r) \ {c} : header'[d].size = header[d].size
    PROVE  AllocatedSum(r)' \in Nat
<1> DEFINE g == headerSizes'  S == Allocated(r) \ {c}
<1>1. AllocatedSum(r)' = SumOf(g, S)
  BY DEF AllocatedSum
<1>2. IsFiniteSet(S)
  BY SummandsAre, FS_Subset
<1>3. \A d \in S : g[d] \in Nat
  BY SummandsAre DEF headerSizes, Allocated
<1> HIDE DEF g, S
<1> QED
  BY <1>1, <1>2, <1>3, SumNat

\* A step that neither allocates nor reserves.
LEMMA CountedSame ==
    ASSUME Account, Counted, NEW t \in Tasks, used' = used, header' = header,
           \A u \in Tasks \ {t} : pc'[u] = pc[u] /\ req'[u] = req[u],
           pc[t] # "malloc", pc'[t] # "malloc"
    PROVE  Counted'
<1>1. Headers /\ Requests
  BY DEF Account
<1>2. \A r : Reserving(r)' = Reserving(r) /\ \A u \in Reserving(r) : req'[u] = req[u]
  BY DEF Reserving, now
<1>3. \A r : Allocated(r)' = Allocated(r)
  BY DEF Allocated
<1>4. \A r : AllocatedSum(r)' = AllocatedSum(r) /\ ReservedSum(r)' = ReservedSum(r)
  BY <1>1, <1>2, <1>3, AllocatedSame, ReservedSame
<1> QED
  BY <1>4 DEF Counted, CountedIn

\* The compare-and-swap adds what it reserves.
LEMMA ReserveCounts ==
    ASSUME Account, Counted, NEW t \in Tasks, Reserve(t)
    PROVE  Counted'
<1> USE DEF memVars, beginVars, Goto, Return
<1>1. Headers /\ Requests /\ Types
  BY DEF Account, IInv
<1>2. pc[t] = "reserve" /\ header' = header
  BY DEF Reserve
<1>3. \A u \in Tasks \ {t} : pc'[u] = pc[u] /\ req'[u] = req[u]
  BY <1>1 DEF Reserve, NextTry, Types
<1>r. PICK r \in Regions : r = now(t).region
  BY <1>1, <1>2, NowFacts DEF Asking
<1>n. PICK n \in Nat : n = req[t].bytes
  BY <1>1, <1>2 DEF Requests, Asking
<1>4. CASE ~exceeds(r, n, req[t].seen) /\ swapSucceeds(t)
  <2>1. /\ used' = [used EXCEPT ![r] = req[t].seen + n]
        /\ pc'[t] = "malloc" /\ req' = [req EXCEPT ![t].seen = 0] /\ used[r] = req[t].seen
    BY <1>1, <1>r, <1>n, <1>4 DEF Reserve, swapSucceeds, Types
  <2>2. req'[t].bytes = n /\ req'[t].tries = req[t].tries
    <3>1. req[t] = Whole(req[t])
      BY <1>1, <1>2 DEF Requests, Asking
    <3> DEFINE q == req[t]
    <3>2. req'[t] = [q EXCEPT !.seen = 0]
      BY <1>1, <2>1 DEF Types
    <3>3. q = Whole(q)
      BY <3>1
    <3> HIDE DEF q
    <3>4. [q EXCEPT !.seen = 0].bytes = q.bytes /\ [q EXCEPT !.seen = 0].tries = q.tries
      BY <3>3 DEF Whole
    <3> QED
      BY <1>n, <3>2, <3>4 DEF q
  <2>4. now(t)' = now(t)
    BY <2>2 DEF now
  <2>5. \A u \in Tasks : now(u)' = now(u) /\ req'[u].bytes = req[u].bytes
    BY <1>3, <1>n, <2>2, <2>4 DEF now
  <2>6. t \notin Reserving(r) /\ Reserving(r)' = Reserving(r) \cup {t}
    BY <1>2, <1>3, <1>r, <2>1, <2>5 DEF Reserving
  <2>7. \A s : s # r => Reserving(s)' = Reserving(s)
    BY <1>2, <1>3, <1>r, <2>1, <2>5 DEF Reserving
  <2>8. \A s : \A u \in Reserving(s) : req'[u].bytes = req[u].bytes
    BY <2>5 DEF Reserving
  <2>9. \A s : AllocatedSum(s)' = AllocatedSum(s)
    <3>1. \A s : Allocated(s)' = Allocated(s)
      BY <1>2 DEF Allocated
    <3> QED
      BY <1>1, <1>2, <3>1, AllocatedSame
  <2>10. ReservedSum(r)' = ReservedSum(r) + n
    <3>1. req'[t].bytes \in Nat
      BY <2>2
    <3> QED
      BY <1>1, <2>2, <2>6, <2>8, <3>1, ReservedPut
  <2>11. \A s : s # r => ReservedSum(s)' = ReservedSum(s)
    BY <1>1, <2>7, <2>8, ReservedSame
  <2>12. CountedIn(r)'
    <3>1. CountedIn(r) /\ used'[r] = used[r] + n
      BY <1>1, <2>1 DEF Counted, Headers
    <3>2. used[r] + n <= capacityFor(r) /\ capacityFor(r) \in Nat
      BY <1>4, <2>1, <3>1, CapacityAssumption DEF exceeds, capacityFor, CountedIn
    <3>3. AllocatedSum(r) \in Nat /\ ReservedSum(r) \in Nat
      BY <1>1, SumsAreNat
    <3>4. /\ used'[r] \in Nat /\ used'[r] <= capacityFor(r)
          /\ used'[r] = AllocatedSum(r) + (ReservedSum(r) + n)
      BY <3>1, <3>2, <3>3 DEF CountedIn
    <3> QED
      BY <2>9, <2>10, <3>4 DEF CountedIn
  <2>13. ASSUME NEW s \in Regions, s # r PROVE CountedIn(s)'
    <3>1. CountedIn(s) /\ used'[s] = used[s]
      BY <1>1, <2>1, <2>13 DEF Counted, Headers
    <3> QED
      BY <2>9, <2>11, <2>13, <3>1 DEF CountedIn
  <2> QED
    BY <2>12, <2>13 DEF Counted
<1>5. CASE exceeds(r, n, req[t].seen) \/ ~swapSucceeds(t)
  <2>1. used' = used /\ pc'[t] # "malloc"
    BY <1>1, <1>2, <1>r, <1>n, <1>5 DEF Reserve, NextTry, Types
  <2> QED
    BY <1>2, <1>3, <2>1, CountedSame
<1> QED
  BY <1>4, <1>5

\* What host malloc returns was reserved before.
LEMMA HostMallocCounts ==
    ASSUME Account, Counted, NEW t \in Tasks, HostMalloc(t)
    PROVE  Counted'
<1> USE DEF memVars, beginVars, Goto, Return
<1>1. Headers /\ Requests /\ Types
  BY DEF Account, IInv
<1>2. pc[t] = "malloc" /\ used' = used /\ pc'[t] = "idle"
  BY <1>1 DEF HostMalloc, Types
<1>3. \A u \in Tasks \ {t} : pc'[u] = pc[u] /\ req'[u] = req[u]
  BY <1>1 DEF HostMalloc, Types
<1>5. PICK r \in Regions, n \in Nat : r = now(t).region /\ n = req[t].bytes
  BY <1>1, <1>2, NowFacts DEF Requests, Asking
<1>4. PICK c \in sys, address \in 0..(Alignment - 1) : header' = [header EXCEPT ![c] = Header(r, n, address)]
  BY <1>5 DEF HostMalloc
<1>6. c \in Cells /\ ~header[c].live
  BY <1>1 DEF Types, Headers
<1>7. header'[c].live /\ header'[c].region = r /\ header'[c].size = n
  <2>1. header'[c] = Header(r, n, address)
    BY <1>1, <1>4, <1>6 DEF Types
  <2> QED
    BY <2>1 DEF Header
<1>8. \A d : d # c => header'[d] = header[d]
  BY <1>4
<1>9. c \notin Allocated(r) /\ Allocated(r)' = Allocated(r) \cup {c}
  BY <1>6, <1>7, <1>8 DEF Allocated
<1>10. \A s : s # r => Allocated(s)' = Allocated(s)
  BY <1>6, <1>7, <1>8 DEF Allocated
<1>11. \A s : \A d \in Allocated(s) : header'[d].size = header[d].size
  BY <1>6, <1>8 DEF Allocated
<1>12. t \in Reserving(r) /\ Reserving(r)' = Reserving(r) \ {t}
  BY <1>2, <1>3, <1>5 DEF Reserving, now
<1>13. \A s : s # r => Reserving(s)' = Reserving(s)
  BY <1>2, <1>3, <1>5 DEF Reserving, now
<1>14. \A s : \A u \in Reserving(s) \ {t} : req'[u].bytes = req[u].bytes
  BY <1>3 DEF Reserving
<1>15. \A s : s # r => \A u \in Reserving(s) : req'[u].bytes = req[u].bytes
  BY <1>3, <1>5 DEF Reserving, now
<1>16. AllocatedSum(r)' = AllocatedSum(r) + n
  <2>1. header'[c].size \in Nat
    BY <1>5, <1>7
  <2> QED
    BY <1>1, <1>6, <1>7, <1>9, <1>11, <2>1, AllocatedPut
<1>17. ReservedSum(r) = ReservedSum(r)' + n
  BY <1>1, <1>5, <1>12, <1>14, ReservedDrop
<1>18. CountedIn(r)'
  <2>1. CountedIn(r) /\ AllocatedSum(r) \in Nat /\ ReservedSum(r) \in Nat
    BY <1>1, <1>5, SumsAreNat DEF Counted
  <2>2. ReservedSum(r)' \in Nat
    BY <1>1, <1>12, <1>14, ReservedLess
  <2>3. used[r] = (AllocatedSum(r) + n) + ReservedSum(r)'
    BY <1>5, <1>17, <2>1, <2>2 DEF CountedIn
  <2> QED
    BY <1>2, <1>16, <2>1, <2>3 DEF CountedIn
<1>19. ASSUME NEW s \in Regions, s # r PROVE CountedIn(s)'
  <2>1. AllocatedSum(s)' = AllocatedSum(s) /\ ReservedSum(s)' = ReservedSum(s)
    BY <1>1, <1>10, <1>11, <1>13, <1>15, <1>19, AllocatedSame, ReservedSame
  <2> QED
    BY <1>2, <2>1 DEF Counted, CountedIn
<1> QED
  BY <1>18, <1>19 DEF Counted

\* A reservation host malloc failed is given back.
LEMMA HostMallocFailsCounts ==
    ASSUME Account, Counted, NEW t \in Tasks, HostMallocFails(t)
    PROVE  Counted'
<1> USE DEF memVars, beginVars, Goto, Return
<1>1. Headers /\ Requests /\ Types
  BY DEF Account, IInv
<1>2. pc[t] = "malloc" /\ header' = header /\ pc'[t] # "malloc"
  BY <1>1 DEF HostMallocFails, NextTry, Types
<1>3. \A u \in Tasks \ {t} : pc'[u] = pc[u] /\ req'[u] = req[u]
  BY <1>1 DEF HostMallocFails, NextTry, Types
<1>4. PICK r \in Regions, n \in Nat : r = now(t).region /\ n = req[t].bytes
  BY <1>1, <1>2, NowFacts DEF Requests, Asking
<1>5. t \in Reserving(r) /\ Reserving(r)' = Reserving(r) \ {t}
  BY <1>2, <1>3, <1>4 DEF Reserving, now
<1>6. \A s : s # r => Reserving(s)' = Reserving(s)
  BY <1>2, <1>3, <1>4 DEF Reserving, now
<1>7. \A s : \A u \in Reserving(s) : u # t => req'[u].bytes = req[u].bytes
  BY <1>3 DEF Reserving
<1>8. \A s : s # r => t \notin Reserving(s)
  BY <1>4 DEF Reserving
<1>9. \A s : AllocatedSum(s)' = AllocatedSum(s)
  <2>1. \A s : Allocated(s)' = Allocated(s)
    BY <1>2 DEF Allocated
  <2> QED
    BY <1>1, <1>2, <2>1, AllocatedSame
<1>10. ReservedSum(r) = ReservedSum(r)' + n
  BY <1>1, <1>4, <1>5, <1>7, ReservedDrop
<1>11. ReservedSum(r)' \in Nat
  BY <1>1, <1>3, <1>5, <1>7, ReservedLess
<1>12. /\ CountedIn(r) /\ AllocatedSum(r) \in Nat /\ ReservedSum(r) \in Nat
       /\ capacityFor(r) \in Nat /\ capacityFor(r) < Word
  BY <1>1, <1>4, SumsAreNat, CapacityAssumption DEF Counted, capacityFor
<1>13. used[r] = AllocatedSum(r) + (ReservedSum(r)' + n)
  BY <1>10, <1>12 DEF CountedIn
<1>14. used'[r] = sub(used[r], n)
  BY <1>1, <1>4 DEF HostMallocFails, Headers
<1>15. used'[r] = used[r] - n
  <2>1. used[r] \in Nat /\ used[r] < Word /\ n <= used[r]
    BY <1>11, <1>12, <1>13, CapacityAssumption DEF CountedIn
  <2> QED
    BY <1>14, <2>1, ExactSub
<1>16. CountedIn(r)'
  <2>1. /\ used'[r] \in Nat /\ used'[r] <= capacityFor(r)
        /\ used'[r] = AllocatedSum(r) + ReservedSum(r)'
    BY <1>11, <1>12, <1>13, <1>15 DEF CountedIn
  <2> QED
    BY <1>9, <2>1 DEF CountedIn
<1>17. ASSUME NEW s \in Regions, s # r PROVE CountedIn(s)'
  <2>1. ReservedSum(s)' = ReservedSum(s)
    BY <1>1, <1>6, <1>7, <1>8, <1>17, ReservedSame
  <2>2. used'[s] = used[s]
    BY <1>1, <1>4, <1>17 DEF HostMallocFails, Headers
  <2> QED
    BY <1>9, <2>1, <2>2 DEF Counted, CountedIn
<1> QED
  BY <1>16, <1>17 DEF Counted

\* What a header says was added is taken off.
LEMMA PgcFreeCounts ==
    ASSUME Account, Counted, NEW t \in Tasks, PgcFree(t)
    PROVE  Counted'
<1> USE DEF memVars, beginVars, Goto, Return
<1>1. Headers /\ Requests /\ Types /\ CallOK(t)
  BY DEF Account, IInv, Calls
<1>2. pc[t] = "pgcFree" /\ pc'[t] # "malloc"
  BY <1>1 DEF PgcFree, Types
<1>3. \A u \in Tasks \ {t} : pc'[u] = pc[u] /\ req'[u] = req[u]
  BY <1>1 DEF PgcFree, Types
<1>4. CASE ~header[req[t].cell].live
  <2>1. used' = used /\ header' = header
    BY <1>4 DEF PgcFree
  <2> QED
    BY <1>2, <1>3, <2>1, CountedSame
<1>5. CASE header[req[t].cell].live
  <2>1. PICK c \in Cells : c = req[t].cell
    BY <1>1, <1>2, <1>5 DEF CallOK, Types
  <2>2. PICK r \in Regions, n \in Nat : r = header[c].region /\ n = header[c].size
    BY <1>1, <1>5, <2>1 DEF Headers
  <2>3. header' = [header EXCEPT ![c].live = FALSE] /\ used' = [used EXCEPT ![r] = sub(@, n)]
    BY <1>5, <2>1, <2>2 DEF PgcFree
  <2>4. (\A d : d # c => header'[d] = header[d]) /\ ~header'[c].live
    BY <1>1, <2>3 DEF Types
  <2>5. c \in Allocated(r) /\ Allocated(r)' = Allocated(r) \ {c}
    BY <1>5, <2>1, <2>2, <2>4 DEF Allocated
  <2>6. \A s : s # r => Allocated(s)' = Allocated(s) /\ c \notin Allocated(s)
    BY <2>2, <2>4 DEF Allocated
  <2>7. \A s : ReservedSum(s)' = ReservedSum(s)
    <3>1. \A s : Reserving(s)' = Reserving(s) /\ \A u \in Reserving(s) : req'[u].bytes = req[u].bytes
      BY <1>2, <1>3 DEF Reserving, now
    <3> QED
      BY <1>1, <3>1, ReservedSame
  <2>8. AllocatedSum(r) = AllocatedSum(r)' + n
    BY <1>1, <2>2, <2>4, <2>5, AllocatedDrop
  <2>9. AllocatedSum(r)' \in Nat
    BY <1>1, <2>4, <2>5, AllocatedLess
  <2>10. /\ CountedIn(r) /\ AllocatedSum(r) \in Nat /\ ReservedSum(r) \in Nat
         /\ capacityFor(r) \in Nat /\ capacityFor(r) < Word
    BY <1>1, <2>2, SumsAreNat, CapacityAssumption DEF Counted, capacityFor
  <2>11. used[r] = (AllocatedSum(r)' + n) + ReservedSum(r)
    BY <2>8, <2>10 DEF CountedIn
  <2>12. used'[r] = sub(used[r], n)
    BY <1>1, <2>3 DEF Headers
  <2>13. used'[r] = used[r] - n
    <3>1. used[r] \in Nat /\ used[r] < Word /\ n <= used[r]
      BY <2>9, <2>10, <2>11, CapacityAssumption DEF CountedIn
    <3> QED
      BY <2>12, <3>1, ExactSub
  <2>14. CountedIn(r)'
    <3>1. /\ used'[r] \in Nat /\ used'[r] <= capacityFor(r)
          /\ used'[r] = AllocatedSum(r)' + ReservedSum(r)
      BY <2>9, <2>10, <2>11, <2>13 DEF CountedIn
    <3> QED
      BY <2>7, <3>1 DEF CountedIn
  <2>15. ASSUME NEW s \in Regions, s # r PROVE CountedIn(s)'
    <3>1. AllocatedSum(s)' = AllocatedSum(s)
      <4>1. \A d \in Allocated(s) : header'[d].size = header[d].size
        BY <2>4, <2>6, <2>15
      <4> QED
        BY <1>1, <2>6, <2>15, <4>1, AllocatedSame
    <3>2. used'[s] = used[s]
      BY <1>1, <2>3, <2>15 DEF Headers
    <3> QED
      BY <2>7, <3>1, <3>2 DEF Counted, CountedIn
  <2> QED
    BY <2>14, <2>15 DEF Counted
<1> QED
  BY <1>4, <1>5

LEMMA OtherStepsCount ==
    ASSUME Account, BegunOnce, Counted, NEW t \in Tasks, Call(t) \/ Step(t),
           ~Reserve(t), ~HostMalloc(t), ~HostMallocFails(t), ~PgcFree(t)
    PROVE  Counted'
<1> USE DEF memVars, beginVars, Goto, Return
<1>1. Headers /\ BegunOnce /\ Types
  BY DEF Account, IInv
<1>2. header' = header /\ pc[t] # "malloc" /\ pc'[t] # "malloc"
  BY <1>1 DEF Call, Step, Begin, ClearUsed, BeginRest, EnableTakeover, New, Reuse, Load, Delete, Trim,
     HeapFree, HostFree, Types, startsWith, Regions
<1>3. \A u \in Tasks \ {t} : pc'[u] = pc[u] /\ req'[u] = req[u]
  BY <1>1 DEF Call, Step, Begin, ClearUsed, BeginRest, EnableTakeover, New, Reuse, Load, Delete, Trim,
     HeapFree, HostFree, Types
<1>4. used' = used
  <2>1. CASE ClearUsed(t)
    <3>1. pc[t] \in Beginning /\ pc[t] \in Regions
      BY <2>1 DEF ClearUsed, Beginning, Regions
    <3>2. used[pc[t]] = 0
      BY <1>1, <3>1 DEF BegunOnce
    <3> QED
      BY <1>1, <2>1, <3>2 DEF ClearUsed, Headers
  <2> QED
    BY <2>1 DEF Call, Step, Begin, BeginRest, EnableTakeover, New, Reuse, Load, Delete, Trim, HeapFree, HostFree
<1> QED
  BY <1>2, <1>3, <1>4, CountedSame

Accounted == Account /\ BegunOnce /\ Counted

LEMMA AccountedAtFirst == Init => Accounted
<1> SUFFICES ASSUME Init PROVE Accounted
  OBVIOUS
<1>1. BegunOnce /\ Requests /\ Headers
  BY DEF Init, BegunOnce, Beginning, Asking, Requests, Headers, NoHeader
<1>2. ASSUME NEW r \in Regions PROVE CountedIn(r)
  <2>1. Allocated(r) = {} /\ Reserving(r) = {}
    BY DEF Init, Allocated, Reserving, NoHeader
  <2>2. AllocatedSum(r) = 0 /\ ReservedSum(r) = 0
    BY <2>1, SumEmpty DEF AllocatedSum, ReservedSum
  <2>3. used[r] = 0 /\ capacityFor(r) \in Nat
    BY CapacityAssumption DEF Init, capacityFor
  <2> QED
    BY <2>2, <2>3 DEF CountedIn
<1> QED
  BY <1>1, <1>2, InitHolds DEF Accounted, Account, Counted

LEMMA AccountedKept ==
    ASSUME BeginFirst, Accounted, [Next]_vars
    PROVE  Accounted'
<1>1. CASE Next
  <2>1. PICK t \in Tasks : Call(t) \/ Step(t)
    BY <1>1 DEF Next
  <2>2. BegunOnce'
    BY <2>1, BeginningKept, AskingKept, GivingKept DEF Call, Step, Accounted
  <2>3. Requests' /\ Headers'
    BY <2>1, RequestsKept, HeadersKept DEF Accounted
  <2>4. Counted'
    BY <2>1, ReserveCounts, HostMallocCounts, HostMallocFailsCounts, PgcFreeCounts, OtherStepsCount
    DEF Accounted
  <2>5. IInv'
    BY <1>1, NextKeeps DEF Accounted, Account
  <2> QED
    BY <2>2, <2>3, <2>4, <2>5 DEF Accounted, Account
<1>2. CASE UNCHANGED vars
  <2>1. UNCHANGED <<used, header, sys, blocks, kept, live, initDone, begun, takeover, pc, req, held>>
    BY <1>2 DEF vars, memVars, beginVars
  <2>2. IInv'
    BY <1>2, NextKeeps DEF Accounted, Account
  <2>3. BegunOnce' /\ Requests' /\ Headers'
    BY <2>1 DEF Accounted, Account, BegunOnce, Requests, Headers, Whole
  <2>4. \A r : AllocatedSum(r)' = AllocatedSum(r) /\ ReservedSum(r)' = ReservedSum(r)
    BY <2>1 DEF AllocatedSum, ReservedSum, Allocated, Reserving, headerSizes, reservedBytes, now
  <2>5. Counted'
    BY <2>1, <2>4 DEF Accounted, Counted, CountedIn
  <2> QED
    BY <2>2, <2>3, <2>5 DEF Accounted, Account
<1> QED
  BY <1>1, <1>2

\* Each counter is exactly the live allocations and the reservations of its
\* region, and never passes the capacity: no failed compare-and-swap, failed host
\* malloc or delete by another task loses or doubles a byte, and no fetch_sub wraps
\* (pgc_desktop.cpp:98-104, 112-165).  begin has to come first: see DesktopEarly.
THEOREM UsedIsExact ==
    ASSUME BeginFirst PROVE Spec => []UsedExact
<1>1. Accounted /\ [Next]_vars => Accounted'
  BY AccountedKept
<1>2. Accounted => UsedExact
  BY DEF Accounted, Counted, CountedIn, AllocatedSum, ReservedSum, SumOf, UsedExact, WithinCapacity
<1> QED
  BY <1>1, <1>2, AccountedAtFirst, PTL DEF Spec

-----------------------------------------------------------------------------
(* operator new keeps the contract of a heap.                              *)

\* A payload lies in its block, and callers own what they asked for at most.
FitsIn(c) ==
    /\ header[c].payload \in Nat /\ header[c].size \in Nat /\ header[c].total \in Nat
    /\ header[c].payload + header[c].size <= header[c].total
Fitting ==
    /\ live = [c \in DOMAIN live |-> live[c]]
    /\ \A c \in Cells : header[c].live => FitsIn(c)
    /\ \A c \in DOMAIN live : live[c] \in Nat /\ live[c] <= header[c].size

Extents == [c \in DOMAIN live |-> extentOf(c)]

\* The payload of a fresh header begins before its last possible place.
LEMMA HeaderFits ==
    ASSUME NEW r, NEW n \in Nat, NEW address \in 0..(Alignment - 1)
    PROVE  LET h == Header(r, n, address)
           IN  /\ h.payload \in Nat /\ h.total \in Nat /\ h.size = n
               /\ h.payload + n <= h.total
<1>1. \A w \in Nat \ {0} : \A m \in Int : m % w \in 0..(w - 1)
  OBVIOUS
<1>2. Alignment \in Nat \ {0} /\ HeaderBytes \in Nat
  BY LayoutAssumption
<1> DEFINE a == (address + HeaderBytes) % Alignment
           b == (Alignment - a) % Alignment
<1>3. a \in 0..(Alignment - 1)
  BY <1>1, <1>2
<1>4. b \in 0..(Alignment - 1)
  <2> HIDE DEF a
  <2>1. Alignment - a \in Int
    BY <1>2, <1>3
  <2> QED
    BY <1>1, <1>2, <2>1
<1>5. aligned(address) = HeaderBytes + b
  BY DEF aligned
<1> HIDE DEF b
<1>6. total(n) = HeaderBytes + (Alignment - 1) + n
  BY DEF total
<1>7. /\ aligned(address) \in Nat /\ total(n) \in Nat
      /\ aligned(address) + n <= total(n)
  BY <1>2, <1>4, <1>5, <1>6
<1> QED
  BY <1>7 DEF Header

\* How a step changes what callers own.
LEMMA LiveChanges ==
    ASSUME Account, NEW t \in Tasks, Call(t) \/ Step(t), Fitting
    PROVE  \/ live' = live /\ \A c \in DOMAIN live : header'[c] = header[c]
           \/ \E c \in Cells \ DOMAIN live, n \in Nat :
                /\ live' = With(c, n) /\ \A d \in DOMAIN live : header'[d] = header[d]
                /\ header'[c].live /\ n <= header'[c].size
                /\ \/ header'[c] = header[c]
                   \/ \E r \in Regions, address \in 0..(Alignment - 1) : header'[c] = Header(r, n, address)
           \/ \E c \in DOMAIN live :
                /\ live' = Without(c) /\ \A d \in DOMAIN live \ {c} : header'[d] = header[d]
<1> USE DEF memVars, beginVars, Goto, Return
<1>1. Types /\ NothingLost /\ CallOK(t) /\ Requests /\ live = [c \in DOMAIN live |-> live[c]]
  BY DEF Account, IInv, Calls, Fitting
<1>2. CASE Reuse(t)
  <2>1. PICK c \in kept : header[c].size >= req[t].bytes /\ live' = With(c, req[t].bytes)
    BY <1>2 DEF Reuse
  <2>2. c \in Cells \ DOMAIN live /\ header[c].live /\ header' = header
    BY <1>1, <1>2 DEF Reuse, Types, NothingLost
  <2>3. req[t].bytes \in Nat
    BY <1>1, <1>2 DEF Reuse, Requests, Asking
  <2>4. header[c].size \in Nat
    BY <2>2 DEF Account, Headers
  <2> QED
    BY <2>1, <2>2, <2>3, <2>4
<1>3. CASE HostMalloc(t)
  <2>1. PICK r \in Regions, n \in Nat : r = now(t).region /\ n = req[t].bytes
    BY <1>1, <1>3, NowFacts DEF HostMalloc, Requests, Asking
  <2>2. PICK c \in sys, address \in 0..(Alignment - 1) :
          header' = [header EXCEPT ![c] = Header(r, n, address)] /\ live' = With(c, n)
    BY <1>3, <2>1 DEF HostMalloc
  <2>3. c \in Cells \ DOMAIN live
    BY <1>1 DEF Types, NothingLost
  <2>4. header'[c] = Header(r, n, address) /\ \A d \in DOMAIN live : header'[d] = header[d]
    BY <1>1, <2>2, <2>3 DEF Types
  <2>5. header'[c].live /\ header'[c].size = n
    BY <2>4 DEF Header
  <2> QED
    BY <2>2, <2>3, <2>4, <2>5
<1>4. CASE HeapFree(t)
  <2>1. CASE req[t].cell \in blocks
    <3>1. req[t].cell \in DOMAIN live /\ live' = Without(req[t].cell) /\ header' = header
      BY <1>1, <1>4, <2>1 DEF HeapFree, NothingLost
    <3> QED
      BY <3>1
  <2>2. CASE req[t].cell \notin blocks
    BY <1>4, <2>2 DEF HeapFree
  <2> QED
    BY <2>1, <2>2
<1>5. CASE PgcFree(t)
  <2>1. CASE ~header[req[t].cell].live
    BY <1>5, <2>1 DEF PgcFree
  <2>2. CASE header[req[t].cell].live
    <3> DEFINE c == req[t].cell
    <3>1. header' = [header EXCEPT ![c].live = FALSE] /\ live' = Without(c)
      BY <1>5, <2>2 DEF PgcFree
    <3>2. \A d \in DOMAIN live : d # c => header'[d] = header[d]
      BY <3>1
    <3>3. CASE c \in DOMAIN live
      BY <3>1, <3>2, <3>3
    <3>4. CASE c \notin DOMAIN live
      <4>1. Without(c) = live
        BY <1>1, <3>4 DEF Without
      <4> QED
        BY <3>1, <3>2, <3>4, <4>1
    <3> QED
      BY <3>3, <3>4
  <2> QED
    BY <2>1, <2>2
<1>6. CASE ~Reuse(t) /\ ~HostMalloc(t) /\ ~HeapFree(t) /\ ~PgcFree(t)
  <2>1. live' = live /\ header' = header
    BY <1>6 DEF Call, Step, Begin, ClearUsed, BeginRest, EnableTakeover, New, Load, Reserve,
     HostMallocFails, Delete, Trim, HostFree
  <2> QED
    BY <2>1
<1> QED
  BY <1>2, <1>3, <1>4, <1>5, <1>6

LEMMA FittingKept ==
    ASSUME Account, NEW t \in Tasks, Call(t) \/ Step(t), Fitting
    PROVE  Fitting'
<1> USE DEF memVars, beginVars, Goto, Return
<1>1. Types /\ NothingLost /\ CallOK(t) /\ Requests
  BY DEF Account, IInv, Calls
\* A header is fresh, or what it was but for the magic number.
<1>2. ASSUME NEW c \in Cells, header'[c].live PROVE FitsIn(c)'
  <2>1. CASE HostMalloc(t)
    <3>1. PICK r \in Regions, n \in Nat : r = now(t).region /\ n = req[t].bytes
      BY <1>1, <2>1, NowFacts DEF HostMalloc, Requests, Asking
    <3>2. PICK d \in sys, address \in 0..(Alignment - 1) : header' = [header EXCEPT ![d] = Header(r, n, address)]
      BY <2>1, <3>1 DEF HostMalloc
    <3>3. CASE c = d
      <4>1. header'[c] = Header(r, n, address)
        BY <1>1, <3>2, <3>3 DEF Types
      <4> QED
        BY <4>1, HeaderFits DEF FitsIn
    <3>4. CASE c # d
      BY <1>2, <3>2, <3>4 DEF Fitting, FitsIn
    <3> QED
      BY <3>3, <3>4
  <2>2. CASE PgcFree(t)
    <3>1. header'[c] = header[c]
      <4>1. \/ header' = header
            \/ header' = [header EXCEPT ![req[t].cell].live = FALSE]
        BY <2>2 DEF PgcFree
      <4> DEFINE d == req[t].cell
      <4>2. ASSUME header' = [header EXCEPT ![d].live = FALSE] PROVE header'[c] = header[c]
        <5>1. c = d => header'[c].live = FALSE
          BY <1>1, <4>2 DEF Types
        <5>2. c # d => header'[c] = header[c]
          BY <4>2
        <5> QED
          BY <1>2, <5>1, <5>2
      <4> QED
        BY <4>1, <4>2
    <3> QED
      BY <1>2, <3>1 DEF Fitting, FitsIn
  <2>3. CASE ~HostMalloc(t) /\ ~PgcFree(t)
    <3>1. header' = header
      BY <2>3 DEF Call, Step, Begin, ClearUsed, BeginRest, EnableTakeover, New, Reuse, Load, Reserve,
       HostMallocFails, Delete, Trim, HeapFree, HostFree
    <3> QED
      BY <1>2, <3>1 DEF Fitting, FitsIn
  <2> QED
    BY <2>1, <2>2, <2>3
<1>3. CASE live' = live /\ \A c \in DOMAIN live : header'[c] = header[c]
  BY <1>2, <1>3 DEF Fitting
<1>4. ASSUME NEW c \in Cells \ DOMAIN live, NEW n \in Nat, live' = With(c, n),
             \A d \in DOMAIN live : header'[d] = header[d], n <= header'[c].size
      PROVE  Fitting'
  BY <1>2, <1>4 DEF Fitting, With
<1>5. ASSUME NEW c \in DOMAIN live, live' = Without(c), \A d \in DOMAIN live \ {c} : header'[d] = header[d]
      PROVE  Fitting'
  BY <1>2, <1>5 DEF Fitting, Without
<1> QED
  BY <1>3, <1>4, <1>5, LiveChanges

LEMMA ContractStep ==
    ASSUME Account, Account', NEW t \in Tasks, Call(t) \/ Step(t), Fitting, Fitting'
    PROVE  [Contract!ContractNext]_(Contract!cvars)
<1> DEFINE E == Extents
<1>1. E = [c \in DOMAIN live |-> extentOf(c)] /\ E' = [c \in DOMAIN live' |-> extentOf(c)']
  BY DEF Extents
<1>2. DOMAIN E = DOMAIN live /\ DOMAIN E' = DOMAIN live'
  BY <1>1
<1>3. \A c : header'[c] = header[c] => extentOf(c)' = extentOf(c)
  BY DEF extentOf
<1>4. CASE live' = live /\ \A c \in DOMAIN live : header'[c] = header[c]
  <2>1. E' = E
    BY <1>1, <1>3, <1>4
  <2> QED
    BY <1>4, <2>1 DEF Contract!cvars, Extents
<1>5. ASSUME NEW c \in Cells \ DOMAIN live, NEW n \in Nat, live' = With(c, n),
             \A d \in DOMAIN live : header'[d] = header[d], header'[c].live, n <= header'[c].size
      PROVE  Contract!ContractNext
  <2>1. DOMAIN live' = DOMAIN live \cup {c} /\ live'[c] = n
    BY <1>5 DEF With
  <2>2. live' = Contract!Put(live, c, n)
    BY <1>5 DEF With, Contract!Put
  <2>3. E' = Contract!Put(E, c, E'[c])
    BY <1>1, <1>2, <1>3, <1>5, <2>1 DEF Contract!Put
  <2>4. FitsIn(c)'
    BY <1>5 DEF Fitting
  <2>5. E'[c] = [cell |-> c, lo |-> header'[c].payload,
                 hi |-> least(header'[c].payload + header'[c].size, header'[c].total)]
    BY <1>1, <2>1 DEF extentOf
  <2>6. Contract!Holds(E'[c], n)
    BY <1>5, <2>4, <2>5 DEF Contract!Holds, FitsIn, least
  <2>7. \A d \in DOMAIN E : Contract!Disjoint(E[d], E'[c])
    <3>1. ASSUME NEW d \in DOMAIN live PROVE E[d].cell # E'[c].cell
      BY <1>1, <1>5, <2>5, <3>1 DEF extentOf
    <3> QED
      BY <1>2, <3>1 DEF Contract!Disjoint
  <2> HIDE DEF E
  <2>8. Contract!Alloc(c, live'[c], E'[c])
    BY <1>2, <1>5, <2>1, <2>2, <2>3, <2>6, <2>7 DEF Contract!Alloc, Contract!Give, E, Extents
  <2> QED
    BY <2>1, <2>8 DEF Contract!ContractNext, E, Extents
<1>6. ASSUME NEW c \in DOMAIN live, live' = Without(c), \A d \in DOMAIN live \ {c} : header'[d] = header[d]
      PROVE  Contract!ContractNext
  <2>1. live' = Contract!Drop(live, c)
    BY <1>6 DEF Without, Contract!Drop
  <2>2. DOMAIN live' = DOMAIN live \ {c}
    BY <1>6 DEF Without
  <2>3. E' = Contract!Drop(E, c)
    BY <1>1, <1>2, <1>3, <1>6, <2>2 DEF Contract!Drop
  <2> HIDE DEF E
  <2>4. Contract!Free(c)
    BY <1>6, <2>1, <2>3 DEF Contract!Free, E, Extents
  <2> QED
    BY <2>4 DEF Contract!ContractNext
<1> QED
  BY <1>4, <1>5, <1>6, LiveChanges

Served == Account /\ Fitting

LEMMA ServedAtFirst == Init => Served
<1> SUFFICES ASSUME Init PROVE Served
  OBVIOUS
<1>1. Account
  BY AccountedAtFirst DEF Accounted
<1>2. DOMAIN live = {} /\ live = [c \in DOMAIN live |-> live[c]]
  BY DEF Init
<1> QED
  BY <1>1, <1>2 DEF Served, Fitting, Init, NoHeader

LEMMA ServedKept ==
    ASSUME Served, [Next]_vars
    PROVE  Served' /\ [Contract!ContractNext]_(Contract!cvars)
<1>1. IInv'
  BY NextKeeps DEF Served, Account
<1>2. CASE Next
  <2>1. PICK t \in Tasks : Call(t) \/ Step(t)
    BY <1>2 DEF Next
  <2>2. Account' /\ Fitting'
    BY <1>1, <2>1, RequestsKept, HeadersKept, FittingKept DEF Served, Account
  <2> QED
    BY <2>1, <2>2, ContractStep DEF Served
<1>3. CASE UNCHANGED vars
  <2>1. UNCHANGED <<used, header, sys, blocks, kept, live, initDone, begun, takeover, pc, req, held>>
    BY <1>3 DEF vars, memVars, beginVars
  <2>2. Requests' /\ Headers' /\ Fitting'
    BY <2>1 DEF Served, Account, Requests, Headers, Whole, Fitting, FitsIn
  <2>3. UNCHANGED Contract!cvars
    BY <2>1 DEF Contract!cvars, extentOf
  <2> QED
    BY <1>1, <2>2, <2>3 DEF Served, Account
<1> QED
  BY <1>2, <1>3

\* operator new and operator delete implement the contract of a heap: a fresh
\* pointer has all the memory asked for, behind its header and after its alignment,
\* and nobody else's, whichever of the heap and the host serves it, and with or
\* without begin (ProtoGCNewDelete.cpp:28-60, pgc_desktop.cpp:112-165).
THEOREM NewKeepsContract == Spec => KeepsContract
<1>1. Init => Contract!ContractInit
  BY DEF Init, Contract!ContractInit
<1>2. Served /\ [Next]_vars => Served'
  BY ServedKept
<1>3. Served /\ [Next]_vars => [Contract!ContractNext]_(Contract!cvars)
  BY ServedKept
<1> QED
  BY <1>1, <1>2, <1>3, ServedAtFirst, PTL DEF Spec, KeepsContract, Contract!ContractSpec
=============================================================================
