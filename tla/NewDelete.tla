------------------------------ MODULE NewDelete ------------------------------
(***************************************************************************)
(* Global operator new and delete (src/src/ProtoGCNewDelete.cpp) on the    *)
(* desktop backend (src/src/pgc_desktop.cpp), with the parts of begin and  *)
(* of the takeover switch they depend on.                                  *)
(*                                                                         *)
(* pgc_malloc takes no lock: the read of the counter, the compare-and-swap,*)
(* host malloc and the give-back are steps of their own, and so are the    *)
(* two halves of pgc_free.  The managed heap is used by its contract: it   *)
(* gives out blocks of memory it got from pgc_malloc, keeps that memory    *)
(* when a block is freed or releases it, and ignores other pointers.       *)
(***************************************************************************)
EXTENDS DesktopBackend, Sequences, Functions

CONSTANTS
    Tasks,
    Sizes,       \* sizes asked of operator new
    BeginFirst   \* whether begin has returned before the first operator new

ASSUME SizesAssumption == Sizes \subseteq Nat
ASSUME FiniteAssumption == IsFiniteSet(Tasks) /\ IsFiniteSet(Cells)

VARIABLES
    used,        \* g_usedInternal, g_usedPsram
    header,      \* the AllocHeader in each cell
    sys,         \* cells host malloc has not handed out
    blocks, kept,\* cells of the managed heap: given out, and kept for later
    initDone,    \* s_done of pgc_init
    begun,       \* sBeginCalled
    takeover,    \* sNewDeleteTakeoverEnabled
    pc, req, held,
    live         \* what the callers own: cell |-> size asked for

memVars == <<used, header, sys, blocks, kept, live>>
beginVars == <<initDone, begun, takeover>>
vars == <<memVars, beginVars, pc, req, held>>

NoReq == [bytes |-> 1, tries |-> << >>, seen |-> 0, cell |-> ForeignCell]

Init ==
    /\ used = [r \in Regions |-> 0]
    /\ header = [c \in Cells \cup {ForeignCell} |-> NoHeader]
    /\ sys = Cells /\ blocks = {} /\ kept = {}
    /\ initDone = FALSE /\ begun = FALSE /\ takeover = FALSE
    /\ pc = [t \in Tasks |-> "idle"]
    /\ req = [t \in Tasks |-> NoReq]
    /\ held = [t \in Tasks |-> {}]
    /\ live = << >>

Goto(t, l) == pc' = [pc EXCEPT ![t] = l]
Return(t) == Goto(t, "idle") /\ req' = [req EXCEPT ![t] = NoReq]
With(c, n) == [d \in DOMAIN live \cup {c} |-> IF d = c THEN n ELSE live[d]]
Without(c) == [d \in DOMAIN live \ {c} |-> live[d]]
Usable == {c \in DOMAIN live : \A t \in Tasks : req[t].cell # c}

-----------------------------------------------------------------------------
(* begin, from one task, and the takeover switch.                          *)

\* begin enters pgc_init, whose compare-and-swap lets the first call in; the
\* calls after it change nothing.
Begin(t) ==
    /\ pc[t] = "idle" /\ ~initDone
    /\ initDone' = TRUE /\ Goto(t, "internal")
    /\ UNCHANGED <<memVars, begun, takeover, req, held>>

\* The two stores of pgc_init.
ClearUsed(t) ==
    /\ pc[t] \in Regions
    /\ used' = [used EXCEPT ![pc[t]] = 0]
    /\ Goto(t, IF pc[t] = "internal" THEN "psram" ELSE "begin")
    /\ UNCHANGED <<header, sys, blocks, kept, live, beginVars, req, held>>

\* The rest of begin; sInitialized depends on what the pools got.
BeginRest(t) ==
    /\ pc[t] = "begin"
    /\ begun' = TRUE /\ takeover' \in BOOLEAN
    /\ Goto(t, "idle")
    /\ UNCHANGED <<memVars, initDone, req, held>>

EnableTakeover(t, enabled) ==
    /\ pc[t] = "idle"
    /\ takeover' = enabled
    /\ UNCHANGED <<memVars, initDone, begun, pc, req, held>>

-----------------------------------------------------------------------------
(* operator new.                                                           *)

Try(via, caps) == [via |-> via, region |-> regionForCaps(caps)]
heapTries == <<Try("heap", {"SPIRAM", "8BIT"}), Try("heap", {"INTERNAL", "8BIT"})>>
rawTries == <<Try("raw", {"8BIT"}), Try("raw", {"SPIRAM", "8BIT"}),
              Try("raw", {"INTERNAL", "8BIT"})>>

New(t, n) ==
    /\ pc[t] = "idle" /\ (BeginFirst => begun)
    /\ req' = [req EXCEPT ![t] =
                 [NoReq EXCEPT !.bytes = IF n = 0 THEN 1 ELSE n,
                               !.tries = (IF takeover THEN heapTries ELSE << >>) \o rawTries]]
    /\ Goto(t, "try")
    /\ UNCHANGED <<memVars, beginVars, held>>

now(t) == Head(req[t].tries)
NextTry(t) ==
    IF Len(req[t].tries) = 1 THEN Return(t)
    ELSE Goto(t, "try") /\ req' = [req EXCEPT ![t].tries = Tail(@), ![t].seen = 0]

\* heapAlloc serves from memory the heap has kept.
Reuse(t) ==
    /\ pc[t] = "try" /\ now(t).via = "heap"
    /\ \E c \in kept :
         /\ header[c].region = now(t).region /\ header[c].size >= req[t].bytes
         /\ kept' = kept \ {c} /\ blocks' = blocks \cup {c}
         /\ live' = With(c, req[t].bytes)
    /\ Return(t)
    /\ UNCHANGED <<used, header, sys, beginVars, held>>

\* pgc_malloc, directly or from a heap that has to grow: used.load.
Load(t) ==
    /\ pc[t] = "try"
    /\ req' = [req EXCEPT ![t].seen = used[now(t).region]]
    /\ Goto(t, "reserve")
    /\ UNCHANGED <<memVars, beginVars, held>>

\* FAULT: a load and a store instead of the compare-and-swap.
swaps(t) == TRUE
swapSucceeds(t) == used[now(t).region] = req[t].seen

\* The loop of pgc_malloc: give up, reserve, or read again.
Reserve(t) ==
    /\ pc[t] = "reserve"
    /\ LET r == now(t).region
       IN  IF exceeds(r, req[t].bytes, req[t].seen) THEN NextTry(t) /\ UNCHANGED used
           ELSE IF swapSucceeds(t)
           THEN /\ used' = [used EXCEPT ![r] = req[t].seen + req[t].bytes]
                /\ Goto(t, "malloc") /\ req' = [req EXCEPT ![t].seen = 0]
           ELSE req' = [req EXCEPT ![t].seen = used[r]] /\ UNCHANGED <<used, pc>>
    /\ UNCHANGED <<header, sys, blocks, kept, live, beginVars, held>>

HostMalloc(t) ==
    /\ pc[t] = "malloc"
    /\ \E c \in sys, address \in 0..(Alignment - 1) :
         /\ sys' = sys \ {c}
         /\ header' = [header EXCEPT ![c] = Header(now(t).region, req[t].bytes, address)]
         /\ blocks' = IF now(t).via = "heap" THEN blocks \cup {c} ELSE blocks
         /\ live' = With(c, req[t].bytes)
    /\ Return(t)
    /\ UNCHANGED <<used, kept, beginVars, held>>

HostMallocFails(t) ==
    /\ pc[t] = "malloc"
    /\ used' = [used EXCEPT ![now(t).region] = sub(@, req[t].bytes)]
    /\ NextTry(t)
    /\ UNCHANGED <<header, sys, blocks, kept, live, beginVars, held>>

-----------------------------------------------------------------------------
(* operator delete, and the trim of the managed heap.                      *)

\* FAULT: the switch decides, and not where the pointer came from.
startsBySwitch == IF takeover THEN "heapFree" ELSE "pgcFree"
startsWith == "heapFree"

Delete(t, c) ==
    /\ pc[t] = "idle"
    /\ req' = [req EXCEPT ![t].cell = c]
    /\ Goto(t, startsWith)
    /\ UNCHANGED <<memVars, beginVars, held>>

\* heapFree keeps the memory of a block, or (a fallback block) releases it; what
\* it does not know goes on to pgc_free.
HeapFree(t) ==
    /\ pc[t] = "heapFree"
    /\ LET c == req[t].cell
       IN  IF c \notin blocks THEN Goto(t, "pgcFree") /\ UNCHANGED <<blocks, kept, live, held, req>>
           ELSE /\ blocks' = blocks \ {c} /\ live' = Without(c)
                /\ \/ kept' = kept \cup {c} /\ Return(t) /\ UNCHANGED held
                   \/ /\ held' = [held EXCEPT ![t] = {c}]
                      /\ Goto(t, "pgcFree") /\ UNCHANGED <<kept, req>>
    /\ UNCHANGED <<used, header, sys, beginVars>>

\* mallocTrim releases memory the heap has kept.
Trim(t) ==
    /\ pc[t] = "idle"
    /\ \E c \in kept : /\ kept' = kept \ {c}
                       /\ held' = [held EXCEPT ![t] = {c}]
                       /\ req' = [req EXCEPT ![t].cell = c]
    /\ Goto(t, "pgcFree")
    /\ UNCHANGED <<used, header, sys, blocks, live, beginVars>>

\* pgc_free: a pointer without the magic number is left alone.
PgcFree(t) ==
    /\ pc[t] = "pgcFree"
    /\ LET c == req[t].cell
       IN  IF ~header[c].live THEN Return(t) /\ UNCHANGED <<used, header, live, held>>
           ELSE /\ header' = [header EXCEPT ![c].live = FALSE]
                /\ used' = [used EXCEPT ![header[c].region] = sub(@, header[c].size)]
                /\ live' = Without(c)
                /\ held' = [held EXCEPT ![t] = {c}]
                /\ Goto(t, "hostFree") /\ UNCHANGED req
    /\ UNCHANGED <<sys, blocks, kept, beginVars>>

HostFree(t) ==
    /\ pc[t] = "hostFree"
    /\ sys' = sys \cup held[t]
    /\ held' = [held EXCEPT ![t] = {}]
    /\ Return(t)
    /\ UNCHANGED <<used, header, blocks, kept, live, beginVars>>

-----------------------------------------------------------------------------
Call(t) ==
    \/ Begin(t) \/ \E b \in BOOLEAN : EnableTakeover(t, b)
    \/ \E n \in Sizes : New(t, n)
    \/ \E c \in Usable \cup {ForeignCell} : Delete(t, c)
    \/ Trim(t)

Step(t) ==
    \/ ClearUsed(t) \/ BeginRest(t)
    \/ Reuse(t) \/ Load(t) \/ Reserve(t) \/ HostMalloc(t) \/ HostMallocFails(t)
    \/ HeapFree(t) \/ PgcFree(t) \/ HostFree(t)

Next == \E t \in Tasks : Call(t) \/ Step(t)

Spec == Init /\ [][Next]_vars

-----------------------------------------------------------------------------
(* Properties.                                                             *)

\* No counter runs over its capacity or wraps below zero: the accounting that
\* pgc_init must not corrupt ("fetch_sub on free would underflow",
\* pgc_desktop.cpp:98-104).
WithinCapacity == \A r \in Regions : used[r] <= capacityFor(r)

\* Each counter is the sum of the live allocations of its region and of the
\* reservations under way, whatever compare-and-swaps fail and whatever host
\* mallocs fail (pgc_desktop.cpp:119-137, 161-164).
Reserving(r) == {t \in Tasks : pc[t] = "malloc" /\ now(t).region = r}
Allocated(r) == {c \in Cells : header[c].live /\ header[c].region = r}
headerSizes == [c \in Cells |-> header[c].size]
reservedBytes == [t \in Tasks |-> req[t].bytes]

UsedExact ==
    /\ WithinCapacity
    /\ \A r \in Regions :
         used[r] = SumFunctionOnSet(headerSizes, Allocated(r))
                   + SumFunctionOnSet(reservedBytes, Reserving(r))

\* Every pointer goes back where it came from, though the switch may have been
\* turned since it was handed out (ProtoGCNewDelete.cpp:54-59): a cell is with
\* the host, with a caller, kept by the heap or in one task's hands, the heap
\* has exactly the blocks it gave out, and nobody's memory has lost its header.
NothingLost ==
    /\ Cells = sys \cup DOMAIN live \cup kept \cup UNION {held[t] : t \in Tasks}
    /\ sys \cap (DOMAIN live \cup kept) = {} /\ kept \cap DOMAIN live = {}
    /\ blocks \subseteq DOMAIN live
    /\ \A c \in DOMAIN live \cup kept : header[c].live
    /\ \A t \in Tasks :
         /\ held[t] \cap (sys \cup DOMAIN live \cup kept) = {}
         /\ \A u \in Tasks \ {t} : held[t] \cap held[u] = {}

\* operator new keeps the promise of HeapContract: the payload, moved to an
\* aligned place behind the header, fits in what host malloc returned.
least(m, n) == IF m < n THEN m ELSE n
extentOf(c) ==
    [cell |-> c, lo |-> header[c].payload,
     hi |-> least(header[c].payload + header[c].size, header[c].total)]

Contract == INSTANCE HeapContract WITH extent <- [c \in DOMAIN live |-> extentOf(c)]
KeepsContract == Contract!ContractSpec
=============================================================================
