--------------------------- MODULE DeferredQueue ---------------------------
(***************************************************************************)
(* What the deferred frees promise, with no ring and no indices: a queue   *)
(* of at most Capacity records, served in the order of arrival, and a      *)
(* count of those that found it full (src/README.md, "ISR-Safe Deferred    *)
(* Free").                                                                 *)
(***************************************************************************)
EXTENDS Integers, Sequences

CONSTANTS Records, Capacity

VARIABLES queue, dropped

qvars == <<queue, dropped>>

QueueInit == queue = << >> /\ dropped = 0

Put(r) == /\ Len(queue) < Capacity
          /\ queue' = Append(queue, r)
          /\ UNCHANGED dropped

Refuse == /\ Len(queue) = Capacity
          /\ dropped' = dropped + 1
          /\ UNCHANGED queue

Take == /\ queue # << >>
        /\ queue' = Tail(queue)
        /\ UNCHANGED dropped

QueueNext == (\E r \in Records : Put(r)) \/ Refuse \/ Take

QueueSpec == QueueInit /\ [][QueueNext]_qvars
=============================================================================
