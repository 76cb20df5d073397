---------------------------- MODULE MCCollector ----------------------------
(* An instance of Collector under five workloads.  The registries, the     *)
(* blocks of an arena and the counter of poll share no state but the       *)
(* collections, so each is checked with every interleaving of its own calls*)
(* and of the collections; what a callback may call of both registries is  *)
(* checked with one callback and one task at a time inside the facade.     *)
EXTENDS Collector, TLC

LightAndRest == {{"light"}, {"full", "emergency"}}
Blocks == {<<1, 1>>, <<2, 2>>}
Symmetry == Permutations(Objects) \cup Permutations(Callbacks) \cup Permutations(Tasks)

CONSTANT Workloads
VARIABLE workload      \* chosen once

\* Capacities matter to the blocks only.
OneSize == \A a \in Arenas : isReady(arena[a]) => \A n \in Bytes : n <= arena[a].capacity

MCInit ==
    /\ Init
    /\ workload \in Workloads
    /\ workload \in {"purges", "polls"} => ~isReady(arena[Scratch])
    /\ workload # "blocks" => OneSize

\* Collections of two tasks do not notice each other's snapshots.
Alone(t) == \A u \in Tasks \ {t} : \A i \in DOMAIN stack[u] : stack[u][i].kind = "none"

MCNext ==
    /\ UNCHANGED workload
    /\ \E t \in Tasks :
         /\ workload = "nested" => \A u \in Tasks \ {t} : stack[u] = << >>
         /\ \/ workload = "registry" /\ stack[t] = << >>
               /\ RegistryCall(t, {"Manual", "ResetOnLight"})
            \/ workload = "blocks" /\ BlockCall(t)
            \/ workload = "purges" /\ PurgeCall(t)
            \/ workload = "polls" /\ Poll(t)
            \/ workload = "nested" /\ (RegistryCall(t, Policies) \/ PurgeCall(t))
            \/ \E kind \in Kinds :
                 /\ workload \in {"registry", "purges"} => Alone(t)
                 /\ workload = "registry" => kind = "light"
                 /\ Collect(t, kind)
            \/ Step(t)
         /\ workload # "blocks" => OneSize'
         /\ workload = "nested" => Cardinality(Callbacks \cap DOMAIN wanted') <= 1

MCSpec == MCInit /\ [][MCNext]_<<vars, workload>>
=============================================================================
