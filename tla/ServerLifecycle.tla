--------------------------- MODULE ServerLifecycle ---------------------------
(***************************************************************************)
(* What c4d-server promises the computation it supervises, without its     *)
(* registry, counters, locks and handlers: ranks are delivered to nodes;   *)
(* the computation starts once, on ActiveNodes nodes that hold the ranks   *)
(* 0 .. ActiveNodes-1 between them; a disruption takes it out of service;  *)
(* it is back in service only after enough nodes were told a rank; and the *)
(* server gives up only after a disruption, never before the start.        *)
(***************************************************************************)
EXTENDS Integers, FiniteSets

CONSTANTS Node, ActiveNodes

VARIABLES phase,     \* "waiting", "serving", "recovering" or "stopped"
          assigned   \* assigned[n]: the last rank delivered to n, -1 before any

Init == phase = "waiting" /\ assigned = [n \in Node |-> -1]

\* A rank reaches a node.
Deliver ==
    /\ phase # "stopped"
    /\ \E n \in Node :
         /\ assigned' = [assigned EXCEPT ![n] = assigned'[n]]
         /\ assigned'[n] \in Nat
    /\ UNCHANGED phase

\* The ranks of the whole world are held by as many nodes.
WorldComplete ==
    \E team \in SUBSET Node :
        /\ Cardinality(team) = ActiveNodes
        /\ {assigned[n] : n \in team} = 0 .. ActiveNodes - 1

Start ==
    /\ phase = "waiting"
    /\ WorldComplete
    /\ phase' = "serving"
    /\ UNCHANGED assigned

Disrupt ==
    /\ phase \in {"serving", "recovering"}
    /\ phase' = "recovering"
    /\ UNCHANGED assigned

Resume ==
    /\ phase = "recovering"
    /\ Cardinality({n \in Node : assigned[n] >= 0}) >= ActiveNodes
    /\ phase' = "serving"
    /\ UNCHANGED assigned

Stop ==
    /\ phase \in {"serving", "recovering"}
    /\ phase' = "stopped"
    /\ UNCHANGED assigned

Next == Deliver \/ Start \/ Disrupt \/ Resume \/ Stop

Spec == Init /\ [][Next]_<<phase, assigned>>

=============================================================================
