------------------------------ MODULE SortedSet ------------------------------
(***************************************************************************)
(* What eaf_map_t promises, without a tree: a set of nodes of which no two *)
(* have the same key, and its size.                                        *)
(***************************************************************************)
EXTENDS Integers, FiniteSets

CONSTANTS Node, Key(_)

VARIABLES members, size

vars == <<members, size>>

Init == members = {} /\ size = 0

Insert(n) ==
    /\ n \notin members
    /\ \A m \in members : Key(m) # Key(n)
    /\ members' = members \cup {n}
    /\ size' = size + 1

Erase(n) ==
    /\ n \in members
    /\ members' = members \ {n}
    /\ size' = size - 1

Next == \E n \in Node : Insert(n) \/ Erase(n)

Spec == Init /\ [][Next]_vars
=============================================================================
