------------------------------- MODULE MCUtils -------------------------------
(***************************************************************************)
(* Instances of the data structures of EAF for TLC: the map, the linked    *)
(* list and the clock.  They share nothing; a behaviour is one of one of   *)
(* them, while the variables of the others keep their first values.        *)
(***************************************************************************)
EXTENDS MapProperties, ListProperties, ClockProperties

VARIABLE used   \* "map", "list", "clock"

utilVars == <<used, mapVars, listVars, clockVars>>

\* Keys of the nodes: the last has the key of one in the middle.
TwinKey(n) == IF n = Cardinality(Node) THEN Cardinality(Node) \div 2 ELSE n

UtilInit ==
    /\ MapInit /\ ListInit
    /\ \/ used \in {"map", "list"} /\ ClockInit /\ clock = Zero
       \/ used = "clock" /\ ClockInit

UtilNext ==
    /\ UNCHANGED used
    /\ \/ used = "map" /\ MapNext /\ UNCHANGED <<listVars, clockVars>>
       \/ used = "list" /\ ListNext /\ UNCHANGED <<mapVars, clockVars>>
       \/ used = "clock" /\ ClockNext /\ UNCHANGED <<mapVars, listVars>>

UtilSpec == UtilInit /\ [][UtilNext]_utilVars
==============================================================================
