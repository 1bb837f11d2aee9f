--------------------------------- MODULE Map ---------------------------------
(***************************************************************************)
(* map.c: eaf_map_t, the ordered map that the user's comparison function   *)
(* defines over the red-black tree of MapLow.  Nodes belong to the user;   *)
(* two of them may have the same key, of which the map takes only one.     *)
(***************************************************************************)
EXTENDS MapLow, Integers, FiniteSets

CONSTANT Key(_)     \* what the comparison function looks at

\* A total order of the keys, and NULL is no node.
ASSUME MapAssumption ==
    /\ NULL \notin Node /\ IsFiniteSet(Node)
    /\ \A n \in Node : Key(n) \in Int

VARIABLES
    tree,   \* handler->map_low
    count   \* handler->size

mapVars == <<tree, count>>

-----------------------------------------------------------------------------
(* One descent from the root, as every operation of the source makes it. *)

Toward(k, n) == IF k < Key(n) THEN "left" ELSE "right"

\* The node with key k if there is one, else the last node on the way to k.
Descend(t, k, n) ==
    LET down[m \in Node] ==
            LET c == t.kid[Toward(k, m)][m]
            IN  IF Key(m) = k \/ c = NULL THEN m ELSE down[c]
    IN  down[n]

MapFind(t, k) ==
    LET n == Descend(t, k, t.root)
    IN  IF t.root # NULL /\ Key(n) = k THEN n ELSE NULL

\* The last node on the way where the descent turned right (left).
Place == (Node \cup {NULL}) \X (Node \cup {NULL})
FindLower(t, k, n) ==
    LET down[x \in Place] ==
            LET m == x[1]
                c == t.kid[Toward(k, m)][m]
            IN  IF m = NULL THEN x[2]
                ELSE IF k = Key(m) THEN m
                ELSE down[<<c, IF k > Key(m) THEN m ELSE x[2]>>]
    IN  down[<<n, NULL>>]

FindUpper(t, k, n) ==
    LET down[x \in Place] ==
            LET m == x[1]
                c == t.kid[Toward(k, m)][m]
            IN  IF m = NULL THEN x[2]
                ELSE IF k = Key(m) THEN (IF x[2] = NULL THEN t.kid["right"][m] ELSE x[2])
                ELSE down[<<c, IF k < Key(m) THEN m ELSE x[2]>>]
    IN  down[<<n, NULL>>]

MapFindLower(k) == FindLower(tree, k, tree.root)
MapFindUpper(k) == FindUpper(tree, k, tree.root)

-----------------------------------------------------------------------------
MapInit == tree = EmptyTree /\ count = 0

\* The nodes in the map: an erased node has no parent.
Linked(t) == {n \in Node : n = t.root \/ t.up[n] # NULL}

\* eaf_map_insert of a node that is in no map, as the header demands; with
\* eaf_errno_duplicate the map stays as it is.
MapInsertCounts(n) ==               \* faulty: a duplicate is counted, too
    LET p == Descend(tree, Key(n), tree.root)
    IN  /\ n \notin Linked(tree)
        /\ count' = count + 1
        /\ tree' = IF tree.root = NULL THEN InsertColor(LinkNode(tree, n, NULL, "left"), n)
                   ELSE IF Key(p) = Key(n) THEN tree
                   ELSE InsertColor(LinkNode(tree, n, p, Toward(Key(n), p)), n)
MapInsert(n) ==
    LET p == Descend(tree, Key(n), tree.root)
    IN  /\ n \notin Linked(tree)
        /\ IF tree.root = NULL
           THEN /\ tree' = InsertColor(LinkNode(tree, n, NULL, "left"), n)
                /\ count' = count + 1
           ELSE IF Key(p) = Key(n) THEN UNCHANGED mapVars
           ELSE /\ tree' = InsertColor(LinkNode(tree, n, p, Toward(Key(n), p)), n)
                /\ count' = count + 1

\* eaf_map_erase of a node that is in this map.
MapErase(n) ==
    /\ n \in Linked(tree)
    /\ tree' = Erase(tree, n)
    /\ count' = count - 1

MapNext == \E n \in Node : MapInsert(n) \/ MapErase(n)

MapSpec == MapInit /\ [][MapNext]_mapVars

=============================================================================
