---------------------------- MODULE MapProperties ----------------------------
(***************************************************************************)
(* What should hold of eaf_map_t: the balance of its tree, the answers of  *)
(* its queries against a definition by sets, and the promise of SortedSet. *)
(***************************************************************************)
EXTENDS Map

CONSTANT Probe      \* the keys that are looked up, present and absent

ASSUME ProbeAssumption == Probe \subseteq Int

\* The nodes that a walk down from the root reaches.
Reach(t) ==
    LET reach[i \in 0 .. Cardinality(Node)] ==
            IF i = 0 THEN {t.root} \ {NULL}
            ELSE LET R == reach[i - 1]
                 IN  R \cup ({t.kid[s][n] : s \in Side, n \in R} \ {NULL})
    IN  reach[Cardinality(Node)]
In == Reach(tree)

\* Up to the root, how many black nodes there are from n on.
BlacksAbove ==
    LET black[n \in In] == (IF IsRed(tree, n) THEN 0 ELSE 1)
                           + (IF n = tree.root THEN 0 ELSE black[tree.up[n]])
    IN  black

\* A node where a path ends: at least one child is missing.
Open == {n \in In : \E s \in Side : tree.kid[s][n] = NULL}

\* The tree stays a red-black tree however nodes come and go: every link down has
\* its link up, no red node has a red child, all paths have as many black nodes.
RedBlack ==
    /\ In = Linked(tree)
    /\ ~IsRed(tree, tree.root)
    /\ \A s \in Side, n \in In :
          LET c == tree.kid[s][n]
          IN  c # NULL => /\ tree.up[c] = n
                          /\ ~(IsRed(tree, n) /\ IsRed(tree, c))
    /\ tree.root # NULL => tree.up[tree.root] = NULL
    /\ \A m, n \in Open : BlacksAbove[m] = BlacksAbove[n]

\* Node n of S if it is the least (greatest) one by key, NULL if S is empty.
Least(S) == IF S = {} THEN NULL ELSE CHOOSE n \in S : \A m \in S : Key(n) <= Key(m)
Greatest(S) == IF S = {} THEN NULL ELSE CHOOSE n \in S : \A m \in S : Key(n) >= Key(m)
With(k) == {n \in In : Key(n) = k}

\* Every query agrees with the set of nodes that are in the map: iteration visits
\* them in the order of their keys both ways, find misses none, find_lower returns the
\* last node that is not above the key, as map.c:92 and its test do (utils.map.c:182),
\* but not map.h:117, and find_upper is right for an absent key.  What map.h says of
\* the last two are the two formulas below.
QueriesAgree ==
    /\ FirstNode(tree) = Least(In) /\ LastNode(tree) = Greatest(In)
    /\ \A n \in In : /\ NextNode(tree, n) = Least({m \in In : Key(m) > Key(n)})
                     /\ PrevNode(tree, n) = Greatest({m \in In : Key(m) < Key(n)})
    /\ \A k \in Probe :
          /\ MapFind(tree, k) = Least(With(k))
          /\ MapFindLower(k) = Greatest({n \in In : Key(n) <= k})
          /\ With(k) = {} => MapFindUpper(k) = Least({n \in In : Key(n) > k})

\* Both, after any sequence of insertions and erasures.
MapSound == RedBlack /\ QueriesAgree

\* The map implements a set of nodes with distinct keys that counts its members.
Set == INSTANCE SortedSet WITH members <- In, size <- count
ImplementsSet == Set!Spec

-----------------------------------------------------------------------------
\* What the header promises and the code does not do

\* map.h:117, of eaf_map_find_lower: "Returns an iterator to the first element not
\* less than the given key".  The code returns the last one not greater.
LowerIsFirstNotLess ==
    \A k \in Probe : MapFindLower(k) = Least({n \in In : Key(n) >= k})

\* map.h:127, of eaf_map_find_upper: "Returns an iterator to the first element
\* greater than the given key", whether or not the key is in the map.
UpperIsFirstGreater ==
    \A k \in Probe : MapFindUpper(k) = Least({n \in In : Key(n) > k})

=============================================================================
