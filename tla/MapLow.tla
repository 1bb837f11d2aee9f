------------------------------- MODULE MapLow -------------------------------
(***************************************************************************)
(* map_low.c: the red-black tree under eaf_map_t.  A tree is one value     *)
(*     [root, kid, up, color]                                              *)
(* kid[s][n] is the child of n at side s (rb_left, rb_right), up[n] and    *)
(* color[n] are the two halves of __rb_parent_color.  The source writes    *)
(* every case twice, for left and for right; here a side is a parameter.   *)
(*                                                                         *)
(* The fields of a node that is in no tree are never read before           *)
(* eaf_map_low_link_node sets them: an erased node is made blank.          *)
(***************************************************************************)
LOCAL INSTANCE Integers

CONSTANTS
    Node,   \* the nodes a user owns
    NULL    \* no node

Side == {"left", "right"}
Other(s) == IF s = "left" THEN "right" ELSE "left"

Tree == [root : Node \cup {NULL}, kid : [Side -> [Node -> Node \cup {NULL}]],
         up : [Node -> Node \cup {NULL}], color : [Node -> {"red", "black"}]]

\* EAF_MAP_LOW_INITIALIZER, with every node out of the tree.
EmptyTree ==
    [root  |-> NULL,
     kid   |-> [s \in Side |-> [n \in Node |-> NULL]],
     up    |-> [n \in Node |-> NULL],
     color |-> [n \in Node |-> "red"]]

-----------------------------------------------------------------------------
(* The helpers: one or two words of one node. *)

IsRed(t, n) == n # NULL /\ t.color[n] = "red"

SetParentColor(t, n, p, c) ==
    IF n = NULL THEN t ELSE [t EXCEPT !.up[n] = p, !.color[n] = c]
SetParent(t, n, p) ==
    IF n = NULL THEN t ELSE [t EXCEPT !.up[n] = p]
SetBlack(t, n) == [t EXCEPT !.color[n] = "black"]

\* p has new where it had old.
ChangeChild(t, old, new, p) ==
    IF p = NULL THEN [t EXCEPT !.root = new]
    ELSE [t EXCEPT !.kid[IF t.kid["left"][p] = old THEN "left" ELSE "right"][p] = new]

\* The rest of a rotation: new takes the parent and the color of old, and old
\* becomes a child of new with color c.
RotateSetParents(t, old, new, c) ==
    LET p == t.up[old]
        u == SetParentColor(t, new, p, t.color[old])
    IN  ChangeChild(SetParentColor(u, old, new, c), old, new, p)

\* The beginning of a rotation: x hands its child y at side s the place above
\* itself, and takes over the child that y had in the middle.
Turn(t, x, y, s) ==
    [t EXCEPT !.kid[s][x] = t.kid[Other(s)][y], !.kid[Other(s)][y] = x]

-----------------------------------------------------------------------------
(* Insertion. *)

LinkNode(t, n, p, s) ==
    LET u == [t EXCEPT !.up[n] = p, !.color[n] = "red",
                       !.kid["left"][n] = NULL, !.kid["right"][n] = NULL]
    IN  IF p = NULL THEN [u EXCEPT !.root = n] ELSE [u EXCEPT !.kid[s][p] = n]

\* Cases 2 and 3: the uncle is black.
InsertRotate(t, n, p, g, s) ==
    LET inner == n = t.kid[Other(s)][p]
        mid   == t.kid[s][n]
        t2    == IF inner
                 THEN SetParentColor(SetParentColor(Turn(t, p, n, Other(s)), mid, p, "black"),
                                     p, n, "red")
                 ELSE t
        top   == IF inner THEN n ELSE p
        low   == t2.kid[Other(s)][top]
        t3    == SetParentColor(Turn(t2, g, top, s), low, g, "black")
    IN  RotateSetParents(t3, g, top, "red")

\* Case 1: the uncle u is red, and the two reds move up to g.
Flip(t, p, u, g) ==
    SetParentColor(SetParentColor(SetParentColor(t, u, g, "black"), p, g, "black"),
                   g, t.up[g], "red")

\* The loop of __rb_insert; a red parent is not the root, so that g is a node.
InsertColor(t0, n0) ==
    LET fix[x \in Tree \X Node] ==
            LET t == x[1]
                n == x[2]
                p == t.up[n]
                g == t.up[p]
                s == IF p # t.kid["right"][g] THEN "left" ELSE "right"
                u == t.kid[Other(s)][g]
            IN  IF p = NULL THEN SetParentColor(t, n, NULL, "black")
                ELSE IF ~IsRed(t, p) THEN t
                ELSE IF g # NULL /\ IsRed(t, u) THEN fix[<<Flip(t, p, u, g), g>>]
                ELSE InsertRotate(t, n, p, g, s)
    IN  fix[<<t0, n0>>]

-----------------------------------------------------------------------------
(* Iteration, and the walk to the end of one side. *)

Extreme(t, n, s) ==
    LET walk[m \in Node] == IF t.kid[s][m] = NULL THEN m ELSE walk[t.kid[s][m]]
    IN  walk[n]

FirstNode(t) == IF t.root = NULL THEN NULL ELSE Extreme(t, t.root, "left")
LastNode(t)  == IF t.root = NULL THEN NULL ELSE Extreme(t, t.root, "right")

\* The first ancestor that has n on the other side than s.
Climb(t, n, s) ==
    LET climb[m \in Node] ==
            LET p == t.up[m]
            IN  IF p # NULL /\ m = t.kid[s][p] THEN climb[p] ELSE p
    IN  climb[n]

Step(t, n, s) ==
    IF t.kid[s][n] # NULL THEN Extreme(t, t.kid[s][n], Other(s)) ELSE Climb(t, n, s)
NextNode(t, n) == Step(t, n, "right")
PrevNode(t, n) == Step(t, n, "left")

-----------------------------------------------------------------------------
(* Removal: __rb_erase_augmented returns the tree without n and the node   *)
(* below which one path is short of a black node, or NULL.                 *)

\* n has at most the child c.
Unlink(t, n, c) ==
    LET p == t.up[n]
        u == SetParentColor(ChangeChild(t, n, c, p), c, p, t.color[n])
    IN  [tree |-> u, rebalance |-> IF c = NULL /\ ~IsRed(t, n) THEN p ELSE NULL]

\* n has two children: its successor takes its place.
Replace(t, n) ==
    LET child == t.kid["right"][n]
        succ  == Extreme(t, child, "left")
        deep  == succ # child
        p     == IF deep THEN t.up[succ] ELSE succ
        c     == t.kid["right"][succ]
        t1    == IF deep
                 THEN SetParent([t EXCEPT !.kid["left"][p] = c, !.kid["right"][succ] = child],
                                child, succ)
                 ELSE t
        left  == t.kid["left"][n]
        t2    == SetParent([t1 EXCEPT !.kid["left"][succ] = left], left, succ)
        t3    == ChangeChild(t2, n, succ, t.up[n])
        t4    == SetParentColor(t3, succ, t.up[n], t.color[n])
    IN  [tree |-> SetParentColor(t4, c, p, "black"),
         rebalance |-> IF c = NULL /\ ~IsRed(t, succ) THEN p ELSE NULL]

EraseAugmented(t, n) ==
    IF t.kid["left"][n] = NULL THEN Unlink(t, n, t.kid["right"][n])
    ELSE IF t.kid["right"][n] = NULL THEN Unlink(t, n, t.kid["left"][n])
    ELSE Replace(t, n)

\* Case 1: a red sibling goes up, so that the new sibling is black.
SiblingAsIs(t, p, s) == t           \* faulty: case 1 is missing
BlackSibling(t, p, s) ==
    LET sib == t.kid[Other(s)][p]
        mid == t.kid[s][sib]
    IN  IF IsRed(t, sib)
        THEN RotateSetParents(SetParentColor(Turn(t, p, sib, Other(s)), mid, p, "black"),
                              p, sib, "red")
        ELSE t

\* Cases 3 and 4: the sibling has a red child, which fills the gap.
FillGap(t, p, s) ==
    LET o     == Other(s)
        sib   == t.kid[o][p]
        inner == ~IsRed(t, t.kid[o][sib])
        near  == t.kid[s][sib]
        t2    == IF inner
                 THEN SetParentColor([Turn(t, sib, near, s) EXCEPT !.kid[o][p] = near],
                                     t.kid[o][near], sib, "black")
                 ELSE t
        top   == IF inner THEN near ELSE sib
        far   == IF inner THEN sib ELSE t.kid[o][sib]
        mid   == t2.kid[s][top]
        t3    == SetParentColor(Turn(t2, p, top, o), far, top, "black")
    IN  RotateSetParents(SetParent(t3, mid, p), p, top, "black")

EraseColor(t0, n0, p0) ==
    LET fix[x \in Tree \X (Node \cup {NULL}) \X Node] ==
            LET n   == x[2]
                p   == x[3]
                s   == IF n # x[1].kid["right"][p] THEN "left" ELSE "right"
                t   == BlackSibling(x[1], p, s)
                sib == t.kid[Other(s)][p]
                \* Case 2: the sibling gives up its black, and p may have none to spare.
                t2  == SetParentColor(t, sib, p, "red")
            IN  IF \E d \in Side : IsRed(t, t.kid[d][sib]) THEN FillGap(t, p, s)
                ELSE IF IsRed(t2, p) THEN SetBlack(t2, p)
                ELSE IF t2.up[p] # NULL THEN fix[<<t2, p, t2.up[p]>>]
                ELSE t2
    IN  fix[<<t0, n0, p0>>]

Blank(t, n) ==
    [t EXCEPT !.up[n] = NULL, !.color[n] = "red",
              !.kid["left"][n] = NULL, !.kid["right"][n] = NULL]

Erase(t, n) ==
    LET e == EraseAugmented(t, n)
    IN  Blank(IF e.rebalance = NULL THEN e.tree ELSE EraseColor(e.tree, NULL, e.rebalance), n)

=============================================================================
