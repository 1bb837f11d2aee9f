------------------------------ MODULE MapProofs ------------------------------
(***************************************************************************)
(* Proofs about the map, for every finite set of nodes with any integer    *)
(* keys: its red-black tree stays sound, every query agrees with the set   *)
(* of nodes, and the map implements that set.  The last part is about the  *)
(* watchdog, which keeps its records in maps, for every set of records     *)
(* with any intervals, timeouts and jitters, any refusals, and any number  *)
(* of cycles.                                                              *)
(*                                                                         *)
(* The invariant of a tree t of the nodes M is Sound(t, M): there is a     *)
(* function sub that gives every node the nodes of its subtree, with which *)
(* the links have the Shape of a search tree, and a function bh that gives *)
(* every node the black nodes below it, with which the tree is Balanced.   *)
(* A rotation is one fact about sub (RotateShape), whichever case of the   *)
(* source makes it; the loops that go up the tree are walks from the root  *)
(* the other way (TopDown).                                                *)
(***************************************************************************)
EXTENDS MapProperties, WatchdogProperties, QueueLemmas, FiniteSetTheorems

\* A link: to a node or to none.
Ref == Node \cup {NULL}
Color == {"red", "black"}

\* What the constants of the map are.
LEMMA NullOutside == NULL \notin Node
BY MapAssumption

\* Keys are integers.
LEMMA KeyInt == \A n \in Node : Key(n) \in Int
BY MapAssumption

\* There are finitely many nodes.
LEMMA NodeFinite == IsFiniteSet(Node)
BY MapAssumption

\* So are the keys looked up.
LEMMA ProbeInt == Probe \subseteq Int
BY ProbeAssumption

-----------------------------------------------------------------------------
(* What the helpers do to the four fields of a tree. *)

\* The two sides.
LEMMA SideFacts ==
    ASSUME NEW s \in Side
    PROVE  /\ Other(s) \in Side /\ Other(s) # s /\ Other(Other(s)) = s
           /\ \A d \in Side : d = s \/ d = Other(s)
BY DEF Side, Other

\* A tree is its four fields.
LEMMA TreeFields ==
    ASSUME NEW t \in Tree
    PROVE  /\ t.root \in Ref /\ t.kid \in [Side -> [Node -> Ref]]
           /\ t.up \in [Node -> Ref] /\ t.color \in [Node -> Color]
           /\ \A s \in Side, n \in Node : t.kid[s][n] \in Ref
           /\ t = [root |-> t.root, kid |-> t.kid, up |-> t.up, color |-> t.color]
BY DEF Tree, Ref, Color

\* And four fields are a tree.
LEMMA TreeIs ==
    ASSUME NEW r \in Ref, NEW k \in [Side -> [Node -> Ref]],
           NEW u \in [Node -> Ref], NEW c \in [Node -> Color]
    PROVE  [root |-> r, kid |-> k, up |-> u, color |-> c] \in Tree
BY DEF Tree, Ref, Color

\* A tree with other children.
LEMMA NewKid ==
    ASSUME NEW t \in Tree, NEW k
    PROVE  [t EXCEPT !.kid = k] = [root |-> t.root, kid |-> k, up |-> t.up, color |-> t.color]
<1>1. t = [root |-> t.root, kid |-> t.kid, up |-> t.up, color |-> t.color]
  BY TreeFields
<1> QED BY <1>1

\* rb_set_parent_color writes the parent and the color of one node.
LEMMA SetParentColorIs ==
    ASSUME NEW t \in Tree, NEW n \in Ref, NEW p \in Ref, NEW c \in Color
    PROVE  LET u == SetParentColor(t, n, p, c)
           IN  /\ u \in Tree /\ u.root = t.root /\ u.kid = t.kid
               /\ \A m \in Node : /\ u.up[m] = IF m = n THEN p ELSE t.up[m]
                                  /\ u.color[m] = IF m = n THEN c ELSE t.color[m]
<1>1. CASE n = NULL
  BY <1>1, NullOutside DEF SetParentColor
<1>2. CASE n # NULL
  <2> DEFINE u == [root |-> t.root, kid |-> t.kid, up |-> [t.up EXCEPT ![n] = p],
                   color |-> [t.color EXCEPT ![n] = c]]
  <2>1. SetParentColor(t, n, p, c) = u
    <3> DEFINE v == [t EXCEPT !.up[n] = p]
    <3>1. v = [root |-> t.root, kid |-> t.kid, up |-> [t.up EXCEPT ![n] = p],
               color |-> t.color]
      BY TreeFields
    <3>3. SetParentColor(t, n, p, c) = [v EXCEPT !.color[n] = c]
      BY <1>2 DEF SetParentColor
    <3> HIDE DEF v
    <3>2. [v EXCEPT !.color[n] = c] = u
      <4>1. v.color = t.color
        BY <3>1
      <4> QED BY <3>1, <4>1
    <3> QED BY <3>2, <3>3
  <2>2. u.up \in [Node -> Ref] /\ u.color \in [Node -> Color]
    BY TreeFields
  <2>3. u \in Tree
    BY <2>2, TreeFields, TreeIs
  <2> QED BY <2>1, <2>3, TreeFields
<1> QED BY <1>1, <1>2

\* rb_set_parent writes the parent of one node.
LEMMA SetParentIs ==
    ASSUME NEW t \in Tree, NEW n \in Ref, NEW p \in Ref
    PROVE  LET u == SetParent(t, n, p)
           IN  /\ u \in Tree /\ u.root = t.root /\ u.kid = t.kid /\ u.color = t.color
               /\ \A m \in Node : u.up[m] = IF m = n THEN p ELSE t.up[m]
<1>1. CASE n = NULL
  BY <1>1, NullOutside DEF SetParent
<1>2. CASE n # NULL
  <2> DEFINE u == [root |-> t.root, kid |-> t.kid, up |-> [t.up EXCEPT ![n] = p],
                   color |-> t.color]
  <2>1. SetParent(t, n, p) = u
    BY <1>2, TreeFields DEF SetParent
  <2>2. u.up \in [Node -> Ref]
    BY TreeFields
  <2>3. u \in Tree
    BY <2>2, TreeFields, TreeIs
  <2> QED BY <2>1, <2>3, TreeFields
<1> QED BY <1>1, <1>2

\* rb_set_black writes the color of one node.
LEMMA SetBlackIs ==
    ASSUME NEW t \in Tree, NEW n \in Node
    PROVE  LET u == SetBlack(t, n)
           IN  /\ u \in Tree /\ u.root = t.root /\ u.kid = t.kid /\ u.up = t.up
               /\ \A m \in Node : u.color[m] = IF m = n THEN "black" ELSE t.color[m]
<1> DEFINE u == [root |-> t.root, kid |-> t.kid, up |-> t.up,
                 color |-> [t.color EXCEPT ![n] = "black"]]
<1>1. SetBlack(t, n) = u
  BY TreeFields DEF SetBlack
<1>2. u.color \in [Node -> Color]
  BY TreeFields DEF Color
<1>3. u \in Tree
  BY <1>2, TreeFields, TreeIs
<1> QED BY <1>1, <1>3, TreeFields

\* One child of one node.
LEMMA SetKidIs ==
    ASSUME NEW t \in Tree, NEW s \in Side, NEW n \in Node, NEW c \in Ref
    PROVE  LET u == [t EXCEPT !.kid[s][n] = c]
           IN  /\ u \in Tree /\ u.root = t.root /\ u.up = t.up /\ u.color = t.color
               /\ \A d \in Side, m \in Node :
                     u.kid[d][m] = IF d = s /\ m = n THEN c ELSE t.kid[d][m]
<1> DEFINE k == [t.kid EXCEPT ![s][n] = c]
           u == [root |-> t.root, kid |-> k, up |-> t.up, color |-> t.color]
<1>1. [t EXCEPT !.kid[s][n] = c] = u
  BY NewKid
<1>2. \A d \in Side, m \in Node : k[d][m] = IF d = s /\ m = n THEN c ELSE t.kid[d][m]
  BY TreeFields
<1>3. k \in [Side -> [Node -> Ref]]
  BY TreeFields
<1>4. u \in Tree
  BY <1>3, TreeFields, TreeIs
<1> QED BY <1>1, <1>2, <1>4, TreeFields

\* Another root.
LEMMA SetRootIs ==
    ASSUME NEW t \in Tree, NEW r \in Ref
    PROVE  LET u == [t EXCEPT !.root = r]
           IN  u \in Tree /\ u.root = r /\ u.kid = t.kid /\ u.up = t.up /\ u.color = t.color
<1> DEFINE u == [root |-> r, kid |-> t.kid, up |-> t.up, color |-> t.color]
<1>1. [t EXCEPT !.root = r] = u
  BY TreeFields
<1>2. u \in Tree
  BY TreeFields, TreeIs
<1> QED BY <1>1, <1>2, TreeFields

ChildChanged(t, u, a, b, p) ==
    /\ u \in Tree /\ u.up = t.up /\ u.color = t.color
    /\ u.root = IF p = NULL THEN b ELSE t.root
    /\ \A d \in Side, m \in Node :
          u.kid[d][m] = IF m = p /\ d = (IF t.kid["left"][p] = a THEN "left" ELSE "right")
                        THEN b ELSE t.kid[d][m]

\* __rb_change_child writes one child, or the root.
LEMMA ChangeChildIs ==
    ASSUME NEW t \in Tree, NEW a \in Ref, NEW b \in Ref, NEW p \in Ref
    PROVE  ChildChanged(t, ChangeChild(t, a, b, p), a, b, p)
<1> USE DEF ChildChanged
<1>1. CASE p = NULL
  <2>1. ChangeChild(t, a, b, p) = [t EXCEPT !.root = b]
    BY <1>1 DEF ChangeChild
  <2> QED BY <1>1, <2>1, SetRootIs, NullOutside
<1>2. CASE p # NULL
  <2> DEFINE s == IF t.kid["left"][p] = a THEN "left" ELSE "right"
  <2>0. s \in Side /\ p \in Node
    BY <1>2 DEF Side, Ref
  <2>1. ChangeChild(t, a, b, p) = [t EXCEPT !.kid[s][p] = b]
    BY <1>2 DEF ChangeChild
  <2> HIDE DEF s
  <2>2. LET u == [t EXCEPT !.kid[s][p] = b]
        IN  /\ u \in Tree /\ u.root = t.root /\ u.up = t.up /\ u.color = t.color
            /\ \A d \in Side, m \in Node :
                  u.kid[d][m] = IF d = s /\ m = p THEN b ELSE t.kid[d][m]
    BY <2>0, SetKidIs
  <2> QED BY <1>2, <2>1, <2>2 DEF s
<1> QED BY <1>1, <1>2

KidsTurned(t, u, x, y, s) ==
    /\ u \in Tree /\ u.root = t.root /\ u.up = t.up /\ u.color = t.color
    /\ \A d \in Side, m \in Node :
          u.kid[d][m] = IF d = s /\ m = x THEN t.kid[Other(s)][y]
                        ELSE IF d = Other(s) /\ m = y THEN x ELSE t.kid[d][m]

\* The beginning of a rotation writes two children.
LEMMA TurnIs ==
    ASSUME NEW t \in Tree, NEW x \in Node, NEW y \in Node, NEW s \in Side
    PROVE  KidsTurned(t, Turn(t, x, y, s), x, y, s)
<1> DEFINE c == t.kid[Other(s)][y]
           v == [t EXCEPT !.kid[s][x] = c]
           u == [v EXCEPT !.kid[Other(s)][y] = x]
<1>1. Turn(t, x, y, s) = u
  BY TreeFields DEF Turn
<1>2. c \in Ref /\ x \in Ref /\ Other(s) \in Side /\ Other(s) # s
  BY TreeFields, SideFacts DEF Ref
<1> HIDE DEF c
<1>3. /\ v \in Tree /\ v.root = t.root /\ v.up = t.up /\ v.color = t.color
      /\ \A d \in Side, m \in Node :
            v.kid[d][m] = IF d = s /\ m = x THEN c ELSE t.kid[d][m]
  BY <1>2, SetKidIs, SMTT(60)
<1> HIDE DEF v
<1>4. /\ u \in Tree /\ u.root = v.root /\ u.up = v.up /\ u.color = v.color
      /\ \A d \in Side, m \in Node :
            u.kid[d][m] = IF d = Other(s) /\ m = y THEN x ELSE v.kid[d][m]
  BY <1>2, <1>3, SetKidIs, SMTT(60)
<1> HIDE DEF u
<1> QED BY <1>1, <1>2, <1>3, <1>4 DEF c, KidsTurned

-----------------------------------------------------------------------------
(* The shape of a tree: sub[n] are the nodes of the subtree of n. *)

\* m is on side s of n.
Before(s, m, n) == IF s = "left" THEN Key(m) < Key(n) ELSE Key(n) < Key(m)


Distinctly(M) == \A a, b \in M : Key(a) = Key(b) => a = b

\* Keys that differ order the nodes, from either side.
LEMMA BeforeFacts ==
    ASSUME NEW M \in SUBSET Node, Distinctly(M), NEW s \in Side
    PROVE  /\ \A a \in M : ~Before(s, a, a)
           /\ \A a, b \in M : Before(Other(s), a, b) <=> Before(s, b, a)
           /\ \A a, b \in M : a = b \/ Before(s, a, b) \/ Before(s, b, a)
           /\ \A a, b \in M : ~(Before(s, a, b) /\ Before(s, b, a))
           /\ \A a, b, c \in M : Before(s, a, b) /\ Before(s, b, c) => Before(s, a, c)
BY KeyInt DEF Before, Distinctly, Side, Other

Half(sub, s, n) == {m \in sub[n] : Before(s, m, n)}

Shape(t, M, sub) ==
    /\ M \in SUBSET Node /\ sub \in [Node -> SUBSET M] /\ Distinctly(M)
    /\ M = {} => t.root = NULL
    /\ M # {} => t.root \in M /\ sub[t.root] = M /\ t.up[t.root] = NULL
    /\ \A n \in M : n \in sub[n]
    /\ \A n \in M, s \in Side :
          /\ t.kid[s][n] = NULL => Half(sub, s, n) = {}
          /\ t.kid[s][n] # NULL => /\ t.kid[s][n] \in M /\ t.up[t.kid[s][n]] = n
                                   /\ sub[t.kid[s][n]] = Half(sub, s, n)
    /\ \A n \in M : n # t.root => t.up[n] \in M /\ \E s \in Side : t.kid[s][t.up[n]] = n

\* What is known of a child.
LEMMA KidFacts ==
    ASSUME NEW t \in Tree, NEW M, NEW sub, Shape(t, M, sub), NEW n \in M, NEW s \in Side,
           t.kid[s][n] # NULL
    PROVE  LET c == t.kid[s][n]
           IN  /\ c \in M /\ c \in Node /\ n \in Node /\ t.up[c] = n /\ sub[c] = Half(sub, s, n)
               /\ c \in sub[n] /\ Before(s, c, n) /\ n \notin sub[c] /\ n # c
               /\ sub[c] \subseteq sub[n] /\ c # t.root
<1> DEFINE c == t.kid[s][n]
<1>1. c \in M /\ t.up[c] = n /\ sub[c] = Half(sub, s, n) /\ c \in sub[c] /\ M \subseteq Node
  BY DEF Shape
<1>2. c \in sub[n] /\ Before(s, c, n) /\ sub[c] \subseteq sub[n]
  BY <1>1 DEF Half
<1>3. n \notin sub[c]
  BY <1>1, BeforeFacts DEF Half, Shape
<1>4. c # t.root
  BY <1>1, NullOutside DEF Shape
<1> QED BY <1>1, <1>2, <1>3, <1>4

\* What is known of a parent.
LEMMA UpFacts ==
    ASSUME NEW t \in Tree, NEW M, NEW sub, Shape(t, M, sub), NEW n \in M
    PROVE  /\ n \in Node /\ M # {} /\ n # NULL
           /\ t.up[n] = NULL <=> n = t.root
           /\ t.up[n] # NULL => t.up[n] \in M /\ \E s \in Side : t.kid[s][t.up[n]] = n
<1>1. n \in Node /\ M # {}
  BY DEF Shape
<1>2. n = t.root => t.up[n] = NULL
  BY <1>1 DEF Shape
<1>3. n # t.root => t.up[n] \in M /\ \E s \in Side : t.kid[s][t.up[n]] = n
  BY DEF Shape
<1> QED BY <1>1, <1>2, <1>3, NullOutside DEF Shape

\* The two children of a node are different nodes, and their subtrees are disjoint.
LEMMA KidsApart ==
    ASSUME NEW t \in Tree, NEW M, NEW sub, Shape(t, M, sub), NEW n \in M, NEW s \in Side,
           t.kid[s][n] # NULL
    PROVE  /\ t.kid[Other(s)][n] # t.kid[s][n]
           /\ \A m \in sub[t.kid[s][n]] : m # n /\ m \notin Half(sub, Other(s), n)
<1>1. sub[t.kid[s][n]] = Half(sub, s, n) /\ t.kid[s][n] \in sub[t.kid[s][n]]
  BY KidFacts DEF Shape
<1>2. \A m \in Half(sub, s, n) : m # n /\ m \notin Half(sub, Other(s), n)
  <2>1. sub[n] \subseteq M /\ n \in M /\ Distinctly(M) /\ M \in SUBSET Node
    BY DEF Shape
  <2> QED BY <2>1, BeforeFacts DEF Half
<1>3. t.kid[Other(s)][n] # NULL => sub[t.kid[Other(s)][n]] = Half(sub, Other(s), n)
  BY SideFacts, KidFacts
<1> QED BY <1>1, <1>2, <1>3

-----------------------------------------------------------------------------
(* A rotation: the child y of x at side s takes the place of x. *)

Rotated(t, u, x, s) ==
    LET o == Other(s)
        y == t.kid[s][x]
        mid == t.kid[o][y]
        p == t.up[x]
    IN  /\ u \in Tree
        /\ u.root = IF p = NULL THEN y ELSE t.root
        /\ \A d \in Side, m \in Node :
              u.kid[d][m] = IF m = x /\ d = s THEN mid
                            ELSE IF m = y /\ d = o THEN x
                            ELSE IF m = p /\ t.kid[d][m] = x THEN y ELSE t.kid[d][m]
        /\ \A m \in Node : u.up[m] = IF m = x THEN y ELSE IF m = y THEN p
                                     ELSE IF m = mid THEN x ELSE t.up[m]

Turned(sub, x, y, s) ==
    [sub EXCEPT ![y] = sub[x], ![x] = {m \in sub[x] : Before(Other(s), m, y)}]

\* A rotation keeps the shape: it moves a subtree that lies between x and y.
LEMMA RotateShape ==
    ASSUME NEW t \in Tree, NEW M, NEW sub, Shape(t, M, sub), NEW x \in M, NEW s \in Side,
           t.kid[s][x] # NULL, NEW u, Rotated(t, u, x, s)
    PROVE  Shape(u, M, Turned(sub, x, t.kid[s][x], s))
<1> DEFINE o == Other(s)
           y == t.kid[s][x]
           mid == t.kid[o][y]
           p == t.up[x]
           S == Turned(sub, x, y, s)
<1>0. o \in Side /\ o # s /\ Other(o) = s /\ \A d \in Side : d = s \/ d = o
  BY SideFacts
<1>1. /\ y \in M /\ y \in Node /\ x \in Node /\ t.up[y] = x /\ sub[y] = Half(sub, s, x)
      /\ y \in sub[x] /\ Before(s, y, x) /\ x \notin sub[y] /\ x # y /\ y # t.root
  BY KidFacts
<1>2. mid # NULL => /\ mid \in M /\ mid \in Node /\ t.up[mid] = y /\ sub[mid] = Half(sub, o, y)
                    /\ mid # y /\ mid # x /\ mid \in sub[y]
  BY <1>0, <1>1, KidFacts
<1>3. mid = NULL => Half(sub, o, y) = {}
  BY <1>0, <1>1 DEF Shape
<1>4. /\ p = NULL <=> x = t.root
      /\ p # NULL => p \in M /\ p \in Node /\ p # x /\ p # y /\ \E e \in Side : t.kid[e][p] = x
  <2>1. ASSUME p # NULL PROVE p \in M /\ p # x /\ p # y /\ \E e \in Side : t.kid[e][p] = x
    <3>1. p \in M /\ \E e \in Side : t.kid[e][p] = x
      BY <2>1, UpFacts
    <3>2. PICK e \in Side : t.kid[e][p] = x
      BY <3>1
    <3>3. x # NULL
      BY <1>1, NullOutside
    <3>4. p \notin sub[x] /\ x # p /\ x \in sub[p]
      BY <3>1, <3>2, <3>3, KidFacts
    <3> QED BY <3>1, <3>4, <1>1
  <2> QED BY <2>1, UpFacts DEF Shape
<1>5. /\ M \in SUBSET Node /\ sub \in [Node -> SUBSET M] /\ Distinctly(M) /\ NULL \notin M
  BY NullOutside DEF Shape
<1>6. /\ S \in [Node -> SUBSET M]
      /\ S[y] = sub[x] /\ S[x] = {m \in sub[x] : Before(o, m, y)}
      /\ \A n \in Node : n # x /\ n # y => S[n] = sub[n]
  BY <1>1, <1>5 DEF Turned
<1>7. /\ u \in Tree
      /\ u.root = IF p = NULL THEN y ELSE t.root
      /\ \A d \in Side, m \in Node :
            u.kid[d][m] = IF m = x /\ d = s THEN mid
                          ELSE IF m = y /\ d = o THEN x
                          ELSE IF m = p /\ t.kid[d][m] = x THEN y ELSE t.kid[d][m]
      /\ \A m \in Node : u.up[m] = IF m = x THEN y ELSE IF m = y THEN p
                                   ELSE IF m = mid THEN x ELSE t.up[m]
  BY DEF Rotated
<1>8. /\ \A a \in M : ~Before(s, a, a)
      /\ \A a, b \in M : Before(o, a, b) <=> Before(s, b, a)
      /\ \A a, b \in M : a = b \/ Before(s, a, b) \/ Before(s, b, a)
      /\ \A a, b \in M : ~(Before(s, a, b) /\ Before(s, b, a))
      /\ \A a, b, c \in M : Before(s, a, b) /\ Before(s, b, c) => Before(s, a, c)
  BY <1>5, BeforeFacts
<1>9. \A n \in M, d \in Side :
         /\ t.kid[d][n] = NULL => Half(sub, d, n) = {}
         /\ t.kid[d][n] # NULL => /\ t.kid[d][n] \in M /\ t.up[t.kid[d][n]] = n
                                  /\ sub[t.kid[d][n]] = Half(sub, d, n)
  BY DEF Shape
<1>10. \A n \in M : n \in sub[n] /\ sub[n] \subseteq M
  BY DEF Shape
<1>11. \A n \in M : n # t.root => t.up[n] \in M /\ \E e \in Side : t.kid[e][t.up[n]] = n
  BY DEF Shape
<1>12. t.root \in M /\ sub[t.root] = M /\ t.up[t.root] = NULL
  BY DEF Shape
<1> HIDE DEF o, y, mid, p, S
<1>20. /\ u.root \in M /\ S[u.root] = M /\ u.up[u.root] = NULL
  <2>1. CASE p = NULL
    BY <2>1, <1>1, <1>4, <1>6, <1>7, <1>12
  <2>2. CASE p # NULL
    <3>1. t.root # x /\ t.root # y /\ t.root # mid
      BY <2>2, <1>1, <1>2, <1>4, <1>5, <1>12
    <3> QED BY <2>2, <3>1, <1>5, <1>6, <1>7, <1>12
  <2> QED BY <2>1, <2>2
<1>21. \A n \in M : n \in S[n]
  <2>1. x \in S[x]
    BY <1>1, <1>6, <1>8, <1>10
  <2> QED BY <2>1, <1>1, <1>6, <1>10, <1>5
<1>22. ASSUME NEW n \in M, NEW d \in Side
       PROVE  /\ u.kid[d][n] = NULL => Half(S, d, n) = {}
              /\ u.kid[d][n] # NULL => /\ u.kid[d][n] \in M /\ u.up[u.kid[d][n]] = n
                                       /\ S[u.kid[d][n]] = Half(S, d, n)
  <2>0. n \in Node
    BY <1>5
  <2>1. CASE n = x /\ d = s
    <3>1. u.kid[d][n] = mid
      BY <2>0, <2>1, <1>7
    <3>2. Half(S, s, x) = Half(sub, o, y)
      <4>1. ASSUME NEW m \in M
            PROVE  (m \in sub[x] /\ Before(o, m, y) /\ Before(s, m, x)) <=> (m \in sub[y] /\ Before(o, m, y))
        BY <1>1 DEF Half
      <4> QED BY <4>1, <1>1, <1>6, <1>10 DEF Half
    <3>3. mid # NULL => u.up[mid] = x /\ S[mid] = sub[mid] /\ mid \in M
      BY <1>2, <1>6, <1>7
    <3> QED BY <2>1, <3>1, <3>2, <3>3, <1>2, <1>3
  <2>2. CASE n = x /\ d = o
    <3>1. u.kid[d][n] = t.kid[o][x]
      BY <2>0, <2>2, <1>0, <1>1, <1>4, <1>7, <1>5
    <3>2. Half(S, o, x) = Half(sub, o, x)
      <4>1. ASSUME NEW m \in M, Before(o, m, x) PROVE Before(o, m, y)
        BY <4>1, <1>1, <1>8
      <4> QED BY <4>1, <1>1, <1>6, <1>10 DEF Half
    <3>3. ASSUME t.kid[o][x] # NULL
          PROVE  /\ t.kid[o][x] \in M /\ t.kid[o][x] # x /\ t.kid[o][x] # y /\ t.kid[o][x] # mid
                 /\ t.up[t.kid[o][x]] = x /\ sub[t.kid[o][x]] = Half(sub, o, x)
      <4>1. t.kid[o][x] \in M /\ t.up[t.kid[o][x]] = x /\ sub[t.kid[o][x]] = Half(sub, o, x)
        BY <3>3, <1>0, <1>9
      <4>2. t.kid[o][x] # x /\ t.kid[o][x] # y
        BY <4>1, <1>1, <1>8, <1>10 DEF Half
      <4> QED BY <4>1, <4>2, <1>1, <1>2, <1>5
    <3>4. t.kid[o][x] # NULL => u.up[t.kid[o][x]] = x /\ S[t.kid[o][x]] = sub[t.kid[o][x]]
      BY <3>3, <1>5, <1>6, <1>7
    <3> QED BY <2>2, <3>1, <3>2, <3>3, <3>4, <1>0, <1>9
  <2>3. CASE n = y /\ d = o
    <3>1. u.kid[d][n] = x /\ x \in M /\ u.up[x] = y /\ x # NULL
      BY <2>0, <2>3, <1>1, <1>7, <1>5
    <3>2. Half(S, o, y) = S[x]
      BY <1>6 DEF Half
    <3> QED BY <2>3, <3>1, <3>2
  <2>4. CASE n = y /\ d = s
    <3>1. u.kid[d][n] = t.kid[s][y]
      BY <2>0, <2>4, <1>0, <1>1, <1>4, <1>7, <1>5
    <3>2. Half(S, s, y) = Half(sub, s, y)
      <4>1. ASSUME NEW m \in M, Before(s, m, y) PROVE m \in sub[x] <=> m \in sub[y]
        BY <4>1, <1>1, <1>8 DEF Half
      <4> QED BY <4>1, <1>1, <1>6, <1>10 DEF Half
    <3>3. ASSUME t.kid[s][y] # NULL
          PROVE  /\ t.kid[s][y] \in M /\ t.kid[s][y] # x /\ t.kid[s][y] # y /\ t.kid[s][y] # mid
                 /\ t.up[t.kid[s][y]] = y /\ sub[t.kid[s][y]] = Half(sub, s, y)
      <4>1. t.kid[s][y] \in M /\ t.up[t.kid[s][y]] = y /\ sub[t.kid[s][y]] = Half(sub, s, y)
        BY <3>3, <1>0, <1>1, <1>9
      <4>2. t.kid[s][y] \in sub[y] /\ Before(s, t.kid[s][y], y)
        BY <4>1, <1>10 DEF Half
      <4>3. t.kid[s][y] # mid
        BY <4>1, <4>2, <1>1, <1>2, <1>8, <1>10, <1>5 DEF Half
      <4> QED BY <4>1, <4>2, <4>3, <1>1, <1>8
    <3>4. t.kid[s][y] # NULL => u.up[t.kid[s][y]] = y /\ S[t.kid[s][y]] = sub[t.kid[s][y]]
      BY <3>3, <1>5, <1>6, <1>7
    <3> QED BY <2>4, <3>1, <3>2, <3>3, <3>4, <1>0, <1>1, <1>9
  <2>5. CASE n # x /\ n # y
    <3>1. Half(S, d, n) = Half(sub, d, n)
      BY <2>0, <2>5, <1>6 DEF Half
    <3>2. u.kid[d][n] = IF t.kid[d][n] = x THEN y ELSE t.kid[d][n]
      <4>1. t.kid[d][n] = x => n = p
        BY <1>9, <1>1, <1>5 DEF p
      <4> QED BY <4>1, <2>0, <2>5, <1>7
    <3>3. CASE t.kid[d][n] = x
      <4>1. n = p /\ Half(sub, d, n) = sub[x]
        BY <3>3, <1>9, <1>1, <1>5 DEF p
      <4> QED BY <3>1, <3>2, <3>3, <4>1, <1>1, <1>5, <1>6, <1>7
    <3>4. CASE t.kid[d][n] # x
      <4>1. CASE t.kid[d][n] = NULL
        BY <3>1, <3>2, <3>4, <4>1, <1>9
      <4>2. CASE t.kid[d][n] # NULL
        <5> DEFINE c == t.kid[d][n]
        <5>1. c \in M /\ c \in Node /\ t.up[c] = n /\ sub[c] = Half(sub, d, n)
          BY <4>2, <1>9, <1>5
        <5>2. c # y /\ c # mid
          BY <5>1, <4>2, <2>5, <1>1, <1>2
        <5>3. u.up[c] = n /\ S[c] = sub[c]
          BY <5>1, <5>2, <3>4, <1>6, <1>7
        <5> QED BY <4>2, <5>1, <5>3, <3>1, <3>2, <3>4
      <4> QED BY <4>1, <4>2
    <3> QED BY <3>3, <3>4
  <2> QED BY <2>1, <2>2, <2>3, <2>4, <2>5, <1>0
<1>23. ASSUME NEW n \in M, n # u.root
       PROVE  u.up[n] \in M /\ \E e \in Side : u.kid[e][u.up[n]] = n
  <2>0. n \in Node
    BY <1>5
  <2>1. CASE n = x
    <3>1. u.up[n] = y /\ u.kid[o][y] = x
      BY <2>1, <1>0, <1>1, <1>7
    <3> QED BY <3>1, <2>1, <1>0, <1>1
  <2>2. CASE n = y
    <3>1. p # NULL
      BY <2>2, <1>7, <1>23
    <3>2. u.up[n] = p /\ p \in M
      BY <2>0, <2>2, <3>1, <1>1, <1>4, <1>7
    <3>3. PICK e \in Side : t.kid[e][p] = x
      BY <3>1, <1>4
    <3>4. u.kid[e][p] = y
      BY <3>1, <3>3, <1>4, <1>7
    <3> QED BY <2>2, <3>2, <3>4
  <2>3. CASE n = mid
    <3>1. mid # NULL
      BY <2>3, <1>5
    <3>2. u.up[n] = x /\ u.kid[s][x] = mid
      BY <2>0, <2>3, <3>1, <1>1, <1>2, <1>7
    <3> QED BY <3>2, <2>3
  <2>4. CASE n # x /\ n # y /\ n # mid
    <3>1. u.up[n] = t.up[n] /\ n # t.root
      BY <2>0, <2>4, <1>4, <1>7, <1>23
    <3>2. t.up[n] \in M /\ \E e \in Side : t.kid[e][t.up[n]] = n
      BY <3>1, <1>11
    <3>3. PICK e \in Side : t.kid[e][t.up[n]] = n
      BY <3>2
    <3>4. ~(t.up[n] = x /\ e = s) /\ ~(t.up[n] = y /\ e = o)
      BY <3>3, <2>4 DEF y, mid
    <3>5. u.kid[e][t.up[n]] = n
      BY <3>2, <3>3, <3>4, <2>4, <1>5, <1>7
    <3> QED BY <3>1, <3>2, <3>5
  <2> QED BY <2>1, <2>2, <2>3, <2>4
<1>24. M # {}
  OBVIOUS
<1>25. Shape(u, M, S)
  BY <1>5, <1>6, <1>20, <1>21, <1>22, <1>23, <1>24 DEF Shape
<1> QED BY <1>25 DEF S, y

-----------------------------------------------------------------------------
(* Induction over a tree, from the leaves up and from the root down; and the *)
(* functions that a loop of the source is written as.                       *)

\* A child has the smaller subtree.
LEMMA SmallerBelow ==
    ASSUME NEW t \in Tree, NEW M, NEW sub, Shape(t, M, sub), NEW n \in M, NEW s \in Side,
           t.kid[s][n] # NULL
    PROVE  /\ Cardinality(sub[n]) \in Nat /\ Cardinality(sub[t.kid[s][n]]) \in Nat
           /\ Cardinality(M) \in Nat /\ Cardinality(sub[n]) <= Cardinality(M)
           /\ Cardinality(sub[t.kid[s][n]]) < Cardinality(sub[n])
<1> DEFINE c == t.kid[s][n]
<1>1. c \in M /\ sub[c] \subseteq sub[n] /\ n \notin sub[c] /\ c # NULL
  BY KidFacts
<1>2. sub[n] \subseteq M /\ n \in sub[n] /\ M \subseteq Node
  BY DEF Shape
<1> HIDE DEF c
<1>3. IsFiniteSet(M) /\ IsFiniteSet(sub[n]) /\ IsFiniteSet(sub[c])
  BY <1>1, <1>2, NodeFinite, FS_Subset
<1>4. Cardinality(sub[c]) \in Nat /\ Cardinality(sub[n]) \in Nat /\ Cardinality(M) \in Nat
  BY <1>3, FS_CardinalityType
<1>5. Cardinality(sub[c]) < Cardinality(sub[n]) /\ Cardinality(sub[n]) <= Cardinality(M)
  BY <1>1, <1>2, <1>3, <1>4, FS_Subset
<1> QED BY <1>4, <1>5 DEF c

\* What holds of a node when it holds of its children holds of all nodes.
LEMMA BottomUp ==
    ASSUME NEW t \in Tree, NEW M, NEW sub, Shape(t, M, sub), NEW G,
           \A n \in M : (\A s \in Side : t.kid[s][n] # NULL => t.kid[s][n] \in G) => n \in G
    PROVE  M \subseteq G
<1> SUFFICES ASSUME M \ G # {} PROVE FALSE
  OBVIOUS
<1> DEFINE size(n) == Cardinality(sub[n])
           S == {size(n) : n \in M \ G}
<1>1. \A n \in M : size(n) \in Nat
  <2> SUFFICES ASSUME NEW n \in M PROVE size(n) \in Nat
    OBVIOUS
  <2>1. sub[n] \subseteq Node
    BY DEF Shape
  <2> QED BY <2>1, NodeFinite, FS_Subset, FS_CardinalityType
<1>2. S \in SUBSET Nat /\ S # {}
  BY <1>1
<1>3. PICK k \in S : \A m \in S : k <= m
  BY <1>2, LeastOf
<1>4. PICK n \in M \ G : k = size(n)
  BY <1>3
<1>5. ASSUME NEW s \in Side, t.kid[s][n] # NULL PROVE t.kid[s][n] \in G
  <2>1. t.kid[s][n] \in M
    BY <1>5, KidFacts
  <2>2. size(t.kid[s][n]) < size(n) /\ size(t.kid[s][n]) \in Nat /\ size(n) \in Nat
    BY <1>5, SmallerBelow
  <2>3. t.kid[s][n] \in M \ G => size(n) <= size(t.kid[s][n])
    BY <1>3, <1>4
  <2> HIDE DEF size
  <2> QED BY <2>1, <2>2, <2>3
<1> QED BY <1>4, <1>5

\* What holds of the root, and of a child when of its parent, holds of all nodes.
LEMMA TopDown ==
    ASSUME NEW t \in Tree, NEW M, NEW sub, Shape(t, M, sub), NEW G, M # {} => t.root \in G,
           \A n \in M, s \in Side : n \in G /\ t.kid[s][n] # NULL => t.kid[s][n] \in G
    PROVE  M \subseteq G
<1> SUFFICES ASSUME M \ G # {} PROVE FALSE
  OBVIOUS
<1> DEFINE size(n) == Cardinality(M) - Cardinality(sub[n])
           S == {size(n) : n \in M \ G}
<1>0. M \subseteq Node /\ IsFiniteSet(M) /\ Cardinality(M) \in Nat
  BY NodeFinite, FS_Subset, FS_CardinalityType DEF Shape
<1>1. \A n \in M : size(n) \in Nat
  <2> SUFFICES ASSUME NEW n \in M PROVE size(n) \in Nat
    OBVIOUS
  <2>1. sub[n] \subseteq M
    BY DEF Shape
  <2>2. IsFiniteSet(sub[n]) /\ Cardinality(sub[n]) <= Cardinality(M)
    BY <2>1, <1>0, FS_Subset
  <2> QED BY <2>2, <1>0, FS_CardinalityType
<1>2. S \in SUBSET Nat /\ S # {}
  BY <1>1
<1>3. PICK k \in S : \A m \in S : k <= m
  BY <1>2, LeastOf
<1>4. PICK n \in M \ G : k = size(n)
  BY <1>3
<1>5. n # t.root
  BY <1>4
<1>6. t.up[n] \in M /\ \E s \in Side : t.kid[s][t.up[n]] = n
  BY <1>4, <1>5 DEF Shape
<1>7. PICK s \in Side : t.kid[s][t.up[n]] = n
  BY <1>6
<1>8. n # NULL
  BY <1>0, <1>4, NullOutside
<1>9. t.up[n] \notin G
  BY <1>4, <1>6, <1>7, <1>8
<1>10. size(n) <= size(t.up[n])
  BY <1>3, <1>4, <1>6, <1>9
<1>11. /\ Cardinality(sub[n]) < Cardinality(sub[t.up[n]])
       /\ Cardinality(sub[n]) \in Nat /\ Cardinality(sub[t.up[n]]) \in Nat
  BY <1>6, <1>7, <1>8, SmallerBelow
<1> QED BY <1>0, <1>10, <1>11

\* Subtrees are nested, and hold what lies between two of their nodes.
LEMMA Nested ==
    ASSUME NEW t \in Tree, NEW M, NEW sub, Shape(t, M, sub), NEW n \in M, NEW m \in sub[n]
    PROVE  sub[m] \subseteq sub[n]
<1> DEFINE G == {a \in M : \A b \in sub[a] : sub[b] \subseteq sub[a]}
<1>1. ASSUME NEW a \in M, \A s \in Side : t.kid[s][a] # NULL => t.kid[s][a] \in G
      PROVE  a \in G
  <2> SUFFICES ASSUME NEW b \in sub[a], b # a PROVE sub[b] \subseteq sub[a]
    OBVIOUS
  <2>1. b \in M /\ sub[a] \subseteq M /\ M \in SUBSET Node /\ Distinctly(M)
    BY DEF Shape
  <2>2. "left" \in Side /\ Other("left") = "right" /\ "right" \in Side
    BY DEF Side, Other
  <2>3. Before("left", b, a) \/ Before("right", b, a)
    BY <2>1, <2>2, BeforeFacts
  <2>4. PICK s \in Side : Before(s, b, a)
    BY <2>2, <2>3
  <2>5. b \in Half(sub, s, a)
    BY <2>4 DEF Half
  <2>6. t.kid[s][a] # NULL
    BY <2>5 DEF Shape
  <2>7. sub[t.kid[s][a]] = Half(sub, s, a) /\ sub[t.kid[s][a]] \subseteq sub[a]
    BY <2>6, KidFacts
  <2> QED BY <2>5, <2>6, <2>7, <1>1
<1>2. M \subseteq G
  <2> HIDE DEF G
  <2> QED BY <1>1, BottomUp
<1> QED BY <1>2

\* A subtree has every node that lies between two of its own.
LEMMA Convex ==
    ASSUME NEW t \in Tree, NEW M, NEW sub, Shape(t, M, sub), NEW n \in M,
           NEW a \in sub[n], NEW b \in sub[n], NEW m \in M, NEW s \in Side,
           Before(s, a, m), Before(s, m, b)
    PROVE  m \in sub[n]
<1> DEFINE C(k) == \A x, y \in sub[k], z \in M : Before(s, x, z) /\ Before(s, z, y) => z \in sub[k]
           G == {k \in M : C(k)}
<1>0. M \in SUBSET Node /\ Distinctly(M) /\ \A k \in M : sub[k] \subseteq M
  BY DEF Shape
<1>1. M # {} => t.root \in G
  BY DEF Shape
<1>2. ASSUME NEW k \in M, NEW d \in Side, k \in G, t.kid[d][k] # NULL
      PROVE  t.kid[d][k] \in G
  <2> DEFINE c == t.kid[d][k]
  <2>1. c \in M /\ sub[c] = Half(sub, d, k)
    BY <1>2, KidFacts
  <2>2. C(c)
    <3> SUFFICES ASSUME NEW x \in sub[c], NEW y \in sub[c], NEW z \in M, Before(s, x, z), Before(s, z, y)
                 PROVE  z \in sub[c]
      OBVIOUS
    <3>1. x \in sub[k] /\ y \in sub[k] /\ Before(d, x, k) /\ Before(d, y, k)
      BY <2>1 DEF Half
    <3>2. z \in sub[k]
      BY <3>1, <1>2
    <3>3. Before(d, z, k)
      <4>1. x \in M /\ y \in M
        BY <1>0, <3>1
      <4>2. CASE d = s
        BY <4>1, <4>2, <3>1, <1>0, BeforeFacts
      <4>3. CASE d = Other(s)
        <5>1. Before(d, z, x)
          BY <4>1, <4>3, <1>0, BeforeFacts
        <5> QED BY <5>1, <4>1, <3>1, <1>0, BeforeFacts
      <4> QED BY <4>2, <4>3, SideFacts
    <3> QED BY <2>1, <3>2, <3>3 DEF Half
  <2> QED BY <2>1, <2>2
<1>3. M \subseteq G
  <2> HIDE DEF G
  <2> QED BY <1>1, <1>2, TopDown
<1> QED BY <1>3

-----------------------------------------------------------------------------
\* A loop from x: nx is the next state, H the states in which it ends.
IsLoop(f, X, H, nx, out) == f = [x \in X |-> IF x \in H THEN out[x] ELSE f[nx[x]]]

\* A recursive function that only calls itself last exists, even where the loop
\* it stands for would not end.
LEMMA LoopExists ==
    ASSUME NEW X, NEW H, NEW nx, NEW out, \A x \in X : x \notin H => nx[x] \in X
    PROVE  \E f : IsLoop(f, X, H, nx, out)
<1> DEFINE Closed(C) == \A x \in C : x \notin H => nx[x] \in C
           Orbit(x) == {y \in X : \A C \in SUBSET X : x \in C /\ Closed(C) => y \in C}
           Ends(x) == Orbit(x) \cap H
           pick(E) == CHOOSE y : y \in E
           f == [x \in X |-> out[pick(Ends(x))]]
<1>1. ASSUME NEW x \in X, x \in H PROVE Ends(x) = {x}
  <2>1. {x} \in SUBSET X /\ Closed({x})
    BY <1>1
  <2>2. Orbit(x) \subseteq {x}
    BY <2>1
  <2> QED BY <1>1, <2>2
<1>2. ASSUME NEW x \in X, x \notin H PROVE Ends(x) = Ends(nx[x])
  <2>0. nx[x] \in X
    BY <1>2
  <2>1. Orbit(nx[x]) \subseteq Orbit(x)
    BY <1>2
  <2>2. ASSUME NEW y \in Ends(x), NEW C \in SUBSET X, nx[x] \in C, Closed(C)
        PROVE  y \in C
    <3>1. C \cup {x} \in SUBSET X /\ Closed(C \cup {x})
      BY <2>2
    <3>2. y \in C \cup {x} /\ y \in H
      BY <3>1
    <3> QED BY <3>2, <1>2
  <2> QED BY <2>1, <2>2
<1> HIDE DEF Ends, pick
<1>3. \A x \in X : f[x] = out[pick(Ends(x))]
  OBVIOUS
<1>4. \A x \in X : x \in H => pick(Ends(x)) = x
  BY <1>1 DEF pick
<1>5. \A x \in X : f[x] = IF x \in H THEN out[x] ELSE f[nx[x]]
  BY <1>2, <1>3, <1>4
<1>6. f = [x \in X |-> f[x]]
  OBVIOUS
<1> HIDE DEF f
<1>7. f = [x \in X |-> IF x \in H THEN out[x] ELSE f[nx[x]]]
  BY <1>5, <1>6
<1> QED BY <1>7 DEF IsLoop

-----------------------------------------------------------------------------
(* The rotations of the source. *)

ParentsRotated(t, u, x, y, c) ==
    LET p == t.up[x]
    IN  /\ u \in Tree
        /\ u.root = IF p = NULL THEN y ELSE t.root
        /\ \A d \in Side, m \in Node :
              u.kid[d][m] = IF m = p /\ d = (IF t.kid["left"][p] = x THEN "left" ELSE "right")
                            THEN y ELSE t.kid[d][m]
        /\ \A m \in Node :
              /\ u.up[m] = IF m = x THEN y ELSE IF m = y THEN p ELSE t.up[m]
              /\ u.color[m] = IF m = x THEN c ELSE IF m = y THEN t.color[x] ELSE t.color[m]

\* __rb_rotate_set_parents, field by field.
LEMMA RotateSetParentsIs ==
    ASSUME NEW t \in Tree, NEW x \in Node, NEW y \in Node, x # y, NEW c \in Color
    PROVE  ParentsRotated(t, RotateSetParents(t, x, y, c), x, y, c)
<1> DEFINE p == t.up[x]
           k == t.color[x]
           a == SetParentColor(t, y, p, k)
           b == SetParentColor(a, x, y, c)
           u == ChangeChild(b, x, y, p)
<1>0. p \in Ref /\ k \in Color /\ x \in Ref /\ y \in Ref
  BY TreeFields DEF Ref
<1>1. RotateSetParents(t, x, y, c) = u
  BY DEF RotateSetParents
<1> HIDE DEF p, k
<1>2. /\ a \in Tree /\ a.root = t.root /\ a.kid = t.kid
      /\ \A m \in Node : /\ a.up[m] = IF m = y THEN p ELSE t.up[m]
                         /\ a.color[m] = IF m = y THEN k ELSE t.color[m]
  BY <1>0, SetParentColorIs
<1> HIDE DEF a
<1>3. /\ b \in Tree /\ b.root = a.root /\ b.kid = a.kid
      /\ \A m \in Node : /\ b.up[m] = IF m = x THEN y ELSE a.up[m]
                         /\ b.color[m] = IF m = x THEN c ELSE a.color[m]
  BY <1>0, <1>2, SetParentColorIs
<1> HIDE DEF b
<1>4. /\ u \in Tree /\ u.up = b.up /\ u.color = b.color
      /\ u.root = IF p = NULL THEN y ELSE b.root
      /\ \A d \in Side, m \in Node :
            u.kid[d][m] = IF m = p /\ d = (IF b.kid["left"][p] = x THEN "left" ELSE "right")
                          THEN y ELSE b.kid[d][m]
  <2>1. ChildChanged(b, u, x, y, p)
    BY <1>0, <1>3, ChangeChildIs
  <2> HIDE DEF u
  <2> QED BY <2>1 DEF ChildChanged
<1> HIDE DEF u
<1>5. ParentsRotated(t, u, x, y, c)
  BY <1>2, <1>3, <1>4 DEF p, k, ParentsRotated
<1> QED BY <1>1, <1>5

\* w is the tree t as it is before a rotation ends: y has x as its child, and x
\* the child of y; what w.up holds for y does not matter.
HalfTurned(t, w, x, s) ==
    LET o == Other(s)
        y == t.kid[s][x]
        mid == t.kid[o][y]
    IN  /\ w \in Tree /\ w.root = t.root
        /\ \A d \in Side, m \in Node :
              w.kid[d][m] = IF m = x /\ d = s THEN mid
                            ELSE IF m = y /\ d = o THEN x ELSE t.kid[d][m]
        /\ \A m \in Node : m # y => w.up[m] = IF m = mid THEN x ELSE t.up[m]

\* With __rb_rotate_set_parents a half turn becomes a rotation.
LEMMA FinishRotation ==
    ASSUME NEW t \in Tree, NEW M, NEW sub, Shape(t, M, sub), NEW x \in M, NEW s \in Side,
           t.kid[s][x] # NULL, NEW w, HalfTurned(t, w, x, s), NEW c \in Color
    PROVE  LET y == t.kid[s][x]
               u == RotateSetParents(w, x, y, c)
           IN  /\ Rotated(t, u, x, s)
               /\ \A m \in Node : u.color[m] = IF m = x THEN c
                                               ELSE IF m = y THEN w.color[x] ELSE w.color[m]
<1> DEFINE o == Other(s)
           y == t.kid[s][x]
           mid == t.kid[o][y]
           p == t.up[x]
           u == RotateSetParents(w, x, y, c)
           e == IF w.kid["left"][p] = x THEN "left" ELSE "right"
<1>1. /\ y \in M /\ y \in Node /\ x \in Node /\ x # y /\ o \in Side /\ o # s /\ t.up[y] = x
      /\ y # NULL /\ y \in sub[x]
  BY KidFacts, SideFacts
<1>2. mid # NULL => /\ mid \in Node /\ mid # y /\ mid # x /\ t.up[mid] = y
  <2> SUFFICES ASSUME mid # NULL PROVE mid \in Node /\ mid # y /\ mid # x /\ t.up[mid] = y
    OBVIOUS
  <2>1. mid \in Node /\ mid # y /\ t.up[mid] = y /\ mid \in sub[y]
    BY <1>1, KidFacts
  <2>2. x \notin sub[y]
    BY KidFacts
  <2> QED BY <2>1, <2>2
<1>3. /\ w \in Tree /\ w.root = t.root
      /\ \A d \in Side, m \in Node :
            w.kid[d][m] = IF m = x /\ d = s THEN mid
                          ELSE IF m = y /\ d = o THEN x ELSE t.kid[d][m]
      /\ \A m \in Node : m # y => w.up[m] = IF m = mid THEN x ELSE t.up[m]
  BY DEF HalfTurned
<1>4. w.up[x] = p
  BY <1>1, <1>2, <1>3, NullOutside
<1>5. /\ u \in Tree
      /\ u.root = IF p = NULL THEN y ELSE w.root
      /\ \A d \in Side, m \in Node : u.kid[d][m] = IF m = p /\ d = e THEN y ELSE w.kid[d][m]
      /\ \A m \in Node :
            /\ u.up[m] = IF m = x THEN y ELSE IF m = y THEN p ELSE w.up[m]
            /\ u.color[m] = IF m = x THEN c ELSE IF m = y THEN w.color[x] ELSE w.color[m]
  <2>1. ParentsRotated(w, u, x, y, c)
    BY <1>1, <1>3, RotateSetParentsIs
  <2> HIDE DEF u, y
  <2> QED BY <2>1, <1>4 DEF ParentsRotated
<1>6. ASSUME p # NULL
      PROVE  /\ p \in Node /\ p # x /\ p # y
             /\ \A d \in Side : t.kid[d][p] = x <=> d = e
  <2>1. p \in M /\ \E d \in Side : t.kid[d][p] = x
    BY <1>6, UpFacts
  <2>2. PICK d \in Side : t.kid[d][p] = x
    BY <2>1
  <2>3. x # NULL
    BY <1>1, NullOutside
  <2>4. p \notin sub[x] /\ p # x /\ p \in Node
    BY <2>1, <2>2, <2>3, KidFacts
  <2>5. p # y
    BY <2>4, <1>1
  <2>6. t.kid[Other(d)][p] # x
    BY <2>1, <2>2, <2>3, KidsApart
  <2>7. w.kid["left"][p] = t.kid["left"][p]
    BY <1>3, <2>4, <2>5 DEF Side
  <2> HIDE DEF p
  <2>8. \A f \in Side : t.kid[f][p] = x <=> f = d
    BY <2>2, <2>6, SideFacts
  <2>9. d = e
    BY <2>2, <2>7, <2>8 DEF Side
  <2> QED BY <2>4, <2>5, <2>8, <2>9
<1> HIDE DEF o, y, mid, p, u, e
<1>7. ASSUME NEW d \in Side, NEW m \in Node
      PROVE  u.kid[d][m] = IF m = x /\ d = s THEN mid
                           ELSE IF m = y /\ d = o THEN x
                           ELSE IF m = p /\ t.kid[d][m] = x THEN y ELSE t.kid[d][m]
  <2>1. CASE m = p
    <3>1. p # NULL
      BY <2>1, NullOutside
    <3>2. p # x /\ p # y /\ (t.kid[d][p] = x <=> d = e)
      BY <3>1, <1>6
    <3> QED BY <2>1, <3>2, <1>3, <1>5
  <2>2. CASE m # p
    BY <2>2, <1>3, <1>5
  <2> QED BY <2>1, <2>2
<1>8. \A m \in Node : u.up[m] = IF m = x THEN y ELSE IF m = y THEN p
                                ELSE IF m = mid THEN x ELSE t.up[m]
  BY <1>1, <1>2, <1>3, <1>5, ZenonT(60)
<1>9. u.root = IF p = NULL THEN y ELSE t.root
  BY <1>3, <1>5
<1>10. Rotated(t, u, x, s)
  BY <1>5, <1>7, <1>8, <1>9 DEF Rotated, o, y, mid, p
<1> QED BY <1>5, <1>10 DEF u, y

\* What a rotation leaves of the nodes around it.
LEMMA RotatedNeighbours ==
    ASSUME NEW t \in Tree, NEW M, NEW sub, Shape(t, M, sub), NEW x \in M, NEW s \in Side,
           t.kid[s][x] # NULL, NEW u, Rotated(t, u, x, s)
    PROVE  LET o == Other(s)
               y == t.kid[s][x]
               mid == t.kid[o][y]
           IN  /\ u \in Tree /\ x \in Node /\ y \in M /\ y \in Node /\ x # y
               /\ u.kid[s][x] = mid /\ u.kid[o][x] = t.kid[o][x]
               /\ u.kid[o][y] = x /\ u.kid[s][y] = t.kid[s][y]
               /\ u.up[x] = y /\ u.up[y] = t.up[x]
               /\ \A d \in Side, m \in M :
                     m # x /\ m # y => u.kid[d][m] = IF t.kid[d][m] = x THEN y ELSE t.kid[d][m]
               /\ \A m \in Node \ M : u.up[m] = t.up[m]
               /\ t.root = x => u.root = y
               /\ t.root # x => u.root = t.root
               /\ \A m \in M, d \in Side : t.kid[d][m] = y => m = x
<1> DEFINE o == Other(s)
           y == t.kid[s][x]
           mid == t.kid[o][y]
           p == t.up[x]
<1>1. /\ y \in M /\ y \in Node /\ x \in Node /\ x # y /\ o \in Side /\ o # s /\ t.up[y] = x
      /\ y \in sub[x] /\ M \subseteq Node
  BY KidFacts, SideFacts DEF Shape
<1>2. /\ u \in Tree
      /\ u.root = IF p = NULL THEN y ELSE t.root
      /\ \A d \in Side, m \in Node :
            u.kid[d][m] = IF m = x /\ d = s THEN mid
                          ELSE IF m = y /\ d = o THEN x
                          ELSE IF m = p /\ t.kid[d][m] = x THEN y ELSE t.kid[d][m]
      /\ \A m \in Node : u.up[m] = IF m = x THEN y ELSE IF m = y THEN p
                                   ELSE IF m = mid THEN x ELSE t.up[m]
  BY DEF Rotated
<1>3. p = NULL <=> x = t.root
  BY UpFacts
<1>4. ASSUME p # NULL PROVE p # x /\ p # y
  <2>1. p \in M /\ \E d \in Side : t.kid[d][p] = x
    BY <1>4, UpFacts
  <2>2. PICK d \in Side : t.kid[d][p] = x
    BY <2>1
  <2>3. x # NULL
    BY <1>1, NullOutside
  <2>4. p \notin sub[x] /\ p # x /\ p \in Node
    BY <2>1, <2>2, <2>3, KidFacts
  <2> QED BY <2>4, <1>1
<1>5. \A m \in M, d \in Side : t.kid[d][m] = x => m = p
  BY KidFacts, <1>1, NullOutside
<1>6. \A m \in M, d \in Side : t.kid[d][m] = y => m = x
  <2> SUFFICES ASSUME NEW m \in M, NEW d \in Side, t.kid[d][m] = y PROVE m = x
    OBVIOUS
  <2>1. t.up[t.kid[d][m]] = m
    BY KidFacts
  <2> QED BY <2>1, <1>1
<1>7. mid # NULL => mid \in M
  BY <1>1, KidFacts
<1> HIDE DEF o, y, mid, p
<1>12. \A m \in Node \ M : m # x /\ m # y /\ m # mid
  BY <1>1, <1>7, NullOutside
<1>8. p \in Node => p # x /\ p # y
  BY <1>4, NullOutside
<1>9. u.kid[s][x] = mid /\ u.kid[o][x] = t.kid[o][x] /\ u.kid[o][y] = x /\ u.kid[s][y] = t.kid[s][y]
  BY <1>1, <1>2, <1>8
<1>10. \A m \in Node \ M : u.up[m] = t.up[m]
  BY <1>2, <1>12
<1>11. \A d \in Side, m \in M :
          m # x /\ m # y => u.kid[d][m] = IF t.kid[d][m] = x THEN y ELSE t.kid[d][m]
  BY <1>1, <1>2, <1>5
<1> QED BY <1>1, <1>2, <1>3, <1>6, <1>9, <1>10, <1>11 DEF o, y, mid, p

-----------------------------------------------------------------------------
(* The colors: bh[n] are the black nodes on a path from n down, which are as *)
(* many on every path, but for one place, side s of p, where one is missing; *)
(* with p = NULL none is.                                                    *)

Own(t, n) == IF t.color[n] = "red" THEN 0 ELSE 1

Balanced(t, M, bh, p, s) ==
    /\ bh \in [Ref -> Nat] /\ bh[NULL] = 0
    /\ \A n \in M, d \in Side :
          bh[n] = bh[t.kid[d][n]] + Own(t, n) + (IF n = p /\ d = s THEN 1 ELSE 0)

\* No red node has a red child but x.
NoRedPair(t, M, x) ==
    \A n \in M, d \in Side :
        t.color[n] = "red" /\ IsRed(t, t.kid[d][n]) => t.kid[d][n] = x

Sound(t, M) ==
    /\ t \in Tree
    /\ \E sub, bh : Shape(t, M, sub) /\ Balanced(t, M, bh, NULL, "left")
    /\ NoRedPair(t, M, NULL) /\ ~IsRed(t, t.root)

Swapped(bh, x, y) == [bh EXCEPT ![x] = bh[y], ![y] = bh[x]]

\* A red child takes the place of its black parent, and they swap colors.
LEMMA RedRotation ==
    ASSUME NEW t \in Tree, NEW M, NEW sub, Shape(t, M, sub), NEW x \in M, NEW s \in Side,
           t.kid[s][x] # NULL, NEW u, Rotated(t, u, x, s),
           NEW bh, NEW p, NEW e, Balanced(t, M, bh, p, e), p # t.kid[s][x], ~(p = x /\ e = s),
           t.color[x] = "black", t.color[t.kid[s][x]] = "red",
           u.color[x] = "red", u.color[t.kid[s][x]] = "black",
           \A m \in M : m # x /\ m # t.kid[s][x] => u.color[m] = t.color[m]
    PROVE  /\ Shape(u, M, Turned(sub, x, t.kid[s][x], s))
           /\ Balanced(u, M, Swapped(bh, x, t.kid[s][x]), p, e)
           /\ \A q : /\ NoRedPair(t, M, q) /\ (q = NULL \/ t.up[q] = t.kid[s][x])
                     /\ ~IsRed(t, t.kid[Other(s)][x])
                     /\ ~IsRed(t, t.kid[Other(s)][t.kid[s][x]])
                     => NoRedPair(u, M, NULL)
           /\ ~IsRed(t, t.root) => ~IsRed(u, u.root)
<1> DEFINE o == Other(s)
           y == t.kid[s][x]
           mid == t.kid[o][y]
           w == t.kid[o][x]
           n == t.kid[s][y]
           b == Swapped(bh, x, y)
<1>1. Shape(u, M, Turned(sub, x, y, s))
  BY RotateShape
<1>2. /\ u \in Tree /\ x \in Node /\ y \in M /\ y \in Node /\ x # y
      /\ u.kid[s][x] = mid /\ u.kid[o][x] = w /\ u.kid[o][y] = x /\ u.kid[s][y] = n
      /\ \A d \in Side, m \in M :
            m # x /\ m # y => u.kid[d][m] = IF t.kid[d][m] = x THEN y ELSE t.kid[d][m]
      /\ t.root = x => u.root = y
      /\ t.root # x => u.root = t.root
      /\ \A m \in M, d \in Side : t.kid[d][m] = y => m = x
  BY RotatedNeighbours, SMTT(60)
<1>3. /\ o \in Side /\ o # s /\ (\A d \in Side : d = s \/ d = o) /\ y # NULL /\ x # NULL
      /\ t.root \in M /\ y # t.root /\ M \subseteq Node
  BY <1>2, SideFacts, KidFacts, NullOutside DEF Shape
<1>4. /\ mid # x /\ mid # y /\ w # x /\ w # y /\ n # x /\ n # y
      /\ mid \in Ref /\ w \in Ref /\ n \in Ref
      /\ mid = NULL \/ mid \in M
      /\ w = NULL \/ w \in M
  <2>1. y \in sub[x] /\ x \notin sub[y]
    BY KidFacts
  <2>2. mid # NULL => mid # y /\ mid \in sub[y] /\ mid \in M
    BY <1>2, <1>3, KidFacts
  <2>3. n # NULL => n # y /\ n \in sub[y]
    BY <1>2, <1>3, KidFacts
  <2>4. w # NULL => w # x /\ w \in M
    BY <1>2, <1>3, KidFacts
  <2>5. w # y
    BY KidsApart
  <2>6. mid \in Ref /\ w \in Ref /\ n \in Ref
    BY <1>2, <1>3, TreeFields
  <2> QED BY <2>1, <2>2, <2>3, <2>4, <2>5, <2>6, <1>2, <1>3
<1>5. /\ bh \in [Ref -> Nat] /\ bh[NULL] = 0
      /\ \A m \in M, d \in Side :
            bh[m] = bh[t.kid[d][m]] + Own(t, m) + (IF m = p /\ d = e THEN 1 ELSE 0)
  BY DEF Balanced
<1>6. p # y /\ ~(p = x /\ e = s)
  OBVIOUS
<1>7. /\ t.color[x] = "black" /\ t.color[y] = "red" /\ u.color[x] = "red" /\ u.color[y] = "black"
      /\ \A m \in M : m # x /\ m # y => u.color[m] = t.color[m]
  OBVIOUS
<1>10. \A q : /\ NoRedPair(t, M, q) /\ (q = NULL \/ t.up[q] = y)
              /\ ~IsRed(t, w) /\ ~IsRed(t, mid)
              => NoRedPair(u, M, NULL)
  <2> SUFFICES ASSUME NEW q, NoRedPair(t, M, q), q = NULL \/ t.up[q] = y,
                      ~IsRed(t, w), ~IsRed(t, mid),
                      NEW m \in M, NEW d \in Side, u.color[m] = "red", IsRed(u, u.kid[d][m])
               PROVE  FALSE
    BY DEF NoRedPair
  <2>1. m # y
    BY <1>7
  <2>2. CASE m = x
    <3>1. u.kid[d][m] = mid \/ u.kid[d][m] = w
      BY <2>2, <1>2, <1>3
    <3> HIDE DEF w, mid, y
    <3> QED BY <3>1, <1>4, <1>7 DEF IsRed
  <2>3. CASE m # x
    <3> DEFINE c == t.kid[d][m]
    <3>1. c # x /\ u.kid[d][m] = c
      BY <2>1, <2>3, <1>2, <1>7 DEF IsRed
    <3>2. c # y /\ c # NULL
      BY <2>3, <3>1, <1>2 DEF IsRed
    <3>3. c \in M /\ t.up[c] = m
      BY <3>2, KidFacts
    <3>4. t.color[m] = "red" /\ t.color[c] = "red"
      BY <2>1, <2>3, <3>1, <3>2, <3>3, <1>7 DEF IsRed
    <3>5. c = q
      BY <3>2, <3>4 DEF NoRedPair, IsRed
    <3> QED BY <3>2, <3>3, <3>5, <2>1, SMTT(60)
  <2> QED BY <2>2, <2>3
<1>11. ~IsRed(t, t.root) => ~IsRed(u, u.root)
  BY <1>2, <1>3, <1>7 DEF IsRed
<1>12. \A m \in M, d \in Side : m # x /\ m # y => t.kid[d][m] # y /\ t.kid[d][m] \in Ref
  BY <1>2, <1>3, TreeFields
<1> HIDE DEF o, y, mid, w, n
<1>8. /\ b \in [Ref -> Nat] /\ b[NULL] = 0 /\ b[x] = bh[y] /\ b[y] = bh[x]
      /\ \A c \in Ref : c # x /\ c # y => b[c] = bh[c]
  BY <1>2, <1>3, <1>5 DEF Swapped, Ref
<1> HIDE DEF b
<1>9. ASSUME NEW m \in M, NEW d \in Side
      PROVE  b[m] = b[u.kid[d][m]] + Own(u, m) + (IF m = p /\ d = e THEN 1 ELSE 0)
  <2>0. /\ bh[x] = bh[y] + 1 /\ bh[y] = bh[mid] /\ bh[y] = bh[n]
        /\ bh[x] = bh[w] + 1 + (IF x = p /\ o = e THEN 1 ELSE 0)
        /\ bh[x] \in Nat /\ bh[y] \in Nat /\ bh[mid] \in Nat /\ bh[w] \in Nat /\ bh[n] \in Nat
    <3>1. bh[x] \in Nat /\ bh[y] \in Nat /\ bh[mid] \in Nat /\ bh[w] \in Nat /\ bh[n] \in Nat
      BY <1>2, <1>4, <1>5 DEF Ref
    <3>2. bh[x] = bh[y] + 1
      BY <1>5, <1>6, <1>7, <3>1 DEF y, Own
    <3>3. bh[y] = bh[mid] /\ bh[y] = bh[n]
      BY <1>2, <1>3, <1>5, <1>6, <1>7, <3>1 DEF mid, n, Own
    <3>4. bh[x] = bh[w] + 1 + (IF x = p /\ o = e THEN 1 ELSE 0)
      BY <1>3, <1>5, <1>7, <3>1 DEF w, Own
    <3> QED BY <3>1, <3>2, <3>3, <3>4
  <2>1. CASE m = x /\ d = s
    <3>1. u.kid[d][m] = mid /\ b[mid] = bh[mid] /\ b[m] = bh[y] /\ Own(u, m) = 0
      BY <2>1, <1>2, <1>4, <1>7, <1>8 DEF Own
    <3>2. (IF m = p /\ d = e THEN 1 ELSE 0) = 0
      BY <2>1, <1>6
    <3>3. b[m] = b[u.kid[d][m]] /\ b[m] \in Nat
      BY <2>0, <3>1
    <3> QED BY <3>1, <3>2, <3>3
  <2>2. CASE m = x /\ d = o
    <3>1. u.kid[d][m] = w /\ b[w] = bh[w] /\ b[m] = bh[y] /\ Own(u, m) = 0
      BY <2>2, <1>2, <1>4, <1>7, <1>8 DEF Own
    <3>2. CASE x = p /\ o = e
      BY <2>0, <2>2, <3>1, <3>2
    <3>3. CASE ~(x = p /\ o = e)
      BY <2>0, <2>2, <3>1, <3>3
    <3> QED BY <3>2, <3>3
  <2>3. CASE m = y /\ d = o
    BY <2>0, <2>3, <1>2, <1>4, <1>6, <1>7, <1>8 DEF Own
  <2>4. CASE m = y /\ d = s
    BY <2>0, <2>4, <1>2, <1>4, <1>6, <1>7, <1>8 DEF Own
  <2>5. CASE m # x /\ m # y
    <3>1. b[m] = bh[m] /\ Own(u, m) = Own(t, m)
      BY <2>5, <1>3, <1>7, <1>8 DEF Own, Ref
    <3>2. b[u.kid[d][m]] = bh[t.kid[d][m]]
      BY <2>5, <1>2, <1>8, <1>12
    <3> QED BY <3>1, <3>2, <1>5
  <2> QED BY <2>1, <2>2, <2>3, <2>4, <2>5, <1>3
<1>20. Balanced(u, M, b, p, e)
  BY <1>8, <1>9 DEF Balanced
<1> QED BY <1>1, <1>10, <1>11, <1>20 DEF o, y, mid, w, n, b

\* c is the child of n at side s, or NULL.
Kid(t, s, n, c) == c = t.kid[s][n]

\* The black sibling y of the place short of a black takes the place of the parent
\* x, and its red child far becomes black.
LEMMA GapRotation ==
    ASSUME NEW t \in Tree, NEW M, NEW sub, Shape(t, M, sub), NEW x \in M, NEW s \in Side,
           t.kid[s][x] # NULL, NEW u, Rotated(t, u, x, s),
           NEW bh, Balanced(t, M, bh, x, Other(s)),
           NEW y, Kid(t, s, x, y), NEW far, Kid(t, s, y, far), IsRed(t, far),
           t.color[y] = "black",
           u.color[x] = "black", u.color[y] = t.color[x], u.color[far] = "black",
           \A m \in M : m # x /\ m # y /\ m # far => u.color[m] = t.color[m],
           NoRedPair(t, M, NULL), ~IsRed(t, t.root)
    PROVE  Sound(u, M)
<1> DEFINE o == Other(s)
           mid == t.kid[o][y]
           w == t.kid[o][x]
           b == [bh EXCEPT ![x] = bh[w] + 1, ![y] = bh[x], ![far] = bh[far] + 1]
<1>0. t.kid[s][x] = y /\ t.kid[s][y] = far
  BY DEF Kid
<1>1. Shape(u, M, Turned(sub, x, y, s))
  BY <1>0, RotateShape
<1>2. /\ u \in Tree /\ x \in Node /\ y \in M /\ y \in Node /\ x # y
      /\ u.kid[s][x] = mid /\ u.kid[o][x] = w /\ u.kid[o][y] = x /\ u.kid[s][y] = far
      /\ \A d \in Side, m \in M :
            m # x /\ m # y => u.kid[d][m] = IF t.kid[d][m] = x THEN y ELSE t.kid[d][m]
      /\ t.root = x => u.root = y
      /\ t.root # x => u.root = t.root
      /\ \A m \in M, d \in Side : t.kid[d][m] = y => m = x
  BY <1>0, RotatedNeighbours
<1>3. /\ o \in Side /\ o # s /\ (\A d \in Side : d = s \/ d = o) /\ y # NULL /\ x # NULL
      /\ t.root \in M /\ y # t.root /\ M \subseteq Node /\ far # NULL
  BY <1>0, <1>2, SideFacts, KidFacts, NullOutside DEF Shape, IsRed
<1>4. /\ mid # x /\ mid # y /\ mid # far /\ w # x /\ w # y /\ w # far /\ far # x /\ far # y
      /\ mid \in Ref /\ w \in Ref /\ far \in M /\ far \in Node /\ far # t.root
      /\ t.up[far] = y
  <2>1. y \in sub[x] /\ x \notin sub[y]
    BY <1>0, KidFacts
  <2>2. mid # NULL => mid # y /\ mid \in sub[y] /\ mid \in M
    BY <1>2, <1>3, KidFacts
  <2>3. far # y /\ far \in sub[y] /\ far \in M /\ far \in Node /\ far # t.root /\ t.up[far] = y
    BY <1>0, <1>2, <1>3, KidFacts
  <2>4. w # NULL => w # x /\ w \in M /\ t.up[w] = x
    BY <1>2, <1>3, KidFacts
  <2>5. w # y
    BY <1>0, <1>3, KidsApart
  <2>6. mid \in Ref /\ w \in Ref
    BY <1>2, <1>3, TreeFields
  <2>7. mid # far
    BY <1>0, <1>2, <1>3, KidsApart
  <2> QED BY <2>1, <2>2, <2>3, <2>4, <2>5, <2>6, <2>7, <1>2, <1>3
<1>5. /\ bh \in [Ref -> Nat] /\ bh[NULL] = 0
      /\ \A m \in M, d \in Side :
            bh[m] = bh[t.kid[d][m]] + Own(t, m) + (IF m = x /\ d = o THEN 1 ELSE 0)
  BY DEF Balanced
<1>7. /\ t.color[y] = "black" /\ t.color[far] = "red" /\ u.color[x] = "black"
      /\ u.color[y] = t.color[x] /\ u.color[far] = "black"
      /\ \A m \in M : m # x /\ m # y /\ m # far => u.color[m] = t.color[m]
  BY DEF IsRed
<1>10. NoRedPair(u, M, NULL)
  <2> SUFFICES ASSUME NEW m \in M, NEW d \in Side, u.color[m] = "red", IsRed(u, u.kid[d][m])
               PROVE  FALSE
    BY DEF NoRedPair
  <2>1. m # x /\ m # far
    BY <1>7
  <2>2. CASE m = y
    <3>1. u.kid[d][m] = x \/ u.kid[d][m] = far
      BY <2>2, <1>2, <1>3
    <3> QED BY <3>1, <1>7 DEF IsRed
  <2>3. CASE m # y
    <3> DEFINE c == t.kid[d][m]
    <3>0. t.color[m] = "red"
      BY <2>1, <2>3, <1>7
    <3>1. CASE c = x
      <4>1. t.color[x] = "red"
        BY <3>1, <2>1, <2>3, <1>2, <1>7 DEF IsRed
      <4> QED BY <3>0, <3>1, <4>1, <1>3 DEF NoRedPair, IsRed
    <3>2. CASE c # x
      <4>1. u.kid[d][m] = c /\ c # NULL /\ c # y
        BY <2>1, <2>3, <3>2, <1>2 DEF IsRed
      <4>2. c \in M /\ t.up[c] = m
        BY <4>1, KidFacts
      <4>3. c # far
        BY <4>2, <2>3, <1>4
      <4>4. t.color[c] = "red"
        BY <3>2, <4>1, <4>2, <4>3, <1>7 DEF IsRed
      <4> QED BY <3>0, <4>1, <4>4 DEF NoRedPair, IsRed
    <3> QED BY <3>1, <3>2
  <2> QED BY <2>2, <2>3
<1>11. ~IsRed(u, u.root)
  BY <1>2, <1>3, <1>4, <1>7 DEF IsRed
<1>12. \A m \in M, d \in Side : m # x /\ m # y => t.kid[d][m] # y /\ t.kid[d][m] # far /\ t.kid[d][m] \in Ref
  <2> SUFFICES ASSUME NEW m \in M, NEW d \in Side, m # x, m # y
               PROVE  t.kid[d][m] # y /\ t.kid[d][m] # far /\ t.kid[d][m] \in Ref
    OBVIOUS
  <2> DEFINE c == t.kid[d][m]
  <2>1. c \in Ref /\ (c # NULL => t.up[c] = m)
    BY <1>3, TreeFields, KidFacts
  <2>2. c # y
    BY <1>2
  <2> HIDE DEF c
  <2>3. c # far
    BY <2>1, <1>3, <1>4
  <2> QED BY <2>1, <2>2, <2>3 DEF c
<1> HIDE DEF o, mid, w
<1>8. /\ b \in [Ref -> Nat] /\ b[NULL] = 0
      /\ b[x] = bh[w] + 1 /\ b[y] = bh[x] /\ b[far] = bh[far] + 1
      /\ \A c \in Ref : c # x /\ c # y /\ c # far => b[c] = bh[c]
  <2> DEFINE X == bh[w] + 1
             Y == bh[x]
             Z == bh[far] + 1
  <2>1. x \in Ref /\ y \in Ref /\ far \in Ref /\ NULL \in Ref /\ far # NULL
    BY <1>2, <1>3, <1>4 DEF Ref
  <2>2. X \in Nat /\ Y \in Nat /\ Z \in Nat
    BY <2>1, <1>4, <1>5
  <2>3. b = [bh EXCEPT ![x] = X, ![y] = Y, ![far] = Z]
    OBVIOUS
  <2>4. bh \in [Ref -> Nat] /\ bh[NULL] = 0 /\ x # NULL /\ y # NULL /\ x # y /\ far # x /\ far # y
    BY <1>2, <1>3, <1>4, <1>5
  <2> HIDE DEF b, X, Y, Z
  <2>5. b \in [Ref -> Nat] /\ b[x] = X /\ b[y] = Y /\ b[far] = Z
    BY <2>1, <2>2, <2>3, <2>4
  <2>6. \A c \in Ref : c # x /\ c # y /\ c # far => b[c] = bh[c]
    BY <2>1, <2>3, <2>4
  <2>7. b[NULL] = 0
    BY <2>1, <2>4, <2>6
  <2> QED BY <2>5, <2>6, <2>7 DEF X, Y, Z
<1> HIDE DEF b
<1>9. ASSUME NEW m \in M, NEW d \in Side
      PROVE  b[m] = b[u.kid[d][m]] + Own(u, m)
  <2>0. /\ bh[x] = bh[y] + Own(t, x) /\ bh[y] = bh[mid] + 1 /\ bh[y] = bh[far] + 1
        /\ bh[x] = bh[w] + 1 + Own(t, x) /\ Own(u, y) = Own(t, x) /\ Own(u, x) = 1
        /\ bh[x] \in Nat /\ bh[y] \in Nat /\ bh[mid] \in Nat /\ bh[w] \in Nat /\ bh[far] \in Nat
        /\ Own(t, x) \in Nat
    <3>1. /\ bh[x] \in Nat /\ bh[y] \in Nat /\ bh[mid] \in Nat /\ bh[w] \in Nat /\ bh[far] \in Nat
          /\ Own(t, x) \in Nat /\ Own(t, y) = 1
      BY <1>2, <1>4, <1>5, <1>7 DEF Ref, Own
    <3>2. bh[x] = bh[y] + Own(t, x) /\ bh[x] = bh[w] + 1 + Own(t, x)
      BY <1>0, <1>3, <1>5, <3>1 DEF w
    <3>3. bh[y] = bh[mid] + 1 /\ bh[y] = bh[far] + 1
      BY <1>0, <1>2, <1>3, <1>5, <3>1 DEF mid
    <3> QED BY <1>7, <3>1, <3>2, <3>3 DEF Own
  <2>6. /\ b[mid] = bh[mid] /\ b[w] = bh[w] /\ b[x] = bh[w] + 1 /\ b[y] = bh[x]
        /\ b[far] = bh[far] + 1
    BY <1>4, <1>8
  <2>1. CASE m = x /\ d = s
    <3>1. u.kid[d][m] = mid
      BY <2>1, <1>2
    <3>2. b[x] = b[mid] + Own(u, x)
      BY <2>0, <2>6
    <3> QED BY <2>1, <3>1, <3>2
  <2>2. CASE m = x /\ d = o
    <3>1. u.kid[d][m] = w
      BY <2>2, <1>2
    <3>2. b[x] = b[w] + Own(u, x)
      BY <2>0, <2>6
    <3> QED BY <2>2, <3>1, <3>2
  <2>3. CASE m = y /\ d = o
    <3>1. u.kid[d][m] = x
      BY <2>3, <1>2
    <3>2. b[y] = b[x] + Own(u, y)
      BY <2>0, <2>6
    <3> QED BY <2>3, <3>1, <3>2
  <2>4. CASE m = y /\ d = s
    <3>1. u.kid[d][m] = far
      BY <2>4, <1>2
    <3>2. b[y] = b[far] + Own(u, y)
      BY <2>0, <2>6
    <3> QED BY <2>4, <3>1, <3>2
  <2>5. CASE m # x /\ m # y
    <3>2. b[u.kid[d][m]] = bh[t.kid[d][m]] /\ bh[t.kid[d][m]] \in Nat
      BY <2>5, <1>2, <1>5, <1>8, <1>12
    <3>3. bh[m] = bh[t.kid[d][m]] + Own(t, m)
      BY <2>5, <1>5, <3>2 DEF Own
    <3>4. CASE m = far
      <4>1. Own(t, m) = 0 /\ Own(u, m) = 1 /\ b[m] = bh[m] + 1
        BY <3>4, <1>7, <1>8 DEF Own
      <4> QED BY <3>2, <3>3, <4>1
    <3>5. CASE m # far
      <4>1. b[m] = bh[m] /\ Own(u, m) = Own(t, m)
        BY <2>5, <3>5, <1>3, <1>7, <1>8 DEF Own, Ref
      <4> QED BY <3>2, <3>3, <4>1
    <3> QED BY <3>4, <3>5
  <2> QED BY <2>1, <2>2, <2>3, <2>4, <2>5, <1>3
<1>20. Balanced(u, M, b, NULL, "left")
  <2>1. \A m \in M, d \in Side : b[u.kid[d][m]] \in Nat /\ Own(u, m) \in Nat /\ m # NULL
    <3>1. \A m \in M, d \in Side : u.kid[d][m] \in Ref
      BY <1>2, <1>3, TreeFields
    <3> QED BY <3>1, <1>3, <1>8, NullOutside DEF Own
  <2> QED BY <2>1, <1>8, <1>9 DEF Balanced
<1> QED BY <1>1, <1>2, <1>10, <1>11, <1>20 DEF Sound

\* The loop of eaf_map_low_first and eaf_map_low_last as a function.
LEMMA ExtremeFunction ==
    ASSUME NEW t \in Tree, NEW s \in Side
    PROVE  \E f : /\ \A m \in Node : f[m] = IF t.kid[s][m] = NULL THEN m ELSE f[t.kid[s][m]]
                  /\ \A n : Extreme(t, n, s) = f[n]
<1> DEFINE H == {m \in Node : t.kid[s][m] = NULL}
           nx == [m \in Node |-> t.kid[s][m]]
           out == [m \in Node |-> m]
           walk[m \in Node] == IF t.kid[s][m] = NULL THEN m ELSE walk[t.kid[s][m]]
<1>1. \A m \in Node : m \notin H => nx[m] \in Node
  BY TreeFields DEF Ref
<1>2. \E f : IsLoop(f, Node, H, nx, out)
  <2> HIDE DEF H, nx, out
  <2> QED BY <1>1, LoopExists
<1>3. PICK g : IsLoop(g, Node, H, nx, out)
  BY <1>2
<1>4. \A m \in Node : (m \in H <=> t.kid[s][m] = NULL) /\ nx[m] = t.kid[s][m] /\ out[m] = m
  OBVIOUS
<1> HIDE DEF H, nx, out
<1>5. \E f : f = [m \in Node |-> IF t.kid[s][m] = NULL THEN m ELSE f[t.kid[s][m]]]
  <2>1. \A m \in Node : g[m] = IF t.kid[s][m] = NULL THEN m ELSE g[t.kid[s][m]]
    BY <1>3, <1>4, ZenonT(60) DEF IsLoop
  <2>2. g = [m \in Node |-> g[m]]
    BY <1>3 DEF IsLoop
  <2>3. g = [m \in Node |-> IF t.kid[s][m] = NULL THEN m ELSE g[t.kid[s][m]]]
    BY <2>1, <2>2
  <2> QED BY <2>3
<1>6. walk = [m \in Node |-> IF t.kid[s][m] = NULL THEN m ELSE walk[t.kid[s][m]]]
  BY <1>5
<1>7. \A n : Extreme(t, n, s) = walk[n]
  BY DEF Extreme
<1> QED BY <1>6, <1>7

-----------------------------------------------------------------------------
(* Insertion: eaf_map_low_insert_color. *)

\* Case 1 of an insertion, field by field.
LEMMA FlipIs ==
    ASSUME NEW t \in Tree, NEW p \in Node, NEW a \in Node, NEW g \in Node, a # p, p # g, a # g
    PROVE  LET u == Flip(t, p, a, g)
           IN  /\ u \in Tree /\ u.root = t.root /\ u.kid = t.kid
               /\ \A m \in Node :
                     /\ u.up[m] = IF m = p \/ m = a THEN g ELSE t.up[m]
                     /\ u.color[m] = IF m = p \/ m = a THEN "black"
                                     ELSE IF m = g THEN "red" ELSE t.color[m]
<1> DEFINE v == SetParentColor(t, a, g, "black")
           w == SetParentColor(v, p, g, "black")
           k == t.up[g]
           u == SetParentColor(w, g, k, "red")
<1>0. p \in Ref /\ a \in Ref /\ g \in Ref /\ k \in Ref /\ "black" \in Color /\ "red" \in Color
  BY TreeFields DEF Ref, Color
<1>4. u = Flip(t, p, a, g)
  BY DEF Flip, v, w
<1>5. k = t.up[g]
  OBVIOUS
<1> HIDE DEF k
<1>1. /\ v \in Tree /\ v.root = t.root /\ v.kid = t.kid
      /\ \A m \in Node : /\ v.up[m] = IF m = a THEN g ELSE t.up[m]
                         /\ v.color[m] = IF m = a THEN "black" ELSE t.color[m]
  BY <1>0, SetParentColorIs
<1> HIDE DEF v
<1>2. /\ w \in Tree /\ w.root = v.root /\ w.kid = v.kid
      /\ \A m \in Node : /\ w.up[m] = IF m = p THEN g ELSE v.up[m]
                         /\ w.color[m] = IF m = p THEN "black" ELSE v.color[m]
  BY <1>0, <1>1, SetParentColorIs
<1> HIDE DEF w
<1>3. /\ u \in Tree /\ u.root = w.root /\ u.kid = w.kid
      /\ \A m \in Node : /\ u.up[m] = IF m = g THEN k ELSE w.up[m]
                         /\ u.color[m] = IF m = g THEN "red" ELSE w.color[m]
  BY <1>0, <1>2, SetParentColorIs
<1> HIDE DEF u
<1> QED BY <1>1, <1>2, <1>3, <1>4, <1>5

FlipTyped == \A t \in Tree, p, a, g \in Node : Flip(t, p, a, g) \in Tree

\* Case 1 of an insertion makes a tree of a tree.
LEMMA FlipType == FlipTyped
<1> SUFFICES ASSUME NEW t \in Tree, NEW p \in Node, NEW a \in Node, NEW g \in Node
             PROVE  Flip(t, p, a, g) \in Tree
  BY DEF FlipTyped
<1>0. p \in Ref /\ a \in Ref /\ g \in Ref /\ t.up[g] \in Ref /\ "black" \in Color /\ "red" \in Color
  BY TreeFields DEF Ref, Color
<1>1. SetParentColor(t, a, g, "black") \in Tree
  BY <1>0, SetParentColorIs
<1>2. SetParentColor(SetParentColor(t, a, g, "black"), p, g, "black") \in Tree
  BY <1>0, <1>1, SetParentColorIs
<1>3. SetParentColor(SetParentColor(SetParentColor(t, a, g, "black"), p, g, "black"),
                     g, t.up[g], "red") \in Tree
  BY <1>0, <1>2, SetParentColorIs
<1> QED BY <1>3 DEF Flip

InsertBody(f, x) ==
    LET t == x[1]
        n == x[2]
        p == t.up[n]
        g == t.up[p]
        s == IF p # t.kid["right"][g] THEN "left" ELSE "right"
        u == t.kid[Other(s)][g]
    IN  IF p = NULL THEN SetParentColor(t, n, NULL, "black")
        ELSE IF ~IsRed(t, p) THEN t
        ELSE IF g # NULL /\ IsRed(t, u) THEN f[<<Flip(t, p, u, g), g>>]
        ELSE InsertRotate(t, n, p, g, s)

\* The loop of __rb_insert as a function.
LEMMA InsertLoop ==
    \E f : /\ \A t \in Tree, n \in Node : f[<<t, n>>] = InsertBody(f, <<t, n>>)
           /\ \A t, n : InsertColor(t, n) = f[<<t, n>>]
<1> DEFINE X == Tree \X Node
           side(t, p, g) == IF p # t.kid["right"][g] THEN "left" ELSE "right"
           uncle(t, p, g) == t.kid[Other(side(t, p, g))][g]
           again(t, n) == LET p == t.up[n]
                              g == t.up[p]
                          IN  p # NULL /\ IsRed(t, p) /\ g # NULL /\ IsRed(t, uncle(t, p, g))
           H == {x \in X : ~again(x[1], x[2])}
           next(t, n) == LET p == t.up[n]
                             g == t.up[p]
                         IN  <<Flip(t, p, uncle(t, p, g), g), g>>
           nx == [x \in X |-> next(x[1], x[2])]
           result(t, n) == LET p == t.up[n]
                               g == t.up[p]
                           IN  IF p = NULL THEN SetParentColor(t, n, NULL, "black")
                               ELSE IF ~IsRed(t, p) THEN t
                               ELSE InsertRotate(t, n, p, g, side(t, p, g))
           out == [x \in X |-> result(x[1], x[2])]
           fix[x \in X] == InsertBody(fix, x)
<1>11. ASSUME NEW t \in Tree, NEW n \in Node
       PROVE  /\ <<t, n>> \notin H => again(t, n)
              /\ nx[<<t, n>>] = next(t, n)
  <2> HIDE DEF again, next, result
  <2> QED OBVIOUS
<1>1. ASSUME NEW x \in X, x \notin H PROVE nx[x] \in X
  <2>1. PICK t \in Tree, n \in Node : x = <<t, n>>
    <3> HIDE DEF H, nx, out
    <3> QED OBVIOUS
  <2>2. again(t, n)
    <3> HIDE DEF H, nx, out, again, next, result
    <3> QED BY <1>1, <1>11, <2>1, Zenon
  <2> DEFINE p == t.up[n]
             g == t.up[p]
             a == uncle(t, p, g)
  <2>10. p # NULL /\ g # NULL
    BY <2>2
  <2>11. p \in Ref
    BY TreeFields
  <2>3. p \in Node
    <3> HIDE DEF p
    <3> QED BY <2>10, <2>11, Zenon DEF Ref
  <2>12. g \in Ref
    <3> HIDE DEF p
    <3> QED BY <2>3, TreeFields
  <2>4. g \in Node
    <3> HIDE DEF g
    <3> QED BY <2>10, <2>12, Zenon DEF Ref
  <2>5. side(t, p, g) \in Side
    BY DEF Side
  <2>6. Other(side(t, p, g)) \in Side
    <3> HIDE DEF side
    <3> QED BY <2>5, SideFacts
  <2>7. a \in Node
    <3>1. a # NULL
      BY <2>2, Zenon DEF IsRed
    <3>2. a \in Ref
      <4> HIDE DEF p, g, side
      <4> QED BY <2>4, <2>6, TreeFields
    <3> HIDE DEF a
    <3> QED BY <3>1, <3>2, Zenon DEF Ref
  <2>8. nx[x] = <<Flip(t, p, a, g), g>>
    <3>1. nx[x] = next(t, n)
      <4> HIDE DEF H, nx, out, again, next, result
      <4> QED BY <1>11, <2>1
    <3> HIDE DEF H, nx, out, again, result, X
    <3> QED BY <3>1
  <2> HIDE DEF p, g, a, nx
  <2>9. Flip(t, p, a, g) \in Tree
    BY <2>3, <2>4, <2>7, FlipType DEF FlipTyped
  <2> QED BY <2>4, <2>8, <2>9
<1>2. \E f : IsLoop(f, X, H, nx, out)
  <2> HIDE DEF H, nx, out, X
  <2> QED BY <1>1, LoopExists, Zenon
<1>3. PICK f : IsLoop(f, X, H, nx, out)
  BY <1>2, Zenon
<1>10. ASSUME NEW x \in X
       PROVE  /\ x \in H <=> ~again(x[1], x[2])
              /\ out[x] = result(x[1], x[2]) /\ nx[x] = next(x[1], x[2])
  <2> HIDE DEF X, again, next, result
  <2> QED BY Zenon
<1>4. ASSUME NEW x \in X PROVE f[x] = InsertBody(f, x)
  <2>1. f[x] = IF x \in H THEN out[x] ELSE f[nx[x]]
    <3> HIDE DEF H, nx, out, X
    <3> QED BY <1>3 DEF IsLoop
  <2>2. /\ x \in H <=> ~again(x[1], x[2])
        /\ out[x] = result(x[1], x[2]) /\ nx[x] = next(x[1], x[2])
    <3> HIDE DEF H, nx, out, X, again, next, result
    <3> QED BY <1>10
  <2> HIDE DEF H, out, nx, X
  <2> QED BY <2>1, <2>2, Zenon DEF InsertBody
<1>5. f = [x \in X |-> InsertBody(f, x)]
  <2> HIDE DEF H, nx, out, X
  <2>1. f = [x \in X |-> f[x]]
    BY <1>3 DEF IsLoop
  <2> QED BY <1>4, <2>1
<1>6. fix = [x \in X |-> InsertBody(fix, x)]
  <2> HIDE DEF X
  <2> QED BY <1>5
<1>7. \A t, n : InsertColor(t, n) = fix[<<t, n>>]
  BY DEF InsertColor, InsertBody
<1> HIDE DEF fix
<1>8. \A t \in Tree, n \in Node : fix[<<t, n>>] = InsertBody(fix, <<t, n>>)
  <2>1. \A x \in X : fix[x] = InsertBody(fix, x)
    <3> HIDE DEF X
    <3> QED BY <1>6
  <2>2. \A t \in Tree, n \in Node : <<t, n>> \in X
    OBVIOUS
  <2> HIDE DEF X
  <2> QED BY <2>1, <2>2
<1> QED BY <1>7, <1>8

\* Two trees with the same links have the same shape.
LEMMA SameShape ==
    ASSUME NEW t \in Tree, NEW M, NEW sub, Shape(t, M, sub), NEW u \in Tree,
           u.root = t.root,
           \A n \in M : u.up[n] = t.up[n] /\ \A d \in Side : u.kid[d][n] = t.kid[d][n]
    PROVE  Shape(u, M, sub)
<1>1. M # {} => u.root \in M /\ sub[u.root] = M /\ u.up[u.root] = NULL
  BY DEF Shape
<1>2. \A n \in M, s \in Side :
          /\ u.kid[s][n] = NULL => Half(sub, s, n) = {}
          /\ u.kid[s][n] # NULL => /\ u.kid[s][n] \in M /\ u.up[u.kid[s][n]] = n
                                   /\ sub[u.kid[s][n]] = Half(sub, s, n)
  BY DEF Shape
<1>3. \A n \in M : n # u.root => u.up[n] \in M /\ \E s \in Side : u.kid[s][u.up[n]] = n
  <2> SUFFICES ASSUME NEW n \in M, n # u.root
               PROVE  u.up[n] \in M /\ \E s \in Side : u.kid[s][u.up[n]] = n
    OBVIOUS
  <2>1. t.up[n] \in M /\ \E s \in Side : t.kid[s][t.up[n]] = n
    BY DEF Shape
  <2> QED BY <2>1
<1>4. /\ M \in SUBSET Node /\ sub \in [Node -> SUBSET M] /\ Distinctly(M)
      /\ M = {} => u.root = NULL
      /\ \A n \in M : n \in sub[n]
  BY DEF Shape
<1> QED BY <1>1, <1>2, <1>3, <1>4 DEF Shape

\* The source tells the side of a child by looking at the right.
LEMMA SideOf ==
    ASSUME NEW t \in Tree, NEW M, NEW sub, Shape(t, M, sub), NEW n \in M, NEW e \in Side,
           t.kid[e][n] # NULL
    PROVE  (IF t.kid[e][n] # t.kid["right"][n] THEN "left" ELSE "right") = e
<1>1. t.kid[Other(e)][n] # t.kid[e][n]
  BY KidsApart
<1>2. CASE e = "left"
  BY <1>1, <1>2 DEF Other
<1>3. CASE e = "right"
  BY <1>3
<1> QED BY <1>2, <1>3 DEF Side

\* A red child takes the place of its red parent.
LEMMA EqualRotation ==
    ASSUME NEW t \in Tree, NEW M, NEW sub, Shape(t, M, sub), NEW x \in M, NEW s \in Side,
           t.kid[s][x] # NULL, NEW u, Rotated(t, u, x, s),
           NEW bh, Balanced(t, M, bh, NULL, "left"),
           t.color[x] = "red", t.color[t.kid[s][x]] = "red",
           \A m \in M : u.color[m] = t.color[m]
    PROVE  Balanced(u, M, bh, NULL, "left")
<1> DEFINE o == Other(s)
           y == t.kid[s][x]
           mid == t.kid[o][y]
           w == t.kid[o][x]
           n == t.kid[s][y]
<1>2. /\ u \in Tree /\ x \in Node /\ y \in M /\ y \in Node /\ x # y
      /\ u.kid[s][x] = mid /\ u.kid[o][x] = w /\ u.kid[o][y] = x /\ u.kid[s][y] = n
      /\ \A d \in Side, m \in M :
            m # x /\ m # y => u.kid[d][m] = IF t.kid[d][m] = x THEN y ELSE t.kid[d][m]
  BY RotatedNeighbours
<1>3. o \in Side /\ o # s /\ (\A d \in Side : d = s \/ d = o) /\ M \subseteq Node
  BY SideFacts DEF Shape
<1>4. /\ bh \in [Ref -> Nat] /\ bh[NULL] = 0
      /\ \A m \in M, d \in Side : bh[m] = bh[t.kid[d][m]] + Own(t, m)
  <2> SUFFICES ASSUME NEW m \in M, NEW d \in Side PROVE bh[m] = bh[t.kid[d][m]] + Own(t, m)
    BY DEF Balanced
  <2>1. m # NULL /\ t.kid[d][m] \in Ref
    BY <1>3, NullOutside, TreeFields
  <2>2. bh[m] = bh[t.kid[d][m]] + Own(t, m) + 0
    BY <2>1 DEF Balanced
  <2>3. bh[t.kid[d][m]] \in Nat /\ Own(t, m) \in Nat
    BY <2>1 DEF Balanced, Own
  <2> QED BY <2>2, <2>3
<1>5. \A m \in M : Own(u, m) = Own(t, m)
  BY DEF Own
<1>6. Own(t, x) = 0 /\ Own(t, y) = 0
  BY DEF Own
<1>7. mid \in Ref /\ w \in Ref /\ n \in Ref /\ x \in Ref
  BY <1>2, <1>3, TreeFields DEF Ref
<1>8. bh[x] = bh[y] /\ bh[x] = bh[w] /\ bh[y] = bh[mid] /\ bh[y] = bh[n] /\ bh[x] \in Nat
  <2>1. /\ bh[x] = bh[y] + 0 /\ bh[x] = bh[w] + 0 /\ bh[y] = bh[mid] + 0 /\ bh[y] = bh[n] + 0
    BY <1>2, <1>3, <1>4, <1>6
  <2>2. bh[x] \in Nat /\ bh[y] \in Nat /\ bh[mid] \in Nat /\ bh[w] \in Nat /\ bh[n] \in Nat
    BY <1>2, <1>4, <1>7 DEF Ref
  <2> HIDE DEF y, mid, w, n
  <2> QED BY <2>1, <2>2
<1> HIDE DEF o, y, mid, w, n
<1>9. ASSUME NEW m \in M, NEW d \in Side PROVE bh[m] = bh[u.kid[d][m]] + Own(u, m)
  <2>1. CASE m = x \/ m = y
    <3>1. bh[u.kid[d][m]] = bh[m] /\ Own(u, m) = 0 /\ bh[m] \in Nat
      BY <2>1, <1>2, <1>3, <1>5, <1>6, <1>8
    <3> QED BY <3>1
  <2>2. CASE m # x /\ m # y
    <3>1. bh[u.kid[d][m]] = bh[t.kid[d][m]]
      BY <2>2, <1>2, <1>8
    <3> QED BY <3>1, <1>4, <1>5
  <2> QED BY <2>1, <2>2
<1>10. \A m \in M, d \in Side : bh[u.kid[d][m]] \in Nat /\ Own(u, m) \in Nat /\ m # NULL
  <2>1. \A m \in M, d \in Side : u.kid[d][m] \in Ref
    BY <1>2, <1>3, TreeFields
  <2> QED BY <2>1, <1>3, <1>4, NullOutside DEF Own
<1> QED BY <1>4, <1>9, <1>10 DEF Balanced

\* The first half of a rotation, with and without a color for the middle.
LEMMA HalfTurn ==
    ASSUME NEW t \in Tree, NEW M, NEW sub, Shape(t, M, sub), NEW x \in M, NEW s \in Side,
           NEW y, y = t.kid[s][x], y # NULL, NEW mid, mid = t.kid[Other(s)][y]
    PROVE  LET v == SetParent(Turn(t, x, y, s), mid, x)
               w == SetParentColor(Turn(t, x, y, s), mid, x, "black")
           IN  /\ HalfTurned(t, v, x, s) /\ v.color = t.color
               /\ HalfTurned(t, w, x, s)
               /\ \A m \in Node : w.color[m] = IF m = mid THEN "black" ELSE t.color[m]
<1> DEFINE a == Turn(t, x, y, s)
           v == SetParent(a, mid, x)
           w == SetParentColor(a, mid, x, "black")
<1>1. /\ x \in Node /\ y \in Node /\ Other(s) \in Side /\ mid \in Ref /\ x \in Ref
      /\ "black" \in Color
  BY KidFacts, SideFacts, TreeFields DEF Ref, Color
<1>2. /\ a \in Tree /\ a.root = t.root /\ a.up = t.up /\ a.color = t.color
      /\ \A d \in Side, m \in Node :
            a.kid[d][m] = IF d = s /\ m = x THEN mid
                          ELSE IF d = Other(s) /\ m = y THEN x ELSE t.kid[d][m]
  <2>1. KidsTurned(t, a, x, y, s)
    BY <1>1, TurnIs
  <2> HIDE DEF a
  <2> QED BY <2>1 DEF KidsTurned
<1> HIDE DEF a
<1>3. /\ v \in Tree /\ v.root = a.root /\ v.kid = a.kid /\ v.color = a.color
      /\ \A m \in Node : v.up[m] = IF m = mid THEN x ELSE a.up[m]
  <2>1. a \in Tree /\ mid \in Ref /\ x \in Ref
    BY <1>1, <1>2
  <2>2. \A q \in Ref : LET z == SetParent(a, q, x)
                       IN  /\ z \in Tree /\ z.root = a.root /\ z.kid = a.kid /\ z.color = a.color
                           /\ \A m \in Node : z.up[m] = IF m = q THEN x ELSE a.up[m]
    BY <2>1, SetParentIs
  <2> QED BY <2>1, <2>2, Zenon
<1>4. /\ w \in Tree /\ w.root = a.root /\ w.kid = a.kid
      /\ \A m \in Node : /\ w.up[m] = IF m = mid THEN x ELSE a.up[m]
                         /\ w.color[m] = IF m = mid THEN "black" ELSE a.color[m]
  BY <1>1, <1>2, SetParentColorIs
<1> HIDE DEF v, w
<1>5. HalfTurned(t, v, x, s) /\ v.color = t.color
  BY <1>2, <1>3 DEF HalfTurned
<1>6. HalfTurned(t, w, x, s)
  BY <1>2, <1>4 DEF HalfTurned
<1>7. \A m \in Node : w.color[m] = IF m = mid THEN "black" ELSE t.color[m]
  BY <1>2, <1>4, ZenonT(60)
<1> QED BY <1>5, <1>6, <1>7, Zenon DEF v, w, a

\* The end of an insertion with a black uncle: x is the grandparent, y the red
\* parent and q, below y, the red node.
LEMMA InsertTop ==
    ASSUME NEW t \in Tree, NEW M, NEW sub, Shape(t, M, sub), NEW x \in M, NEW s \in Side,
           NEW bh, Balanced(t, M, bh, NULL, "left"),
           NEW y, y = t.kid[s][x], y # NULL, NEW q, t.up[q] = y, NoRedPair(t, M, q),
           t.color[x] = "black", t.color[y] = "red", ~IsRed(t, t.root),
           ~IsRed(t, t.kid[Other(s)][x]), ~IsRed(t, t.kid[Other(s)][y]),
           NEW w, HalfTurned(t, w, x, s), \A m \in M : m # y => w.color[m] = t.color[m]
    PROVE  LET u == RotateSetParents(w, x, y, "red")
           IN  Sound(u, M) /\ \A m \in Node \ M : u.up[m] = t.up[m]
<1> DEFINE u == RotateSetParents(w, x, y, "red")
<1>1. x \in Node /\ y \in M /\ x # y /\ M \subseteq Node /\ "red" \in Color
  BY KidFacts DEF Color, Shape
<1>2. /\ Rotated(t, u, x, s)
      /\ \A m \in Node : u.color[m] = IF m = x THEN "red"
                                      ELSE IF m = y THEN w.color[x] ELSE w.color[m]
  BY <1>1, FinishRotation
<1> HIDE DEF u
<1>3. /\ u.color[x] = "red" /\ u.color[y] = "black"
      /\ \A m \in M : m # x /\ m # y => u.color[m] = t.color[m]
  BY <1>1, <1>2
<1>5. y # NULL /\ ~(NULL = x /\ "left" = s) /\ NULL # y
  BY <1>1, NullOutside
<1>6. /\ Shape(u, M, Turned(sub, x, y, s))
      /\ Balanced(u, M, Swapped(bh, x, y), NULL, "left")
      /\ NoRedPair(u, M, NULL) /\ ~IsRed(u, u.root)
  BY <1>2, <1>3, <1>5, RedRotation
<1>7. u \in Tree /\ \A m \in Node \ M : u.up[m] = t.up[m]
  BY <1>2, RotatedNeighbours
<1> QED BY <1>6, <1>7 DEF Sound, u

\* Both rotations, for a red node n inside: w is the tree before the second ends.
\* mid and low are the two children that n gives away.
DoubleTurned(t, w, g, p, n, mid, low, s) ==
    /\ w \in Tree /\ w.root = t.root
    /\ \A d \in Side, m \in Node :
          w.kid[d][m] = IF m = p /\ d = Other(s) THEN mid
                        ELSE IF m = n /\ d = s THEN p
                        ELSE IF m = g /\ d = s THEN low
                        ELSE IF m = n /\ d = Other(s) THEN g ELSE t.kid[d][m]
    /\ \A m \in Node : m # n => w.up[m] = IF m = p THEN n ELSE IF m = mid THEN p
                                          ELSE IF m = low THEN g ELSE t.up[m]

\* The nodes of a double rotation and how they are linked.
LEMMA DoubleFacts ==
    ASSUME NEW t \in Tree, NEW M, NEW sub, Shape(t, M, sub), NEW g \in M, NEW s \in Side,
           NEW p, Kid(t, s, g, p), p # NULL, NEW n, Kid(t, Other(s), p, n), n # NULL,
           NEW mid, Kid(t, s, n, mid), NEW low, Kid(t, Other(s), n, low)
    PROVE  /\ t.kid[Other(s)][p] = n /\ t.kid[s][g] = p /\ t.kid[s][n] = mid
           /\ t.kid[Other(s)][n] = low
           /\ Other(s) \in Side /\ Other(s) # s /\ Other(Other(s)) = s
           /\ p \in M /\ p \in Node /\ g \in Node /\ t.up[p] = g /\ g # p /\ g # n
           /\ n \in M /\ n \in Node /\ t.up[n] = p /\ p # n
           /\ mid # NULL => mid \in M /\ mid \in Node /\ t.up[mid] = n
           /\ mid # n /\ mid # p /\ mid # g
           /\ low # NULL => low \in M /\ low \in Node /\ t.up[low] = n
           /\ low # n /\ low # p /\ low # g /\ (low # NULL => low # mid)
           /\ mid \in Ref /\ low \in Ref /\ p \in Ref /\ n \in Ref /\ g \in Ref
           /\ \A d \in Side : t.kid[d][g] = p => d = s
<1>1. /\ t.kid[Other(s)][p] = n /\ t.kid[s][g] = p /\ t.kid[s][n] = mid
      /\ t.kid[Other(s)][n] = low
  BY DEF Kid
<1>2. Other(s) \in Side /\ Other(s) # s /\ Other(Other(s)) = s
  BY SideFacts
<1>3. /\ p \in M /\ p \in Node /\ g \in Node /\ t.up[p] = g /\ p \in sub[g] /\ g \notin sub[p]
      /\ g # p
  BY <1>1, KidFacts
<1>4. /\ n \in M /\ n \in Node /\ t.up[n] = p /\ n \in sub[p] /\ p \notin sub[n] /\ p # n
      /\ sub[n] \subseteq sub[p]
  BY <1>1, <1>2, <1>3, KidFacts
<1>5. mid # NULL => mid \in M /\ mid \in Node /\ mid # n /\ t.up[mid] = n /\ mid \in sub[n]
  BY <1>1, <1>2, <1>4, KidFacts
<1>6. low # NULL => low \in M /\ low \in Node /\ low # n /\ t.up[low] = n /\ low \in sub[n]
  BY <1>1, <1>2, <1>4, KidFacts
<1>7. low # NULL => low # mid
  BY <1>1, <1>2, <1>4, KidsApart
<1>8. mid \in Ref /\ low \in Ref /\ p \in Ref /\ n \in Ref /\ g \in Ref
  BY <1>1, <1>2, <1>3, <1>4, TreeFields DEF Ref
<1>9. \A d \in Side : t.kid[d][g] = p => d = s
  <2> SUFFICES ASSUME NEW d \in Side, t.kid[d][g] = p, d # s PROVE FALSE
    OBVIOUS
  <2>1. t.kid[Other(s)][g] # t.kid[s][g]
    BY <1>1, KidsApart
  <2> QED BY <2>1, <1>1, SideFacts
<1>10. g # n /\ NULL # n /\ NULL # p /\ NULL # g
  BY <1>3, <1>4, NullOutside
<1>11. mid # p /\ mid # g /\ mid # n
  BY <1>3, <1>4, <1>5, <1>10
<1>12. low # p /\ low # g /\ low # n
  BY <1>3, <1>4, <1>6, <1>10
<1> QED BY <1>1, <1>2, <1>3, <1>4, <1>5, <1>6, <1>7, <1>8, <1>9, <1>10, <1>11, <1>12

\* The second half of a double rotation is a rotation of what the first has left.
LEMMA DoubleTurn ==
    ASSUME NEW t \in Tree, NEW M, NEW sub, Shape(t, M, sub), NEW g \in M, NEW s \in Side,
           NEW p, Kid(t, s, g, p), p # NULL, NEW n, Kid(t, Other(s), p, n), n # NULL,
           NEW mid, Kid(t, s, n, mid), NEW low, Kid(t, Other(s), n, low),
           NEW v, Rotated(t, v, p, Other(s)),
           NEW w, DoubleTurned(t, w, g, p, n, mid, low, s)
    PROVE  v.kid[s][g] = n /\ v.kid[Other(s)][n] = low /\ HalfTurned(v, w, g, s)
<1> DEFINE o == Other(s)
<1>1. /\ t.kid[o][p] = n /\ t.kid[s][g] = p /\ t.kid[s][n] = mid /\ t.kid[o][n] = low
      /\ o \in Side /\ o # s /\ Other(o) = s
      /\ p \in Node /\ g \in Node /\ t.up[p] = g /\ g # p /\ g # n
      /\ n \in Node /\ t.up[n] = p /\ p # n
      /\ mid # n /\ mid # p /\ mid # g
      /\ low # n /\ low # p /\ low # g /\ (low # NULL => low # mid)
      /\ \A d \in Side : t.kid[d][g] = p => d = s
  BY DoubleFacts
<1>2. NULL # g /\ NULL \notin Node
  BY <1>1, NullOutside
<1> HIDE DEF o
<1>3. Rotated(t, v, p, o)
  BY DEF o
<1>4. /\ v \in Tree
      /\ v.root = t.root
      /\ \A d \in Side, m \in Node :
            v.kid[d][m] = IF m = p /\ d = o THEN mid
                          ELSE IF m = n /\ d = s THEN p
                          ELSE IF m = g /\ t.kid[d][m] = p THEN n ELSE t.kid[d][m]
      /\ \A m \in Node : v.up[m] = IF m = p THEN n ELSE IF m = n THEN g
                                   ELSE IF m = mid THEN p ELSE t.up[m]
  BY <1>1, <1>2, <1>3 DEF Rotated
<1>5. v.kid[s][g] = n /\ v.kid[o][n] = low
  BY <1>1, <1>4
<1>6. /\ w \in Tree /\ w.root = t.root
      /\ \A d \in Side, m \in Node :
            w.kid[d][m] = IF m = p /\ d = o THEN mid
                          ELSE IF m = n /\ d = s THEN p
                          ELSE IF m = g /\ d = s THEN low
                          ELSE IF m = n /\ d = o THEN g ELSE t.kid[d][m]
      /\ \A m \in Node : m # n => w.up[m] = IF m = p THEN n ELSE IF m = mid THEN p
                                            ELSE IF m = low THEN g ELSE t.up[m]
  BY DEF DoubleTurned, o
<1>7. \A d \in Side, m \in Node :
         w.kid[d][m] = IF m = g /\ d = s THEN low
                       ELSE IF m = n /\ d = o THEN g ELSE v.kid[d][m]
  <2> SUFFICES ASSUME NEW d \in Side, NEW m \in Node
               PROVE  w.kid[d][m] = IF m = g /\ d = s THEN low
                                    ELSE IF m = n /\ d = o THEN g ELSE v.kid[d][m]
    OBVIOUS
  <2>1. CASE m = g /\ d = s
    BY <2>1, <1>1, <1>6
  <2>2. CASE m = n /\ d = o
    BY <2>2, <1>1, <1>6
  <2>3. CASE ~(m = g /\ d = s) /\ ~(m = n /\ d = o)
    <3>1. ~(m = g /\ t.kid[d][m] = p)
      BY <2>3, <1>1
    <3> QED BY <2>3, <3>1, <1>1, <1>4, <1>6
  <2> QED BY <2>1, <2>2, <2>3
<1>8. \A m \in Node : m # n => w.up[m] = IF m = low THEN g ELSE v.up[m]
  <2> SUFFICES ASSUME NEW m \in Node, m # n
               PROVE  w.up[m] = IF m = low THEN g ELSE v.up[m]
    OBVIOUS
  <2>1. m = low => low # mid
    BY <1>1, <1>2
  <2> QED BY <2>1, <1>1, <1>4, <1>6
<1> QED BY <1>4, <1>5, <1>6, <1>7, <1>8 DEF HalfTurned, o

\* SetParentColor, field by field.
Painted(t, u, n, p, c) ==
    /\ u \in Tree /\ u.root = t.root
    /\ \A d \in Side, m \in Node : u.kid[d][m] = t.kid[d][m]
    /\ \A m \in Node : /\ u.up[m] = IF m = n THEN p ELSE t.up[m]
                       /\ u.color[m] = IF m = n THEN c ELSE t.color[m]

\* rb_set_parent_color under a name.
LEMMA PaintedIs ==
    ASSUME NEW t \in Tree, NEW n \in Ref, NEW p \in Ref, NEW c \in Color
    PROVE  Painted(t, SetParentColor(t, n, p, c), n, p, c)
<1> DEFINE u == SetParentColor(t, n, p, c)
<1>1. /\ u \in Tree /\ u.root = t.root /\ u.kid = t.kid
      /\ \A m \in Node : /\ u.up[m] = IF m = n THEN p ELSE t.up[m]
                         /\ u.color[m] = IF m = n THEN c ELSE t.color[m]
  BY SetParentColorIs
<1> HIDE DEF u
<1>2. Painted(t, u, n, p, c)
  BY <1>1 DEF Painted
<1> QED BY <1>2 DEF u

\* Case 2 of an insertion writes what the double rotation asks for.
LEMMA InsertInner ==
    ASSUME NEW t \in Tree, NEW M, NEW sub, Shape(t, M, sub), NEW g \in M, NEW s \in Side,
           NEW p, Kid(t, s, g, p), p # NULL, NEW n, Kid(t, Other(s), p, n), n # NULL,
           NEW mid, Kid(t, s, n, mid), NEW low, Kid(t, Other(s), n, low),
           t.color[p] = "red", mid # NULL => t.color[mid] = "black",
           low # NULL => t.color[low] = "black"
    PROVE  LET t2 == SetParentColor(SetParentColor(Turn(t, p, n, Other(s)), mid, p, "black"),
                                    p, n, "red")
               w == SetParentColor(Turn(t2, g, n, s), low, g, "black")
           IN  /\ t2.kid[Other(s)][n] = low
               /\ DoubleTurned(t, w, g, p, n, mid, low, s)
               /\ \A m \in Node : w.color[m] = t.color[m]
<1> DEFINE o == Other(s)
           a == Turn(t, p, n, o)
           t1 == SetParentColor(a, mid, p, "black")
           t2 == SetParentColor(t1, p, n, "red")
           b == Turn(t2, g, n, s)
           w == SetParentColor(b, low, g, "black")
<1>1. /\ t.kid[o][p] = n /\ t.kid[s][g] = p /\ t.kid[s][n] = mid /\ t.kid[o][n] = low
      /\ o \in Side /\ o # s /\ Other(o) = s
      /\ p \in Node /\ g \in Node /\ g # p /\ g # n
      /\ n \in Node /\ p # n
      /\ mid # n /\ mid # p /\ mid # g
      /\ low # n /\ low # p /\ low # g /\ (low # NULL => low # mid)
      /\ mid \in Ref /\ low \in Ref /\ p \in Ref /\ n \in Ref /\ g \in Ref
  BY DoubleFacts
<1>2. "black" \in Color /\ "red" \in Color
  BY DEF Color
<1>3. \A m \in Node : (m = mid \/ m = low) => t.color[m] = "black"
  BY NullOutside
<1>4. t.color[p] = "red"
  OBVIOUS
<1>5. KidsTurned(t, a, p, n, o)
  BY <1>1, TurnIs
<1> HIDE DEF o, a
<1>6. /\ a \in Tree /\ a.root = t.root
      /\ \A d \in Side, m \in Node :
            a.kid[d][m] = IF m = p /\ d = o THEN mid ELSE IF m = n /\ d = s THEN p ELSE t.kid[d][m]
      /\ \A m \in Node : a.up[m] = t.up[m] /\ a.color[m] = t.color[m]
  BY <1>1, <1>5 DEF KidsTurned
<1>7. Painted(a, t1, mid, p, "black")
  BY <1>1, <1>2, <1>6, PaintedIs
<1> HIDE DEF t1
<1>8. /\ t1 \in Tree /\ t1.root = t.root
      /\ \A d \in Side, m \in Node :
            t1.kid[d][m] = IF m = p /\ d = o THEN mid ELSE IF m = n /\ d = s THEN p ELSE t.kid[d][m]
      /\ \A m \in Node : /\ t1.up[m] = IF m = mid THEN p ELSE t.up[m]
                         /\ t1.color[m] = t.color[m]
  BY <1>3, <1>6, <1>7 DEF Painted
<1>9. Painted(t1, t2, p, n, "red")
  BY <1>1, <1>2, <1>8, PaintedIs
<1> HIDE DEF t2
<1>10. /\ t2 \in Tree /\ t2.root = t.root
       /\ \A d \in Side, m \in Node :
             t2.kid[d][m] = IF m = p /\ d = o THEN mid ELSE IF m = n /\ d = s THEN p ELSE t.kid[d][m]
       /\ \A m \in Node : /\ t2.up[m] = IF m = p THEN n ELSE IF m = mid THEN p ELSE t.up[m]
                          /\ t2.color[m] = t.color[m]
  BY <1>4, <1>8, <1>9 DEF Painted
<1>11. t2.kid[o][n] = low
  BY <1>1, <1>10
<1>12. KidsTurned(t2, b, g, n, s)
  BY <1>1, <1>10, TurnIs
<1> HIDE DEF b
<1>13. /\ b \in Tree /\ b.root = t.root
       /\ \A d \in Side, m \in Node :
             b.kid[d][m] = IF d = s /\ m = g THEN low
                           ELSE IF d = o /\ m = n THEN g ELSE t2.kid[d][m]
       /\ \A m \in Node : /\ b.up[m] = IF m = p THEN n ELSE IF m = mid THEN p ELSE t.up[m]
                          /\ b.color[m] = t.color[m]
  BY <1>10, <1>11, <1>12 DEF KidsTurned, o
<1>14. Painted(b, w, low, g, "black")
  BY <1>1, <1>2, <1>13, PaintedIs
<1> HIDE DEF w
<1>15. w \in Tree /\ w.root = t.root
  BY <1>13, <1>14 DEF Painted
<1>16. \A m \in Node : /\ w.up[m] = IF m = low THEN g
                                    ELSE IF m = p THEN n ELSE IF m = mid THEN p ELSE t.up[m]
                       /\ w.color[m] = t.color[m]
  <2> SUFFICES ASSUME NEW m \in Node
               PROVE  /\ w.up[m] = IF m = low THEN g
                                   ELSE IF m = p THEN n ELSE IF m = mid THEN p ELSE t.up[m]
                      /\ w.color[m] = t.color[m]
    OBVIOUS
  <2>1. /\ w.up[m] = IF m = low THEN g ELSE b.up[m]
        /\ w.color[m] = IF m = low THEN "black" ELSE b.color[m]
    BY <1>14 DEF Painted
  <2>2. /\ b.up[m] = IF m = p THEN n ELSE IF m = mid THEN p ELSE t.up[m]
        /\ b.color[m] = t.color[m]
    BY <1>13
  <2>3. m = low => t.color[m] = "black"
    BY <1>3
  <2> QED BY <2>1, <2>2, <2>3
<1>17. \A m \in Node : w.up[m] = IF m = p THEN n ELSE IF m = mid THEN p
                                 ELSE IF m = low THEN g ELSE t.up[m]
  <2> SUFFICES ASSUME NEW m \in Node
               PROVE  w.up[m] = IF m = p THEN n ELSE IF m = mid THEN p
                                ELSE IF m = low THEN g ELSE t.up[m]
    OBVIOUS
  <2>1. m = low => m # p /\ m # mid
    BY <1>1, NullOutside
  <2>2. w.up[m] = IF m = low THEN g ELSE IF m = p THEN n ELSE IF m = mid THEN p ELSE t.up[m]
    BY <1>16
  <2> QED BY <2>1, <2>2
<1>18. \A d \in Side, m \in Node :
          w.kid[d][m] = IF d = s /\ m = g THEN low
                        ELSE IF d = o /\ m = n THEN g ELSE t2.kid[d][m]
  <2>1. \A d \in Side, m \in Node : w.kid[d][m] = b.kid[d][m]
    BY <1>14 DEF Painted
  <2>2. \A d \in Side, m \in Node :
          b.kid[d][m] = IF d = s /\ m = g THEN low
                        ELSE IF d = o /\ m = n THEN g ELSE t2.kid[d][m]
    BY <1>13
  <2> SUFFICES ASSUME NEW d \in Side, NEW m \in Node
               PROVE  w.kid[d][m] = IF d = s /\ m = g THEN low
                                    ELSE IF d = o /\ m = n THEN g ELSE t2.kid[d][m]
    OBVIOUS
  <2> QED BY <2>1, <2>2
<1>19. \A d \in Side, m \in Node :
          w.kid[d][m] = IF m = p /\ d = o THEN mid
                        ELSE IF m = n /\ d = s THEN p
                        ELSE IF m = g /\ d = s THEN low
                        ELSE IF m = n /\ d = o THEN g ELSE t.kid[d][m]
  <2>1. \A d \in Side, m \in Node :
           t2.kid[d][m] = IF m = p /\ d = o THEN mid
                          ELSE IF m = n /\ d = s THEN p ELSE t.kid[d][m]
    BY <1>10
  <2> SUFFICES ASSUME NEW d \in Side, NEW m \in Node
               PROVE  w.kid[d][m] = IF m = p /\ d = o THEN mid
                                    ELSE IF m = n /\ d = s THEN p
                                    ELSE IF m = g /\ d = s THEN low
                                    ELSE IF m = n /\ d = o THEN g ELSE t.kid[d][m]
    OBVIOUS
  <2>2. g # p /\ g # n /\ p # n /\ o # s
    BY <1>1
  <2> QED BY <2>1, <2>2, <1>18
<1>20. DoubleTurned(t, w, g, p, n, mid, low, s)
  BY <1>15, <1>17, <1>19 DEF DoubleTurned, o
<1> QED BY <1>11, <1>16, <1>20 DEF o, a, w, b, t2, t1

\* One rotation of the source, for the cases that make two.
LEMMA RotationExists ==
    ASSUME NEW t \in Tree, NEW M, NEW sub, Shape(t, M, sub), NEW x \in M, NEW s \in Side,
           NEW y, Kid(t, s, x, y), y # NULL, NEW c \in Color
    PROVE  \E v : /\ Rotated(t, v, x, s)
                  /\ \A m \in Node : v.color[m] = IF m = x THEN c
                                                  ELSE IF m = y THEN t.color[x] ELSE t.color[m]
<1> DEFINE o == Other(s)
           mid == t.kid[o][y]
           w == SetParent(Turn(t, x, y, s), mid, x)
           v == RotateSetParents(w, x, y, c)
<1>1. y = t.kid[s][x] /\ x \in Node
  BY DEF Kid, Shape
<1>2. HalfTurned(t, w, x, s) /\ w.color = t.color
  BY <1>1, HalfTurn
<1> HIDE DEF w
<1>3. /\ Rotated(t, v, x, s)
      /\ \A m \in Node : v.color[m] = IF m = x THEN c
                                      ELSE IF m = y THEN w.color[x] ELSE w.color[m]
  BY <1>1, <1>2, FinishRotation
<1> HIDE DEF v
<1>4. \A m \in Node : w.color[m] = t.color[m]
  BY <1>2
<1>5. \A m \in Node : v.color[m] = IF m = x THEN c
                                   ELSE IF m = y THEN t.color[x] ELSE t.color[m]
  BY <1>1, <1>3, <1>4
<1> QED BY <1>3, <1>5

\* What a rotation leaves and what it changes around x and y.
LEMMA RotatedNear ==
    ASSUME NEW t \in Tree, NEW M, NEW sub, Shape(t, M, sub), NEW x \in M, NEW s \in Side,
           NEW y, Kid(t, s, x, y), y # NULL, NEW mid, Kid(t, Other(s), y, mid),
           NEW u, Rotated(t, u, x, s)
    PROVE  LET o == Other(s)
           IN  /\ u \in Tree /\ x \in Node /\ y \in M /\ y \in Node /\ x # y
               /\ u.kid[s][x] = mid /\ u.kid[o][x] = t.kid[o][x]
               /\ u.kid[o][y] = x /\ u.kid[s][y] = t.kid[s][y]
               /\ u.up[x] = y /\ u.up[y] = t.up[x]
               /\ \A d \in Side, m \in M :
                     m # x /\ m # y => u.kid[d][m] = IF t.kid[d][m] = x THEN y ELSE t.kid[d][m]
               /\ \A m \in Node \ M : u.up[m] = t.up[m]
               /\ t.root = x => u.root = y
               /\ t.root # x => u.root = t.root
               /\ \A m \in M, d \in Side : t.kid[d][m] = y => m = x
<1>1. t.kid[s][x] # NULL
  BY DEF Kid
<1> QED BY <1>1, RotatedNeighbours DEF Kid

\* After the first rotation of case 2, the two reds are in line.
LEMMA InsertAligned ==
    ASSUME NEW t \in Tree, NEW M, NEW sub, Shape(t, M, sub), NEW bh, Balanced(t, M, bh, NULL, "left"),
           NEW g \in M, NEW s \in Side, NEW p, Kid(t, s, g, p), p # NULL,
           NEW n, Kid(t, Other(s), p, n), n # NULL,
           NEW mid, Kid(t, s, n, mid), NEW low, Kid(t, Other(s), n, low),
           NoRedPair(t, M, n), t.color[n] = "red", t.color[p] = "red", ~IsRed(t, t.root),
           ~IsRed(t, t.kid[Other(s)][g]), ~IsRed(t, mid), ~IsRed(t, low),
           NEW v, Rotated(t, v, p, Other(s)), \A m \in Node : v.color[m] = t.color[m]
    PROVE  /\ Shape(v, M, Turned(sub, p, n, Other(s))) /\ Balanced(v, M, bh, NULL, "left")
           /\ v \in Tree /\ v.up[p] = n /\ NoRedPair(v, M, p) /\ ~IsRed(v, v.root)
           /\ ~IsRed(v, v.kid[Other(s)][g]) /\ ~IsRed(v, v.kid[Other(s)][n])
           /\ \A m \in Node \ M : v.up[m] = t.up[m]
<1> DEFINE o == Other(s)
<1>1. /\ t.kid[o][p] = n /\ t.kid[s][g] = p /\ t.kid[s][n] = mid /\ t.kid[o][n] = low
      /\ o \in Side /\ o # s /\ Other(o) = s /\ (\A d \in Side : d = s \/ d = o)
      /\ p \in M /\ p \in Node /\ g \in Node /\ g # p /\ g # n /\ t.up[p] = g
      /\ n \in M /\ n \in Node /\ p # n /\ t.up[n] = p
      /\ mid # NULL => mid \in M /\ mid \in Node
      /\ low # NULL => low \in M /\ low \in Node
      /\ mid # n /\ low # n
  BY DoubleFacts, SideFacts, SMTT(60)
<1> HIDE DEF o
<1>2. Kid(t, o, p, n) /\ Kid(t, Other(o), n, mid) /\ Rotated(t, v, p, o)
  BY <1>1 DEF o, Kid
<1>3. /\ v \in Tree /\ n \in M /\ v.kid[o][p] = mid /\ v.kid[s][p] = t.kid[s][p]
      /\ v.kid[s][n] = p /\ v.kid[o][n] = t.kid[o][n] /\ v.up[p] = n
      /\ \A d \in Side, m \in M :
            m # p /\ m # n => v.kid[d][m] = IF t.kid[d][m] = p THEN n ELSE t.kid[d][m]
      /\ \A m \in Node \ M : v.up[m] = t.up[m]
      /\ t.root = p => v.root = n
      /\ t.root # p => v.root = t.root
      /\ \A m \in M, d \in Side : t.kid[d][m] = n => m = p
  BY <1>1, <1>2, RotatedNear
<1>4. Shape(v, M, Turned(sub, p, n, o))
  BY <1>1, <1>2, RotateShape
<1>5. Balanced(v, M, bh, NULL, "left")
  <2>1. \A m \in M : v.color[m] = t.color[m]
    BY DEF Shape
  <2> QED BY <1>1, <1>2, <2>1, EqualRotation
<1>6. \A m \in Ref : IsRed(v, m) <=> IsRed(t, m)
  BY DEF IsRed, Ref
<1>7. \A m \in M, d \in Side : t.kid[d][m] \in Ref
  BY TreeFields DEF Shape
<1>8. NoRedPair(v, M, p)
  <2> SUFFICES ASSUME NEW m \in M, NEW d \in Side, v.color[m] = "red", IsRed(v, v.kid[d][m]),
                      v.kid[d][m] # p
               PROVE  FALSE
    BY DEF NoRedPair
  <2>1. t.color[m] = "red" /\ m \in Node
    BY DEF Shape
  <2>2. IsRed(t, v.kid[d][m])
    <3>1. v.kid[d][m] \in Ref
      BY <1>3, <2>1, TreeFields
    <3> QED BY <1>6, <3>1
  <2>3. CASE m = p
    <3>1. v.kid[d][m] = mid \/ v.kid[d][m] = t.kid[s][p]
      BY <2>3, <1>3, <1>1
    <3>2. v.kid[d][m] = t.kid[s][p]
      BY <3>1, <2>2
    <3>3. t.kid[s][p] = n
      BY <3>2, <2>2, <1>1 DEF NoRedPair
    <3>4. t.kid[Other(o)][p] # t.kid[o][p]
      BY <1>1, KidsApart
    <3> QED BY <3>3, <3>4, <1>1
  <2>4. CASE m = n
    <3>1. v.kid[d][m] = low
      BY <2>4, <1>1, <1>3
    <3> QED BY <3>1, <2>2
  <2>5. CASE m # p /\ m # n
    <3>1. t.kid[d][m] # n
      BY <2>5, <1>3
    <3>2. CASE t.kid[d][m] = p
      BY <3>1, <3>2, <2>1, <1>1 DEF NoRedPair, IsRed
    <3>3. CASE t.kid[d][m] # p
      BY <3>1, <3>3, <2>1, <2>2, <2>5, <1>3 DEF NoRedPair
    <3> QED BY <3>2, <3>3
  <2> QED BY <2>3, <2>4, <2>5
<1>9. ~IsRed(v, v.root)
  <2>1. t.root # p /\ t.root \in Ref
    BY TreeFields DEF IsRed
  <2> QED BY <2>1, <1>3, <1>6
<1>10. ~IsRed(v, v.kid[o][g])
  <2>1. t.kid[o][g] # p
    BY <1>1, KidsApart DEF o
  <2>2. v.kid[o][g] = t.kid[o][g]
    BY <2>1, <1>1, <1>3
  <2>3. ~IsRed(t, t.kid[o][g])
    BY DEF o
  <2> QED BY <2>2, <2>3, <1>1, <1>6, <1>7
<1>11. ~IsRed(v, v.kid[o][n])
  <2>1. v.kid[o][n] = low
    BY <1>1, <1>3
  <2>2. low \in Ref
    BY <1>1, <1>7
  <2> QED BY <2>1, <2>2, <1>6
<1> QED BY <1>3, <1>4, <1>5, <1>8, <1>9, <1>10, <1>11 DEF o

Above(t, n, p) == p = t.up[n]

\* Cases 2 and 3.
LEMMA InsertRotateSound ==
    ASSUME NEW t \in Tree, NEW M, NEW sub, Shape(t, M, sub), NEW bh, Balanced(t, M, bh, NULL, "left"),
           NEW n \in M, NoRedPair(t, M, n), t.color[n] = "red", ~IsRed(t, t.root),
           NEW p, Above(t, n, p), p # NULL, t.color[p] = "red", NEW g, Above(t, p, g), g # NULL,
           NEW s \in Side, Kid(t, s, g, p), ~IsRed(t, t.kid[Other(s)][g])
    PROVE  LET u == InsertRotate(t, n, p, g, s)
           IN  Sound(u, M) /\ \A m \in Node \ M : u.up[m] = t.up[m]
<1> DEFINE o == Other(s)
<1>0. o \in Side /\ o # s /\ Other(o) = s /\ (\A d \in Side : d = s \/ d = o) /\ M \subseteq Node
  BY SideFacts DEF Shape
<1>1. p \in M /\ p \in Node /\ n \in Node /\ n # NULL /\ t.up[n] = p /\ \E e \in Side : t.kid[e][p] = n
  <2>1. t.up[n] = p
    BY Zenon DEF Above
  <2> QED BY <2>1, UpFacts, NullOutside
<1>2. g \in M /\ g \in Node /\ t.kid[s][g] = p /\ t.up[p] = g
  <2>1. t.up[p] = g /\ t.kid[s][g] = p
    BY Zenon DEF Above, Kid
  <2> QED BY <2>1, <1>1, UpFacts
<1>3. PICK e \in Side : t.kid[e][p] = n
  BY <1>1
<1>4. p # n /\ g # p /\ t.kid[Other(e)][p] # n
  BY <1>1, <1>2, <1>3, KidFacts, KidsApart
<1>5. t.color[g] = "black"
  <2>1. t.color[g] \in Color
    BY <1>2, TreeFields
  <2>2. t.color[g] # "red"
    BY <1>2, <1>4 DEF NoRedPair, IsRed
  <2> QED BY <2>1, <2>2 DEF Color
<1>6. ~IsRed(t, t.kid[Other(e)][p])
  BY <1>1, <1>4, SideFacts DEF NoRedPair
<1> HIDE DEF o
<1>7. CASE e = s
  <2> DEFINE low == t.kid[o][p]
             w == SetParentColor(Turn(t, g, p, s), low, g, "black")
             u == RotateSetParents(w, g, p, "red")
  <2>1. InsertRotate(t, n, p, g, s) = u
    BY <1>3, <1>4, <1>7 DEF InsertRotate, o
  <2>2. HalfTurned(t, w, g, s) /\ \A m \in Node : w.color[m] = IF m = low THEN "black" ELSE t.color[m]
    BY <1>2, HalfTurn DEF o
  <2>3. ~IsRed(t, low) /\ t.kid[Other(s)][p] = low
    BY <1>6, <1>7 DEF o
  <2> HIDE DEF w, low
  <2>4. \A m \in M : m # p => w.color[m] = t.color[m]
    <3> SUFFICES ASSUME NEW m \in M, m = low PROVE t.color[m] = "black"
      BY <2>2, <1>0
    <3>1. t.color[m] \in Color /\ m # NULL
      BY <1>0, TreeFields, NullOutside
    <3> QED BY <2>3, <3>1 DEF IsRed, Color
  <2> HIDE DEF u
  <2>5. Sound(u, M) /\ \A m \in Node \ M : u.up[m] = t.up[m]
    <3>1. p = t.kid[s][g] /\ ~IsRed(t, t.kid[Other(s)][p]) /\ u = RotateSetParents(w, g, p, "red")
      BY <1>2, <2>3 DEF u
    <3> QED BY <2>2, <2>4, <3>1, <1>1, <1>2, <1>5, InsertTop
  <2> QED BY <2>1, <2>5
<1>8. CASE e = o
  <2> DEFINE mid == t.kid[s][n]
             low == t.kid[o][n]
             t2 == SetParentColor(SetParentColor(Turn(t, p, n, o), mid, p, "black"), p, n, "red")
             w == SetParentColor(Turn(t2, g, n, s), low, g, "black")
             u == RotateSetParents(w, g, n, "red")
  <2>1. /\ Kid(t, s, g, p) /\ Kid(t, Other(s), p, n) /\ Kid(t, s, n, mid)
        /\ Kid(t, Other(s), n, low)
    BY <1>2, <1>3, <1>8 DEF Kid, o
  <2>2. ~IsRed(t, mid) /\ ~IsRed(t, low)
    <3>1. mid # n /\ low # n
      BY <1>0, <1>1, KidFacts
    <3> QED BY <3>1, <1>0 DEF NoRedPair
  <2> HIDE DEF mid, low
  <2>3. (mid # NULL => t.color[mid] = "black") /\ (low # NULL => t.color[low] = "black")
    <3>1. mid \in Ref /\ low \in Ref
      BY <2>1, <1>1, <1>2, DoubleFacts
    <3>2. (mid # NULL => t.color[mid] \in Color) /\ (low # NULL => t.color[low] \in Color)
      BY <3>1, TreeFields DEF Ref
    <3> QED BY <3>2, <2>2 DEF IsRed, Color
  <2>4. /\ t2.kid[o][n] = low
        /\ DoubleTurned(t, w, g, p, n, mid, low, s)
        /\ \A m \in Node : w.color[m] = t.color[m]
    BY <2>1, <2>3, <1>1, <1>2, InsertInner DEF o
  <2>5. InsertRotate(t, n, p, g, s) = u
    BY <2>4, <1>3, <1>8 DEF InsertRotate, mid, o
  <2> HIDE DEF w, t2
  <2>6. PICK v : /\ Rotated(t, v, p, Other(s))
                 /\ \A m \in Node : v.color[m] = IF m = p THEN "red"
                                                 ELSE IF m = n THEN t.color[p] ELSE t.color[m]
    BY <2>1, <1>0, <1>1, RotationExists DEF Color, o
  <2>7. \A m \in Node : v.color[m] = t.color[m]
    BY <2>6
  <2>8. v.kid[s][g] = n /\ v.kid[Other(s)][n] = low /\ HalfTurned(v, w, g, s)
    BY <2>1, <2>4, <2>6, <1>1, <1>2, DoubleTurn
  <2>9. /\ Shape(v, M, Turned(sub, p, n, Other(s))) /\ Balanced(v, M, bh, NULL, "left")
        /\ v \in Tree /\ v.up[p] = n /\ NoRedPair(v, M, p) /\ ~IsRed(v, v.root)
        /\ ~IsRed(v, v.kid[Other(s)][g]) /\ ~IsRed(v, v.kid[Other(s)][n])
        /\ \A m \in Node \ M : v.up[m] = t.up[m]
    BY <2>1, <2>2, <2>6, <2>7, <1>1, <1>2, InsertAligned
  <2>10. v.color[g] = "black" /\ v.color[n] = "red"
    BY <2>7, <1>1, <1>2, <1>5
  <2>11. \A m \in M : m # n => w.color[m] = v.color[m]
    BY <2>4, <2>7, <1>0
  <2> HIDE DEF u
  <2>12. Sound(u, M) /\ \A m \in Node \ M : u.up[m] = v.up[m]
    <3>1. n = v.kid[s][g] /\ u = RotateSetParents(w, g, n, "red")
      BY <2>8 DEF u
    <3> DEFINE S == Turned(sub, p, n, Other(s))
    <3>2. Shape(v, M, S)
      BY <2>9
    <3> HIDE DEF S
    <3> QED BY <3>1, <3>2, <2>8, <2>9, <2>10, <2>11, <1>1, <1>2, InsertTop
  <2> QED BY <2>5, <2>9, <2>12
<1> QED BY <1>0, <1>7, <1>8

\* What the loop of the insertion keeps: all is well but for n, which is red and
\* may have a red parent.
InsertReady(t, M, sub, n) ==
    /\ t \in Tree /\ Shape(t, M, sub) /\ n \in M
    /\ \E bh : Balanced(t, M, bh, NULL, "left")
    /\ NoRedPair(t, M, n) /\ t.color[n] = "red" /\ (IsRed(t, t.root) => t.root = n)

SameLinks(t, u) ==
    /\ u \in Tree /\ u.root = t.root
    /\ \A d \in Side, m \in Node : u.kid[d][m] = t.kid[d][m]
    /\ \A m \in Node : u.up[m] = t.up[m]

\* Two trees that differ at most in their colors have the same shape.
LEMMA SameLinksShape ==
    ASSUME NEW t \in Tree, NEW M, NEW sub, Shape(t, M, sub), NEW u, SameLinks(t, u)
    PROVE  Shape(u, M, sub)
<1>1. M \subseteq Node
  BY DEF Shape
<1> QED BY <1>1, SameShape DEF SameLinks

\* Case 1 leaves the same situation two levels up.
LEMMA FlipReady ==
    ASSUME NEW t, NEW M, NEW sub, NEW n, InsertReady(t, M, sub, n),
           NEW p, Above(t, n, p), p # NULL, t.color[p] = "red", NEW g, Above(t, p, g), g # NULL,
           NEW s \in Side, Kid(t, s, g, p), NEW a, Kid(t, Other(s), g, a), IsRed(t, a)
    PROVE  SameLinks(t, Flip(t, p, a, g)) /\ InsertReady(Flip(t, p, a, g), M, sub, g)
<1> DEFINE u == Flip(t, p, a, g)
           o == Other(s)
<1>0. /\ t \in Tree /\ Shape(t, M, sub) /\ n \in M /\ NoRedPair(t, M, n)
      /\ (IsRed(t, t.root) => t.root = n) /\ M \subseteq Node
      /\ o \in Side /\ o # s /\ Other(o) = s /\ (\A d \in Side : d = s \/ d = o)
  BY SideFacts DEF InsertReady, Shape
<1>1. p \in M /\ p \in Node /\ n \in Node /\ n # NULL /\ t.up[n] = p
  <2>1. t.up[n] = p
    BY Zenon DEF Above
  <2> QED BY <2>1, <1>0, UpFacts
<1>2. g \in M /\ g \in Node /\ t.kid[s][g] = p /\ t.kid[o][g] = a /\ t.up[p] = g /\ g # p
  <2>1. t.up[p] = g /\ t.kid[s][g] = p /\ t.kid[o][g] = a
    BY Zenon DEF Above, Kid
  <2>2. g \in M /\ g \in Node
    BY <2>1, <1>0, <1>1, UpFacts
  <2>3. g # p
    BY <2>1, <2>2, <1>0, KidFacts
  <2> QED BY <2>1, <2>2, <2>3
<1>3. a # NULL /\ t.color[a] = "red"
  BY DEF IsRed
<1>4. a \in M /\ a \in Node /\ t.up[a] = g /\ a # g /\ a # p
  BY <1>0, <1>2, <1>3, KidFacts, KidsApart
<1>5. /\ u \in Tree /\ u.root = t.root /\ u.kid = t.kid
      /\ \A m \in Node :
            /\ u.up[m] = IF m = p \/ m = a THEN g ELSE t.up[m]
            /\ u.color[m] = IF m = p \/ m = a THEN "black" ELSE IF m = g THEN "red" ELSE t.color[m]
  BY <1>0, <1>1, <1>2, <1>4, FlipIs
<1> HIDE DEF u, o
<1>6. SameLinks(t, u)
  BY <1>1, <1>2, <1>4, <1>5 DEF SameLinks
<1>7. Shape(u, M, sub)
  BY <1>0, <1>6, SameLinksShape
<1>8. \A d \in Side, m \in M : m # g => t.kid[d][m] # p /\ t.kid[d][m] # a
  BY <1>0, <1>1, <1>2, <1>3, <1>4, KidFacts
<1>9. t.color[g] = "black"
  <2>1. t.color[g] \in Color
    BY <1>0, <1>2, TreeFields
  <2>2. p # n
    BY <1>0, <1>1, <1>2, KidFacts, UpFacts
  <2>3. t.color[g] # "red"
    BY <1>0, <1>1, <1>2, <2>2 DEF NoRedPair, IsRed
  <2> QED BY <2>1, <2>3 DEF Color
<1>10. PICK bh : Balanced(t, M, bh, NULL, "left")
  BY DEF InsertReady
<1> DEFINE B == [bh EXCEPT ![p] = @ + 1, ![a] = @ + 1]
<1>11. \A m \in Ref : bh[m] \in Nat
  BY <1>10 DEF Balanced
<1>12. p \in Ref /\ a \in Ref /\ p # NULL /\ a # NULL
  BY <1>1, <1>4, NullOutside DEF Ref
<1>13. B \in [Ref -> Nat] /\ \A m \in Ref : B[m] = IF m = p \/ m = a THEN bh[m] + 1 ELSE bh[m]
  <2>1. bh \in [Ref -> Nat]
    BY <1>10 DEF Balanced
  <2> QED BY <2>1, <1>4, <1>11, <1>12
<1> HIDE DEF B
<1>14. Balanced(u, M, B, NULL, "left")
  <2>1. B[NULL] = 0
    BY <1>10, <1>12, <1>13 DEF Balanced, Ref
  <2>2. ASSUME NEW m \in M, NEW d \in Side
        PROVE  B[m] = B[u.kid[d][m]] + Own(u, m)
    <3>1. m \in Node /\ m # NULL /\ m \in Ref /\ t.kid[d][m] \in Ref /\ u.kid[d][m] = t.kid[d][m]
      BY <1>0, <1>5, NullOutside, TreeFields DEF Ref
    <3>2. bh[m] = bh[t.kid[d][m]] + Own(t, m)
      <4>1. bh[m] = bh[t.kid[d][m]] + Own(t, m) + 0
        BY <1>10, <3>1 DEF Balanced
      <4>2. Own(t, m) \in Nat
        BY DEF Own
      <4> QED BY <4>1, <4>2, <3>1, <1>11
    <3>3. bh[m] \in Nat /\ bh[t.kid[d][m]] \in Nat
      BY <3>1, <1>11
    <3>4. CASE m = g
      <4>1. t.kid[d][m] = p \/ t.kid[d][m] = a
        BY <3>4, <1>0, <1>2
      <4>2. Own(t, m) = 1 /\ Own(u, m) = 0
        BY <3>4, <1>2, <1>4, <1>5, <1>9 DEF Own
      <4>3. B[t.kid[d][m]] = bh[t.kid[d][m]] + 1 /\ B[m] = bh[m]
        BY <4>1, <3>1, <3>4, <1>2, <1>4, <1>13
      <4> QED BY <4>2, <4>3, <3>1, <3>2, <3>3
    <3>5. CASE m = p \/ m = a
      <4>1. Own(t, m) = 0 /\ Own(u, m) = 1
        BY <3>5, <1>1, <1>3, <1>4, <1>5 DEF Own
      <4>2. B[t.kid[d][m]] = bh[t.kid[d][m]] /\ B[m] = bh[m] + 1
        BY <3>1, <3>5, <1>2, <1>4, <1>8, <1>13
      <4> QED BY <4>1, <4>2, <3>1, <3>2, <3>3
    <3>6. CASE m # g /\ m # p /\ m # a
      <4>1. Own(t, m) = Own(u, m)
        BY <3>1, <3>6, <1>5 DEF Own
      <4>2. B[t.kid[d][m]] = bh[t.kid[d][m]] /\ B[m] = bh[m]
        BY <3>1, <3>6, <1>8, <1>13
      <4> QED BY <4>1, <4>2, <3>1, <3>2
    <3> QED BY <3>4, <3>5, <3>6
  <2>3. ASSUME NEW m \in M, NEW d \in Side
        PROVE  B[m] = B[u.kid[d][m]] + Own(u, m) + 0
    <3>1. u.kid[d][m] \in Ref
      BY <1>0, <1>5, TreeFields
    <3>2. B[u.kid[d][m]] \in Nat /\ Own(u, m) \in Nat
      BY <3>1, <1>13 DEF Own
    <3> QED BY <3>2, <2>2
  <2>4. \A m \in M : m # NULL
    BY <1>0, NullOutside
  <2> QED BY <2>1, <2>3, <2>4, <1>13 DEF Balanced
<1>15. NoRedPair(u, M, g)
  <2> SUFFICES ASSUME NEW m \in M, NEW d \in Side, u.color[m] = "red", IsRed(u, u.kid[d][m]),
                      u.kid[d][m] # g
               PROVE  FALSE
    BY DEF NoRedPair
  <2>1. m \in Node /\ m # p /\ m # a /\ u.kid[d][m] = t.kid[d][m]
    BY <1>0, <1>1, <1>4, <1>5
  <2>2. t.kid[d][m] # NULL /\ t.kid[d][m] \in Node /\ t.up[t.kid[d][m]] = m
    BY <2>1, <1>0, KidFacts DEF IsRed
  <2>3. t.kid[d][m] # p /\ t.kid[d][m] # a
    BY <2>1, <2>2, <1>5 DEF IsRed
  <2>4. m # g
    BY <2>3, <1>0, <1>2
  <2>5. t.color[m] = "red" /\ IsRed(t, t.kid[d][m])
    BY <2>1, <2>2, <2>3, <2>4, <1>5 DEF IsRed
  <2>6. t.kid[d][m] = n
    BY <2>5, <1>0 DEF NoRedPair
  <2> QED BY <2>1, <2>2, <2>6, <1>1
<1>16. u.color[g] = "red"
  BY <1>2, <1>4, <1>5
<1>17. IsRed(u, u.root) => u.root = g
  <2> SUFFICES ASSUME IsRed(u, u.root), u.root # g PROVE FALSE
    OBVIOUS
  <2>1. t.root # NULL /\ t.root \in Node /\ t.up[t.root] = NULL
    BY <1>0, <1>5 DEF IsRed, Shape
  <2>2. t.root # p /\ t.root # a
    BY <2>1, <1>2, <1>4, NullOutside
  <2>3. IsRed(t, t.root)
    BY <2>1, <2>2, <1>5 DEF IsRed
  <2> QED BY <2>1, <2>3, <1>0, <1>1
<1>18. InsertReady(u, M, sub, g)
  BY <1>2, <1>5, <1>7, <1>14, <1>15, <1>16, <1>17 DEF InsertReady
<1> QED BY <1>6, <1>18 DEF u

\* The two ends of the loop that need no rotation.
LEMMA InsertDone ==
    ASSUME NEW t, NEW M, NEW sub, NEW n, InsertReady(t, M, sub, n)
    PROVE  /\ t.up[n] = NULL => /\ Sound(SetParentColor(t, n, NULL, "black"), M)
                                /\ \A m \in Node \ M : SetParentColor(t, n, NULL, "black").up[m] = t.up[m]
           /\ t.up[n] # NULL /\ ~IsRed(t, t.up[n]) => Sound(t, M)
<1>0. /\ t \in Tree /\ Shape(t, M, sub) /\ n \in M /\ NoRedPair(t, M, n) /\ t.color[n] = "red"
      /\ (IsRed(t, t.root) => t.root = n) /\ M \subseteq Node /\ n \in Node
  BY DEF InsertReady, Shape
<1>1. PICK bh : Balanced(t, M, bh, NULL, "left")
  BY DEF InsertReady
<1>2. n # NULL /\ n \in Ref /\ NULL \in Ref
  BY <1>0, NullOutside DEF Ref
<1>3. ASSUME t.up[n] = NULL
      PROVE  /\ Sound(SetParentColor(t, n, NULL, "black"), M)
             /\ \A m \in Node \ M : SetParentColor(t, n, NULL, "black").up[m] = t.up[m]
  <2> DEFINE u == SetParentColor(t, n, NULL, "black")
             B == [bh EXCEPT ![n] = @ + 1]
  <2>1. t.root = n
    BY <1>0, <1>3, UpFacts
  <2>2. Painted(t, u, n, NULL, "black")
    BY <1>0, <1>2, PaintedIs DEF Color
  <2> HIDE DEF u
  <2>3. /\ u \in Tree /\ u.root = n
        /\ \A d \in Side, m \in Node : u.kid[d][m] = t.kid[d][m]
        /\ \A m \in Node : /\ u.up[m] = t.up[m]
                           /\ u.color[m] = IF m = n THEN "black" ELSE t.color[m]
    BY <2>1, <2>2, <1>3 DEF Painted
  <2>4. Shape(u, M, sub)
    BY <1>0, <2>1, <2>3, SameLinksShape DEF SameLinks
  <2>5. bh \in [Ref -> Nat] /\ bh[NULL] = 0
    BY <1>1 DEF Balanced
  <2>6. B \in [Ref -> Nat] /\ \A m \in Ref : B[m] = IF m = n THEN bh[m] + 1 ELSE bh[m]
    BY <1>2, <2>5
  <2> HIDE DEF B
  <2>7. ASSUME NEW m \in M, NEW d \in Side
        PROVE  B[m] = B[u.kid[d][m]] + Own(u, m) + (IF m = NULL /\ d = "left" THEN 1 ELSE 0)
    <3>1. m \in Node /\ m # NULL /\ m \in Ref /\ t.kid[d][m] \in Ref /\ u.kid[d][m] = t.kid[d][m]
      BY <1>0, <2>3, NullOutside, TreeFields DEF Ref
    <3>2. bh[m] = bh[t.kid[d][m]] + Own(t, m) + 0
      BY <1>1, <3>1 DEF Balanced
    <3>3. bh[m] \in Nat /\ bh[t.kid[d][m]] \in Nat /\ Own(t, m) \in Nat
      BY <2>5, <3>1 DEF Own
    <3>4. t.kid[d][m] # n
      BY <1>0, <1>2, <1>3, <3>1, KidFacts
    <3>5. B[u.kid[d][m]] = bh[t.kid[d][m]]
      BY <3>1, <3>4, <2>6
    <3>6. CASE m = n
      <4>1. B[m] = bh[m] + 1 /\ Own(t, m) = 0 /\ Own(u, m) = 1
        BY <3>6, <2>3, <2>6, <1>0, <1>2 DEF Own
      <4> QED BY <4>1, <3>1, <3>2, <3>3, <3>5
    <3>7. CASE m # n
      <4>1. B[m] = bh[m] /\ Own(t, m) = Own(u, m)
        BY <3>1, <3>7, <2>3, <2>6 DEF Own
      <4> QED BY <4>1, <3>1, <3>2, <3>3, <3>5
    <3> QED BY <3>6, <3>7
  <2>8. Balanced(u, M, B, NULL, "left")
    <3>1. B[NULL] = 0
      BY <1>2, <2>5, <2>6
    <3> QED BY <3>1, <2>6, <2>7 DEF Balanced
  <2>9. NoRedPair(u, M, NULL)
    <3> SUFFICES ASSUME NEW m \in M, NEW d \in Side, u.color[m] = "red", IsRed(u, u.kid[d][m])
                 PROVE  FALSE
      BY DEF NoRedPair
    <3>1. m \in Node /\ m # n /\ u.kid[d][m] = t.kid[d][m] /\ t.color[m] = "red"
      BY <1>0, <2>3
    <3>2. t.kid[d][m] # NULL /\ t.kid[d][m] \in Node /\ t.up[t.kid[d][m]] = m
      BY <3>1, <1>0, KidFacts DEF IsRed
    <3>3. t.kid[d][m] # n
      BY <3>1, <3>2, <1>3, <1>0, NullOutside
    <3>4. IsRed(t, t.kid[d][m])
      BY <3>1, <3>2, <3>3, <2>3 DEF IsRed
    <3> QED BY <3>1, <3>3, <3>4, <1>0 DEF NoRedPair
  <2>10. ~IsRed(u, u.root)
    BY <2>3, <1>0 DEF IsRed
  <2>11. Sound(u, M)
    BY <2>3, <2>4, <2>8, <2>9, <2>10 DEF Sound
  <2> QED BY <2>3, <2>11 DEF u
<1>4. ASSUME t.up[n] # NULL, ~IsRed(t, t.up[n])
      PROVE  Sound(t, M)
  <2>1. t.root # n
    BY <1>0, <1>4, UpFacts
  <2>2. ~IsRed(t, t.root)
    BY <1>0, <2>1
  <2>3. NoRedPair(t, M, NULL)
    <3> SUFFICES ASSUME NEW m \in M, NEW d \in Side, t.color[m] = "red", IsRed(t, t.kid[d][m])
                 PROVE  FALSE
      BY DEF NoRedPair
    <3>1. t.kid[d][m] = n
      BY <1>0 DEF NoRedPair
    <3>2. t.up[n] = m /\ m # NULL
      BY <3>1, <1>0, <1>2, KidFacts, NullOutside
    <3> QED BY <3>2, <1>4 DEF IsRed
  <2> QED BY <1>0, <1>1, <2>2, <2>3 DEF Sound
<1> QED BY <1>3, <1>4

InsertSafe(f, t0, M, sub, n) ==
    \A t : InsertReady(t, M, sub, n) /\ SameLinks(t0, t)
           => Sound(f[<<t, n>>], M) /\ \A m \in Node \ M : f[<<t, n>>].up[m] = t0.up[m]

\* One pass of the loop.
LEMMA InsertPass ==
    ASSUME NEW f, \A t \in Tree, n \in Node : f[<<t, n>>] = InsertBody(f, <<t, n>>),
           NEW t0, NEW M, NEW sub, NEW n \in M,
           NEW t, InsertReady(t, M, sub, n), SameLinks(t0, t),
           \A g \in M : t.up[n] # NULL /\ g = t.up[t.up[n]] => InsertSafe(f, t0, M, sub, g)
    PROVE  Sound(f[<<t, n>>], M) /\ \A m \in Node \ M : f[<<t, n>>].up[m] = t0.up[m]
<1>0. /\ t \in Tree /\ Shape(t, M, sub) /\ n \in M /\ NoRedPair(t, M, n) /\ t.color[n] = "red"
      /\ (IsRed(t, t.root) => t.root = n) /\ M \subseteq Node /\ n \in Node /\ n # NULL
  BY NullOutside DEF InsertReady, Shape
<1>1. \A m \in Node : t.up[m] = t0.up[m]
  BY DEF SameLinks
<1> DEFINE p == t.up[n]
           g == t.up[p]
           s == IF p # t.kid["right"][g] THEN "left" ELSE "right"
           a == t.kid[Other(s)][g]
<1>2. f[<<t, n>>] = IF p = NULL THEN SetParentColor(t, n, NULL, "black")
                    ELSE IF ~IsRed(t, p) THEN t
                    ELSE IF g # NULL /\ IsRed(t, a) THEN f[<<Flip(t, p, a, g), g>>]
                    ELSE InsertRotate(t, n, p, g, s)
  <2>1. f[<<t, n>>] = InsertBody(f, <<t, n>>)
    BY <1>0
  <2>2. <<t, n>>[1] = t /\ <<t, n>>[2] = n
    OBVIOUS
  <2>3. InsertBody(f, <<t, n>>)
          = IF p = NULL THEN SetParentColor(t, n, NULL, "black")
            ELSE IF ~IsRed(t, p) THEN t
            ELSE IF g # NULL /\ IsRed(t, a) THEN f[<<Flip(t, p, a, g), g>>]
            ELSE InsertRotate(t, n, p, g, s)
    BY <2>2, ZenonT(60) DEF InsertBody
  <2> QED BY <2>1, <2>3, Zenon
<1>3. CASE p = NULL
  BY <1>0, <1>1, <1>2, <1>3, InsertDone
<1>4. CASE p # NULL /\ ~IsRed(t, p)
  BY <1>0, <1>1, <1>2, <1>4, InsertDone
<1>5. CASE p # NULL /\ IsRed(t, p)
  <2>1. p \in M /\ p \in Node /\ t.root # n
    BY <1>0, <1>5, UpFacts
  <2>2. t.root # p /\ ~IsRed(t, t.root)
    BY <1>0, <1>5, <2>1
  <2>3. g # NULL /\ g \in M /\ \E e \in Side : t.kid[e][g] = p
    BY <1>0, <2>1, <2>2, UpFacts
  <2>4. PICK e \in Side : t.kid[e][g] = p
    BY <2>3
  <2>5. s = e
    BY <1>0, <1>5, <2>3, <2>4, SideOf
  <2>6. /\ Above(t, n, p) /\ Above(t, p, g) /\ s \in Side /\ Kid(t, s, g, p) /\ Kid(t, Other(s), g, a)
        /\ t.color[p] = "red"
    BY <1>5, <2>4, <2>5 DEF Above, Kid, IsRed
  <2>7. g = t.up[t.up[n]] /\ t.up[n] # NULL
    BY <1>5
  <2> HIDE DEF p, g, s, a
  <2>8. CASE IsRed(t, a)
    <3>1. SameLinks(t, Flip(t, p, a, g)) /\ InsertReady(Flip(t, p, a, g), M, sub, g)
      BY <1>5, <2>3, <2>6, <2>8, FlipReady
    <3>2. SameLinks(t0, Flip(t, p, a, g))
      BY <3>1, <1>0 DEF SameLinks
    <3>3. InsertSafe(f, t0, M, sub, g)
      BY <2>3, <2>7
    <3>4. f[<<t, n>>] = f[<<Flip(t, p, a, g), g>>]
      BY <1>2, <1>5, <2>3, <2>8
    <3> QED BY <3>1, <3>2, <3>3, <3>4 DEF InsertSafe
  <2>9. CASE ~IsRed(t, a)
    <3>1. f[<<t, n>>] = InsertRotate(t, n, p, g, s)
      BY <1>2, <1>5, <2>9
    <3>2. PICK bh : Balanced(t, M, bh, NULL, "left")
      BY DEF InsertReady
    <3>3. ~IsRed(t, t.kid[Other(s)][g])
      BY <2>6, <2>9 DEF Kid
    <3>4. /\ Sound(InsertRotate(t, n, p, g, s), M)
          /\ \A m \in Node \ M : InsertRotate(t, n, p, g, s).up[m] = t.up[m]
      BY <3>2, <3>3, <1>0, <1>5, <2>2, <2>3, <2>6, InsertRotateSound
    <3> QED BY <3>1, <3>4, <1>1
  <2> QED BY <2>8, <2>9
<1> QED BY <1>3, <1>4, <1>5

\* __rb_insert makes a sound tree of one that a new red node spoils at most
\* towards its parent, and it touches no node outside.
LEMMA InsertColorSound ==
    ASSUME NEW t, NEW M, NEW sub, NEW n, InsertReady(t, M, sub, n)
    PROVE  Sound(InsertColor(t, n), M) /\ \A m \in Node \ M : InsertColor(t, n).up[m] = t.up[m]
<1>0. t \in Tree /\ Shape(t, M, sub) /\ n \in M /\ M \subseteq Node
  BY DEF InsertReady, Shape
<1>1. PICK f : /\ \A v \in Tree, m \in Node : f[<<v, m>>] = InsertBody(f, <<v, m>>)
               /\ \A v, m : InsertColor(v, m) = f[<<v, m>>]
  BY InsertLoop
<1> DEFINE Ok(m) == InsertSafe(f, t, M, sub, m)
           G == {m \in M : Ok(m) /\ (t.up[m] # NULL => Ok(t.up[m]))}
<1>2. ASSUME NEW m \in M, \A g \in M : t.up[m] # NULL /\ g = t.up[t.up[m]] => Ok(g)
      PROVE  Ok(m)
  <2> SUFFICES ASSUME NEW v, InsertReady(v, M, sub, m), SameLinks(t, v)
               PROVE  Sound(f[<<v, m>>], M) /\ \A k \in Node \ M : f[<<v, m>>].up[k] = t.up[k]
    BY DEF InsertSafe
  <2>1. \A g \in M : v.up[m] # NULL /\ g = v.up[v.up[m]] => Ok(g)
    <3>1. v \in Tree /\ Shape(v, M, sub) /\ \A k \in Node : v.up[k] = t.up[k]
      BY DEF InsertReady, SameLinks
    <3>2. m \in Node /\ v.up[m] = t.up[m]
      BY <1>0, <3>1
    <3>3. CASE v.up[m] = NULL
      BY <3>3
    <3>4. CASE v.up[m] # NULL
      <4>1. v.up[m] \in Node
        BY <3>1, <3>4, <1>0, UpFacts
      <4> QED BY <4>1, <3>1, <3>2, <1>2
    <3> QED BY <3>3, <3>4
  <2> HIDE DEF Ok
  <2> QED BY <1>1, <2>1, InsertPass DEF Ok
<1> HIDE DEF Ok
<1>3. M # {} => t.root \in G
  <2> SUFFICES ASSUME M # {} PROVE t.root \in G
    OBVIOUS
  <2>1. t.root \in M /\ t.up[t.root] = NULL
    BY <1>0 DEF Shape
  <2>2. Ok(t.root)
    BY <1>2, <2>1
  <2> QED BY <2>1, <2>2
<1>4. \A m \in M, s \in Side : m \in G /\ t.kid[s][m] # NULL => t.kid[s][m] \in G
  <2> SUFFICES ASSUME NEW m \in M, NEW s \in Side, m \in G, t.kid[s][m] # NULL
               PROVE  t.kid[s][m] \in G
    OBVIOUS
  <2>1. t.kid[s][m] \in M /\ t.up[t.kid[s][m]] = m
    BY <1>0, KidFacts
  <2>2. Ok(m) /\ (t.up[m] # NULL => Ok(t.up[m]))
    OBVIOUS
  <2>3. \A g \in M : g = t.up[t.up[t.kid[s][m]]] => Ok(g)
    BY <1>0, <2>1, <2>2, NullOutside
  <2>4. Ok(t.kid[s][m])
    BY <1>2, <2>1, <2>3
  <2> QED BY <2>1, <2>2, <2>4
<1> HIDE DEF G
<1>5. n \in G
  BY <1>0, <1>3, <1>4, TopDown
<1>6. SameLinks(t, t)
  BY <1>0 DEF SameLinks
<1> QED BY <1>1, <1>5, <1>6 DEF G, Ok, InsertSafe

\* A red node without children below p.
Fresh(t, u, n, p) ==
    /\ u \in Tree /\ u.root = t.root
    /\ \A d \in Side, m \in Node : u.kid[d][m] = IF m = n THEN NULL ELSE t.kid[d][m]
    /\ \A m \in Node : /\ u.up[m] = IF m = n THEN p ELSE t.up[m]
                       /\ u.color[m] = IF m = n THEN "red" ELSE t.color[m]

\* A new node is red and has no children.
LEMMA FreshIs ==
    ASSUME NEW t \in Tree, NEW n \in Node, NEW p \in Ref
    PROVE  Fresh(t, [t EXCEPT !.up[n] = p, !.color[n] = "red",
                              !.kid["left"][n] = NULL, !.kid["right"][n] = NULL], n, p)
<1> DEFINE a == [t EXCEPT !.up[n] = p, !.color[n] = "red"]
           b == [a EXCEPT !.kid["left"][n] = NULL]
           u == [b EXCEPT !.kid["right"][n] = NULL]
<1>0. /\ n # NULL /\ n \in Ref /\ NULL \in Ref /\ "red" \in Color
      /\ "left" \in Side /\ "right" \in Side /\ \A d \in Side : d = "left" \/ d = "right"
  BY NullOutside DEF Ref, Color, Side
<1>1. [t EXCEPT !.up[n] = p, !.color[n] = "red",
                !.kid["left"][n] = NULL, !.kid["right"][n] = NULL] = u
  OBVIOUS
<1>2. a = SetParentColor(t, n, p, "red")
  BY <1>0 DEF SetParentColor
<1>3. Painted(t, a, n, p, "red")
  BY <1>0, <1>2, PaintedIs
<1> HIDE DEF a
<1>4. a \in Tree
  BY <1>3 DEF Painted
<1>5. /\ b \in Tree /\ b.root = a.root /\ b.up = a.up /\ b.color = a.color
      /\ \A d \in Side, m \in Node :
            b.kid[d][m] = IF d = "left" /\ m = n THEN NULL ELSE a.kid[d][m]
  BY <1>0, <1>4, SetKidIs
<1> HIDE DEF b
<1>6. /\ u \in Tree /\ u.root = b.root /\ u.up = b.up /\ u.color = b.color
      /\ \A d \in Side, m \in Node :
            u.kid[d][m] = IF d = "right" /\ m = n THEN NULL ELSE b.kid[d][m]
  BY <1>0, <1>5, SetKidIs
<1> HIDE DEF u
<1>7. u \in Tree /\ u.root = t.root
  BY <1>3, <1>5, <1>6 DEF Painted
<1>8. \A d \in Side, m \in Node : u.kid[d][m] = IF m = n THEN NULL ELSE t.kid[d][m]
  <2>1. \A d \in Side, m \in Node : a.kid[d][m] = t.kid[d][m]
    BY <1>3 DEF Painted
  <2> QED BY <2>1, <1>0, <1>5, <1>6
<1>9. \A m \in Node : /\ u.up[m] = IF m = n THEN p ELSE t.up[m]
                      /\ u.color[m] = IF m = n THEN "red" ELSE t.color[m]
  <2>1. u.up = a.up /\ u.color = a.color
    BY <1>5, <1>6
  <2> QED BY <2>1, <1>3 DEF Painted
<1>10. Fresh(t, u, n, p)
  BY <1>7, <1>8, <1>9 DEF Fresh
<1> QED BY <1>1, <1>10

LinkedTo(t, u, n, p, s) ==
    /\ u \in Tree /\ u.root = IF p = NULL THEN n ELSE t.root
    /\ \A d \in Side, m \in Node :
          u.kid[d][m] = IF m = n THEN NULL ELSE IF m = p /\ d = s THEN n ELSE t.kid[d][m]
    /\ \A m \in Node : /\ u.up[m] = IF m = n THEN p ELSE t.up[m]
                       /\ u.color[m] = IF m = n THEN "red" ELSE t.color[m]

\* eaf_map_low_link_node, field by field.
LEMMA LinkNodeIs ==
    ASSUME NEW t \in Tree, NEW n \in Node, NEW p \in Ref, p # n, NEW s \in Side
    PROVE  LinkedTo(t, LinkNode(t, n, p, s), n, p, s)
<1> DEFINE a == [t EXCEPT !.up[n] = p, !.color[n] = "red",
                          !.kid["left"][n] = NULL, !.kid["right"][n] = NULL]
<1>1. Fresh(t, a, n, p)
  BY FreshIs
<1>2. LinkNode(t, n, p, s) = IF p = NULL THEN [a EXCEPT !.root = n] ELSE [a EXCEPT !.kid[s][p] = n]
  BY DEF LinkNode
<1> HIDE DEF a
<1>3. /\ a \in Tree /\ a.root = t.root /\ n \in Ref
      /\ \A d \in Side, m \in Node : a.kid[d][m] = IF m = n THEN NULL ELSE t.kid[d][m]
      /\ \A m \in Node : /\ a.up[m] = IF m = n THEN p ELSE t.up[m]
                         /\ a.color[m] = IF m = n THEN "red" ELSE t.color[m]
  BY <1>1 DEF Fresh, Ref
<1>4. CASE p = NULL
  <2> DEFINE u == [a EXCEPT !.root = n]
  <2>1. u \in Tree /\ u.root = n /\ u.kid = a.kid /\ u.up = a.up /\ u.color = a.color
    BY <1>3, SetRootIs
  <2> HIDE DEF u
  <2>2. \A m \in Node : m # p
    BY <1>4, NullOutside
  <2>3. LinkedTo(t, u, n, p, s)
    BY <2>1, <2>2, <1>3, <1>4 DEF LinkedTo
  <2> QED BY <2>3, <1>2, <1>4 DEF u
<1>5. CASE p # NULL
  <2> DEFINE u == [a EXCEPT !.kid[s][p] = n]
  <2>1. /\ u \in Tree /\ u.root = a.root /\ u.up = a.up /\ u.color = a.color
        /\ \A d \in Side, m \in Node : u.kid[d][m] = IF d = s /\ m = p THEN n ELSE a.kid[d][m]
    BY <1>3, <1>5, SetKidIs DEF Ref
  <2> HIDE DEF u
  <2>2. \A d \in Side, m \in Node :
          u.kid[d][m] = IF m = n THEN NULL ELSE IF m = p /\ d = s THEN n ELSE t.kid[d][m]
    <3>1. \A d \in Side, m \in Node : u.kid[d][m] = IF d = s /\ m = p THEN n ELSE a.kid[d][m]
      BY <2>1
    <3>2. \A d \in Side, m \in Node : a.kid[d][m] = IF m = n THEN NULL ELSE t.kid[d][m]
      BY <1>3
    <3> SUFFICES ASSUME NEW d \in Side, NEW m \in Node
                 PROVE  u.kid[d][m] = IF m = n THEN NULL
                                      ELSE IF m = p /\ d = s THEN n ELSE t.kid[d][m]
      OBVIOUS
    <3> QED BY <3>1, <3>2
  <2>3. LinkedTo(t, u, n, p, s)
    BY <2>1, <2>2, <1>3, <1>5, SMTT(60) DEF LinkedTo
  <2> QED BY <2>3, <1>2, <1>5 DEF u
<1> QED BY <1>4, <1>5

-----------------------------------------------------------------------------
(* The descent. *)

\* The descent of eaf_map_insert and eaf_map_find as a function.
LEMMA DescendFunction ==
    ASSUME NEW t \in Tree, NEW k
    PROVE  \E f : /\ \A m \in Node : LET c == t.kid[Toward(k, m)][m]
                                     IN  f[m] = IF Key(m) = k \/ c = NULL THEN m ELSE f[c]
                  /\ \A n : Descend(t, k, n) = f[n]
<1> DEFINE H == {m \in Node : Key(m) = k \/ t.kid[Toward(k, m)][m] = NULL}
           nx == [m \in Node |-> t.kid[Toward(k, m)][m]]
           out == [m \in Node |-> m]
           down[m \in Node] == LET c == t.kid[Toward(k, m)][m]
                               IN  IF Key(m) = k \/ c = NULL THEN m ELSE down[c]
<1>0. \A m : Toward(k, m) \in Side
  BY DEF Toward, Side
<1>1. \A m \in Node : m \notin H => nx[m] \in Node
  BY <1>0, TreeFields DEF Ref
<1>2. \E f : IsLoop(f, Node, H, nx, out)
  <2> HIDE DEF H, nx, out
  <2> QED BY <1>1, LoopExists
<1>3. PICK g : IsLoop(g, Node, H, nx, out)
  BY <1>2
<1>4. \A m \in Node : /\ m \in H <=> Key(m) = k \/ t.kid[Toward(k, m)][m] = NULL
                      /\ nx[m] = t.kid[Toward(k, m)][m] /\ out[m] = m
  OBVIOUS
<1> HIDE DEF H, nx, out
<1>5. \E f : f = [m \in Node |-> IF Key(m) = k \/ t.kid[Toward(k, m)][m] = NULL THEN m
                                 ELSE f[t.kid[Toward(k, m)][m]]]
  <2>1. \A m \in Node : g[m] = IF Key(m) = k \/ t.kid[Toward(k, m)][m] = NULL THEN m
                               ELSE g[t.kid[Toward(k, m)][m]]
    BY <1>3, <1>4, ZenonT(60) DEF IsLoop
  <2>2. g = [m \in Node |-> g[m]]
    BY <1>3 DEF IsLoop
  <2>3. g = [m \in Node |-> IF Key(m) = k \/ t.kid[Toward(k, m)][m] = NULL THEN m
                            ELSE g[t.kid[Toward(k, m)][m]]]
    BY <2>1, <2>2
  <2> QED BY <2>3
<1>6. down = [m \in Node |-> IF Key(m) = k \/ t.kid[Toward(k, m)][m] = NULL THEN m
                             ELSE down[t.kid[Toward(k, m)][m]]]
  BY <1>5
<1>7. \A n : Descend(t, k, n) = down[n]
  BY DEF Descend
<1> QED BY <1>6, <1>7

\* r is where the search for k below a ends.
Found(t, sub, k, a, r) ==
    /\ r \in sub[a]
    /\ Key(r) # k => /\ t.kid[Toward(k, r)][r] = NULL
                     /\ \A m \in sub[a] : /\ Key(m) # k
                                          /\ m # r => (k < Key(m) <=> Key(r) < Key(m))

\* The descent from a node ends at the key, or where the key would be.
LEMMA DescendIs ==
    ASSUME NEW t \in Tree, NEW M, NEW sub, Shape(t, M, sub), NEW a \in M, NEW k \in Int
    PROVE  Found(t, sub, k, a, Descend(t, k, a))
<1>0. M \subseteq Node /\ \A m \in M : Key(m) \in Int /\ m \in sub[m] /\ sub[m] \subseteq M
  BY KeyInt DEF Shape
<1>1. PICK f : /\ \A m \in Node : LET c == t.kid[Toward(k, m)][m]
                                  IN  f[m] = IF Key(m) = k \/ c = NULL THEN m ELSE f[c]
               /\ \A n : Descend(t, k, n) = f[n]
  BY DescendFunction
<1> DEFINE G == {n \in M : Found(t, sub, k, n, f[n])}
<1>2. ASSUME NEW n \in M, \A s \in Side : t.kid[s][n] # NULL => t.kid[s][n] \in G
      PROVE  n \in G
  <2> DEFINE s == Toward(k, n)
             c == t.kid[s][n]
             r == f[n]
  <2>0. s \in Side /\ Key(n) \in Int /\ n \in Node
    BY <1>0 DEF Toward, Side
  <2>1. r = IF Key(n) = k \/ c = NULL THEN n ELSE f[c]
    BY <1>1, <2>0
  <2>2. \A m \in sub[n] : m = n \/ Key(m) < Key(n) \/ Key(n) < Key(m)
    BY <1>0 DEF Shape, Distinctly
  <2>3. CASE Key(n) = k
    BY <2>1, <2>3, <1>0 DEF Found
  <2>4. CASE Key(n) # k /\ c = NULL
    <3>1. r = n /\ r \in sub[n]
      BY <2>1, <2>4, <1>0
    <3>2. Half(sub, s, n) = {}
      BY <2>0, <2>4 DEF Shape
    <3>3. ASSUME NEW m \in sub[n], m # n
          PROVE  Key(m) # k /\ (k < Key(m) <=> Key(n) < Key(m))
      <4>1. ~Before(s, m, n) /\ Key(m) \in Int
        BY <3>2, <1>0 DEF Half
      <4>2. CASE k < Key(n)
        <5>1. ~(Key(m) < Key(n))
          BY <4>1, <4>2 DEF Toward, Before
        <5> QED BY <5>1, <4>1, <4>2, <2>0, <2>2, <3>3
      <4>3. CASE ~(k < Key(n))
        <5>1. ~(Key(n) < Key(m))
          BY <4>1, <4>3 DEF Toward, Before
        <5> QED BY <5>1, <4>1, <4>3, <2>0, <2>2, <2>4, <3>3
      <4> QED BY <4>2, <4>3
    <3> QED BY <3>1, <3>3, <2>4 DEF Found
  <2>5. CASE Key(n) # k /\ c # NULL
    <3>1. r = f[c] /\ c \in G
      BY <2>0, <2>1, <2>5, <1>2
    <3>2. Found(t, sub, k, c, r) /\ sub[c] = Half(sub, s, n)
      BY <3>1, <2>0, <2>5, KidFacts
    <3> HIDE DEF r, c
    <3>3. r \in sub[c] /\ r \in sub[n] /\ Before(s, r, n) /\ Key(r) \in Int
      BY <3>2, <1>0 DEF Found, Half
    <3>4. ASSUME NEW m \in sub[n], Key(r) # k
          PROVE  Key(m) # k /\ (m # r => (k < Key(m) <=> Key(r) < Key(m)))
      <4>1. CASE m \in sub[c]
        BY <3>2, <3>4, <4>1 DEF Found
      <4>2. CASE m \notin sub[c]
        <5>1. ~Before(s, m, n) /\ Key(m) \in Int
          BY <3>2, <4>2, <1>0 DEF Half
        <5>2. CASE k < Key(n)
          <6>1. ~(Key(m) < Key(n)) /\ Key(r) < Key(n)
            BY <3>3, <5>1, <5>2 DEF Toward, Before
          <6> QED BY <6>1, <5>1, <5>2, <3>3, <2>0
        <5>3. CASE ~(k < Key(n))
          <6>1. ~(Key(n) < Key(m)) /\ Key(n) < Key(r)
            BY <3>3, <5>1, <5>3 DEF Toward, Before
          <6> QED BY <6>1, <5>1, <5>3, <3>3, <2>0, <2>5
        <5> QED BY <5>2, <5>3
      <4> QED BY <4>1, <4>2
    <3>5. Key(r) # k => t.kid[Toward(k, r)][r] = NULL
      BY <3>2 DEF Found
    <3>6. Found(t, sub, k, n, r)
      BY <3>3, <3>4, <3>5 DEF Found
    <3> QED BY <3>6 DEF r
  <2> QED BY <2>3, <2>4, <2>5
<1> HIDE DEF G
<1>3. M \subseteq G
  BY <1>2, BottomUp
<1> QED BY <1>1, <1>3 DEF G

-----------------------------------------------------------------------------
(* A new leaf. *)

\* The first node of a map is ready for __rb_insert.
LEMMA LinkFirst ==
    ASSUME NEW t \in Tree, NEW n \in Node
    PROVE  LET u == LinkNode(t, n, NULL, "left")
           IN  /\ InsertReady(u, {n}, [m \in Node |-> {n}], n)
               /\ \A m \in Node \ {n} : u.up[m] = t.up[m]
<1> DEFINE u == LinkNode(t, n, NULL, "left")
           sub == [m \in Node |-> {n}]
           bh == [m \in Ref |-> 0]
<1>0. n # NULL /\ NULL \in Ref /\ n \in Ref /\ "left" \in Side
  BY NullOutside DEF Ref, Side
<1>1. LinkedTo(t, u, n, NULL, "left")
  BY <1>0, LinkNodeIs
<1> HIDE DEF u
<1>2. /\ u \in Tree /\ u.root = n /\ u.up[n] = NULL /\ u.color[n] = "red"
      /\ (\A d \in Side : u.kid[d][n] = NULL) /\ \A m \in Node \ {n} : u.up[m] = t.up[m]
  BY <1>1 DEF LinkedTo
<1>3. \A s \in Side : Half(sub, s, n) = {}
  BY KeyInt DEF Half, Before
<1>4. Shape(u, {n}, sub)
  <2>1. sub \in [Node -> SUBSET {n}] /\ sub[n] = {n}
    OBVIOUS
  <2> HIDE DEF sub
  <2>2. {n} \in SUBSET Node /\ Distinctly({n})
    BY DEF Distinctly
  <2> QED BY <2>1, <2>2, <1>2, <1>3 DEF Shape
<1>5. Balanced(u, {n}, bh, NULL, "left")
  <2>1. bh \in [Ref -> Nat] /\ bh[NULL] = 0 /\ bh[n] = 0
    BY <1>0
  <2>2. Own(u, n) = 0
    BY <1>2 DEF Own
  <2> HIDE DEF bh
  <2> QED BY <2>1, <2>2, <1>0, <1>2 DEF Balanced
<1>6. NoRedPair(u, {n}, n)
  BY <1>2 DEF NoRedPair, IsRed
<1> HIDE DEF sub
<1>7. InsertReady(u, {n}, sub, n)
  BY <1>2, <1>4, <1>5, <1>6 DEF InsertReady
<1> QED BY <1>2, <1>7 DEF u, sub

\* n becomes a leaf below p.
Joined(sub, n, p) ==
    [m \in Node |-> IF m = n THEN {n} ELSE IF p \in sub[m] THEN sub[m] \cup {n} ELSE sub[m]]

\* A new node below the end of the descent keeps the shape.
LEMMA LinkBelow ==
    ASSUME NEW t \in Tree, NEW M, NEW sub, Shape(t, M, sub), M # {},
           NEW n \in Node, n \notin M, NEW p, Found(t, sub, Key(n), t.root, p), Key(p) # Key(n),
           NEW u, LinkedTo(t, u, n, p, Toward(Key(n), p))
    PROVE  Shape(u, M \cup {n}, Joined(sub, n, p)) /\ p \in M
<1> DEFINE s == Toward(Key(n), p)
           S == Joined(sub, n, p)
           W == M \cup {n}
<1>0. /\ M \subseteq Node /\ t.root \in M /\ sub[t.root] = M /\ t.up[t.root] = NULL
      /\ (\A m \in M : Key(m) \in Int /\ m \in Node /\ m # NULL /\ m # n /\ m \in sub[m])
      /\ (\A m \in Node : sub[m] \subseteq M)
      /\ n # NULL /\ Key(n) \in Int /\ s \in Side
  BY KeyInt, NullOutside DEF Shape, Toward, Side
<1>1. /\ p \in M /\ t.kid[s][p] = NULL
      /\ \A m \in M : /\ Key(m) # Key(n)
                      /\ m # p => (Key(n) < Key(m) <=> Key(p) < Key(m))
  BY <1>0 DEF Found
<1>2. \A d \in Side, m \in M : m # p => (Before(d, n, m) <=> Before(d, p, m))
  <2> SUFFICES ASSUME NEW d \in Side, NEW m \in M, m # p
               PROVE  Before(d, n, m) <=> Before(d, p, m)
    OBVIOUS
  <2>1. Key(m) # Key(p)
    BY <1>1 DEF Shape, Distinctly
  <2> QED BY <2>1, <1>0, <1>1 DEF Before
<1>3. \A d \in Side : Before(d, n, p) <=> d = s
  <2>1. Key(p) \in Int /\ Key(n) # Key(p)
    BY <1>0, <1>1
  <2> QED BY <2>1, <1>0 DEF Before, Toward, Side
<1>4. \A d \in Side : ~Before(d, n, n)
  BY <1>0 DEF Before
<1> HIDE DEF s
<1>5. /\ u \in Tree /\ u.root = t.root
      /\ \A d \in Side, m \in Node :
            u.kid[d][m] = IF m = n THEN NULL ELSE IF m = p /\ d = s THEN n ELSE t.kid[d][m]
      /\ \A m \in Node : u.up[m] = IF m = n THEN p ELSE t.up[m]
  BY <1>0, <1>1 DEF LinkedTo, s
<1>6. \A m \in Node : S[m] = IF m = n THEN {n} ELSE IF p \in sub[m] THEN sub[m] \cup {n} ELSE sub[m]
  BY DEF Joined
<1>7. S \in [Node -> SUBSET W]
  BY <1>0 DEF Joined
<1> HIDE DEF S
<1>8. W \in SUBSET Node /\ Distinctly(W) /\ W # {}
  BY <1>0, <1>1 DEF Shape, Distinctly
<1>9. u.root \in W /\ S[u.root] = W /\ u.up[u.root] = NULL
  <2>1. t.root \in Node /\ t.root # n /\ p \in sub[t.root]
    BY <1>0, <1>1
  <2>2. S[t.root] = W
    BY <2>1, <1>0, <1>6
  <2> QED BY <2>1, <2>2, <1>0, <1>5
<1>10. \A m \in W : m \in S[m]
  BY <1>0, <1>6
<1>11. ASSUME NEW m \in W, NEW d \in Side
       PROVE  /\ u.kid[d][m] = NULL => Half(S, d, m) = {}
              /\ u.kid[d][m] # NULL => /\ u.kid[d][m] \in W /\ u.up[u.kid[d][m]] = m
                                       /\ S[u.kid[d][m]] = Half(S, d, m)
  <2>1. CASE m = n
    <3>1. u.kid[d][m] = NULL /\ S[m] = {n}
      BY <2>1, <1>5, <1>6
    <3> QED BY <3>1, <2>1, <1>4 DEF Half
  <2>2. CASE m = p /\ d = s
    <3>1. u.kid[d][m] = n /\ u.up[n] = m /\ S[n] = {n} /\ S[m] = sub[m] \cup {n}
      BY <2>2, <1>0, <1>1, <1>5, <1>6
    <3>2. Half(sub, d, m) = {}
      BY <2>2, <1>1 DEF Shape
    <3>3. Before(d, n, m)
      BY <2>2, <1>3
    <3>4. Half(S, d, m) = {n}
      BY <3>1, <3>2, <3>3 DEF Half
    <3> QED BY <3>1, <3>4, <1>0
  <2>3. CASE m # n /\ ~(m = p /\ d = s)
    <3>1. m \in M /\ m \in Node /\ u.kid[d][m] = t.kid[d][m]
      BY <2>3, <1>0, <1>5
    <3>2. \A k \in Half(S, d, m) : k \in Half(sub, d, m) \/ (k = n /\ p \in Half(sub, d, m))
      <4> SUFFICES ASSUME NEW k \in Half(S, d, m), k \notin Half(sub, d, m)
                   PROVE  k = n /\ p \in Half(sub, d, m)
        OBVIOUS
      <4>1. k \in S[m] /\ Before(d, k, m)
        BY DEF Half
      <4>2. k = n /\ p \in sub[m]
        BY <4>1, <3>1, <1>6, <2>3 DEF Half
      <4>3. m # p
        BY <4>1, <4>2, <2>3, <1>3
      <4>4. Before(d, p, m)
        BY <4>1, <4>2, <4>3, <3>1, <1>2
      <4> QED BY <4>2, <4>4 DEF Half
    <3>3. \A k \in Half(sub, d, m) : k \in Half(S, d, m)
      BY <3>1, <1>6, <2>3 DEF Half
    <3>4. p \in Half(sub, d, m) => n \in Half(S, d, m)
      <4> SUFFICES ASSUME p \in Half(sub, d, m) PROVE n \in Half(S, d, m)
        OBVIOUS
      <4>1. p \in sub[m] /\ Before(d, p, m)
        BY DEF Half
      <4>2. m # p
        BY <4>1, <1>0, <1>1 DEF Before
      <4>3. Before(d, n, m) /\ n \in S[m]
        BY <4>1, <4>2, <3>1, <1>2, <1>6, <2>3
      <4> QED BY <4>3 DEF Half
    <3>5. CASE t.kid[d][m] = NULL
      <4>1. Half(sub, d, m) = {}
        BY <3>1, <3>5 DEF Shape
      <4>2. Half(S, d, m) = {}
        BY <4>1, <3>2
      <4> QED BY <4>2, <3>1, <3>5
    <3>6. CASE t.kid[d][m] # NULL
      <4> DEFINE c == t.kid[d][m]
      <4>1. c \in M /\ c \in Node /\ c # n /\ t.up[c] = m /\ sub[c] = Half(sub, d, m)
        BY <3>1, <3>6, <1>0, KidFacts
      <4> HIDE DEF c
      <4>2. S[c] = IF p \in sub[c] THEN sub[c] \cup {n} ELSE sub[c]
        BY <4>1, <1>6
      <4>3. \A k : k \in S[c] <=> k \in Half(sub, d, m) \/ (k = n /\ p \in Half(sub, d, m))
        BY <4>1, <4>2
      <4>4. S[c] = Half(S, d, m)
        BY <4>3, <3>2, <3>3, <3>4
      <4>5. u.kid[d][m] = c /\ u.up[c] = m /\ c # NULL
        BY <4>1, <3>1, <3>6, <1>5 DEF c
      <4> QED BY <4>1, <4>4, <4>5
    <3> QED BY <3>5, <3>6
  <2> QED BY <2>1, <2>2, <2>3
<1>12. \A m \in W : m # u.root => u.up[m] \in W /\ \E d \in Side : u.kid[d][u.up[m]] = m
  <2> SUFFICES ASSUME NEW m \in W, m # u.root
               PROVE  u.up[m] \in W /\ \E d \in Side : u.kid[d][u.up[m]] = m
    OBVIOUS
  <2>1. CASE m = n
    BY <2>1, <1>0, <1>1, <1>5
  <2>2. CASE m # n
    <3>1. m \in M /\ m \in Node /\ m # t.root /\ u.up[m] = t.up[m]
      BY <2>2, <1>0, <1>5
    <3>2. t.up[m] \in M /\ \E d \in Side : t.kid[d][t.up[m]] = m
      BY <3>1, <1>0, UpFacts
    <3>3. PICK d \in Side : t.kid[d][t.up[m]] = m
      BY <3>2
    <3>4. u.kid[d][t.up[m]] = m
      BY <3>1, <3>2, <3>3, <1>0, <1>1, <1>5
    <3> QED BY <3>1, <3>2, <3>4
  <2> QED BY <2>1, <2>2
<1> HIDE DEF W
<1>13. Shape(u, W, S)
  BY <1>7, <1>8, <1>9, <1>10, <1>11, <1>12 DEF Shape
<1> QED BY <1>1, <1>13 DEF W, S

\* And the tree is ready for __rb_insert.
LEMMA LinkReady ==
    ASSUME NEW t \in Tree, NEW M, NEW sub, Shape(t, M, sub), M # {}, NEW bh,
           Balanced(t, M, bh, NULL, "left"), NoRedPair(t, M, NULL), ~IsRed(t, t.root),
           NEW n \in Node, n \notin M, NEW p, Found(t, sub, Key(n), t.root, p), Key(p) # Key(n)
    PROVE  LET u == LinkNode(t, n, p, Toward(Key(n), p))
           IN  /\ InsertReady(u, M \cup {n}, Joined(sub, n, p), n)
               /\ \A m \in Node \ (M \cup {n}) : u.up[m] = t.up[m]
<1> DEFINE s == Toward(Key(n), p)
           u == LinkNode(t, n, p, s)
           W == M \cup {n}
           B == [bh EXCEPT ![n] = 0]
<1>0. /\ M \subseteq Node /\ t.root \in M /\ t.root # NULL /\ sub[t.root] = M /\ s \in Side
      /\ n # NULL /\ n \in Ref /\ NULL \in Ref
  BY NullOutside DEF Shape, Toward, Side, Ref
<1>1. p \in M /\ p \in Node /\ p # n /\ p # NULL /\ p \in Ref /\ t.kid[s][p] = NULL
  BY <1>0, NullOutside DEF Found, Ref
<1>2. LinkedTo(t, u, n, p, s)
  BY <1>0, <1>1, LinkNodeIs
<1> HIDE DEF u
<1>3. Shape(u, W, Joined(sub, n, p))
  BY <1>2, LinkBelow
<1> HIDE DEF s
<1>4. /\ u \in Tree /\ u.root = t.root
      /\ \A d \in Side, m \in Node :
            u.kid[d][m] = IF m = n THEN NULL ELSE IF m = p /\ d = s THEN n ELSE t.kid[d][m]
      /\ \A m \in Node : /\ u.up[m] = IF m = n THEN p ELSE t.up[m]
                         /\ u.color[m] = IF m = n THEN "red" ELSE t.color[m]
  BY <1>1, <1>2 DEF LinkedTo
<1>5. bh \in [Ref -> Nat] /\ bh[NULL] = 0
  BY DEF Balanced
<1>6. B \in [Ref -> Nat] /\ \A m \in Ref : B[m] = IF m = n THEN 0 ELSE bh[m]
  BY <1>0, <1>5
<1> HIDE DEF B
<1>7. ASSUME NEW m \in W, NEW d \in Side
      PROVE  B[m] = B[u.kid[d][m]] + Own(u, m) + (IF m = NULL /\ d = "left" THEN 1 ELSE 0)
  <2>1. m \in Node /\ m # NULL /\ m \in Ref /\ t.kid[d][m] \in Ref
    BY <1>0, NullOutside, TreeFields DEF Ref
  <2>2. B[NULL] = 0 /\ B[n] = 0
    BY <1>0, <1>5, <1>6
  <2>3. CASE m = n
    <3>1. u.kid[d][m] = NULL /\ Own(u, m) = 0
      BY <2>3, <1>4 DEF Own
    <3> QED BY <3>1, <2>1, <2>2, <2>3
  <2>4. CASE m # n
    <3>1. bh[m] = bh[t.kid[d][m]] + Own(t, m) + 0
      BY <2>1, <2>4 DEF Balanced
    <3>2. Own(u, m) = Own(t, m) /\ B[m] = bh[m]
      BY <2>1, <2>4, <1>4, <1>6 DEF Own
    <3>3. B[u.kid[d][m]] = bh[t.kid[d][m]]
      <4>1. CASE m = p /\ d = s
        BY <4>1, <2>1, <2>2, <2>4, <1>1, <1>4, <1>5
      <4>2. CASE ~(m = p /\ d = s)
        <5>1. u.kid[d][m] = t.kid[d][m]
          BY <4>2, <2>1, <2>4, <1>4
        <5>2. t.kid[d][m] # n
          <6>1. m \in M
            BY <2>4
          <6> QED BY <6>1, <1>0, KidFacts
        <5> QED BY <5>1, <5>2, <2>1, <1>6
      <4> QED BY <4>1, <4>2
    <3> QED BY <3>1, <3>2, <3>3, <2>1
  <2> QED BY <2>3, <2>4
<1>8. Balanced(u, W, B, NULL, "left")
  <2>1. B[NULL] = 0
    BY <1>0, <1>5, <1>6
  <2> QED BY <2>1, <1>6, <1>7 DEF Balanced
<1>9. NoRedPair(u, W, n)
  <2> SUFFICES ASSUME NEW m \in W, NEW d \in Side, u.color[m] = "red", IsRed(u, u.kid[d][m]),
                      u.kid[d][m] # n
               PROVE  FALSE
    BY DEF NoRedPair
  <2>1. m # n /\ m \in M /\ m \in Node /\ t.color[m] = "red"
    BY <1>0, <1>4 DEF IsRed
  <2>2. u.kid[d][m] = t.kid[d][m]
    BY <2>1, <1>4
  <2>3. t.kid[d][m] # NULL /\ t.kid[d][m] \in Node
    BY <2>1, <2>2, KidFacts DEF IsRed
  <2>4. IsRed(t, t.kid[d][m])
    BY <2>2, <2>3, <1>4 DEF IsRed
  <2> QED BY <2>1, <2>3, <2>4 DEF NoRedPair
<1>10. ~IsRed(u, u.root)
  BY <1>0, <1>4 DEF IsRed
<1> HIDE DEF W
<1>11. InsertReady(u, W, Joined(sub, n, p), n)
  <2>1. n \in W /\ u.color[n] = "red"
    BY <1>4 DEF W
  <2> QED BY <2>1, <1>3, <1>4, <1>8, <1>9, <1>10 DEF InsertReady
<1>12. \A m \in Node \ W : u.up[m] = t.up[m]
  BY <1>4 DEF W
<1> QED BY <1>11, <1>12 DEF u, W, s

-----------------------------------------------------------------------------
(* Removal: the walk to the end of one side, and __rb_erase_augmented. *)

\* r is the end of side s below n.
EndOf(t, sub, n, s, r) ==
    /\ r \in sub[n] /\ t.kid[s][r] = NULL
    /\ \A m \in sub[n] : m # r => Before(s, r, m)
    /\ r # n => t.up[r] \in sub[n] /\ t.kid[s][t.up[r]] = r

\* The walk to one side ends at the last node of the subtree on that side.
LEMMA ExtremeIs ==
    ASSUME NEW t \in Tree, NEW M, NEW sub, Shape(t, M, sub), NEW n \in M, NEW s \in Side
    PROVE  EndOf(t, sub, n, s, Extreme(t, n, s))
<1>0. M \subseteq Node /\ Distinctly(M) /\ \A m \in M : m \in sub[m] /\ sub[m] \subseteq M
  BY DEF Shape
<1>1. PICK f : /\ \A m \in Node : f[m] = IF t.kid[s][m] = NULL THEN m ELSE f[t.kid[s][m]]
               /\ \A m : Extreme(t, m, s) = f[m]
  BY ExtremeFunction
<1> DEFINE G == {m \in M : EndOf(t, sub, m, s, f[m])}
<1>2. ASSUME NEW m \in M, \A d \in Side : t.kid[d][m] # NULL => t.kid[d][m] \in G
      PROVE  m \in G
  <2>1. CASE t.kid[s][m] = NULL
    <3>1. f[m] = m /\ Half(sub, s, m) = {}
      BY <2>1, <1>0, <1>1 DEF Shape
    <3>2. \A k \in sub[m] : k # m => Before(s, m, k)
      BY <3>1, <1>0, BeforeFacts DEF Half
    <3> QED BY <3>1, <3>2, <2>1, <1>0 DEF EndOf
  <2>2. CASE t.kid[s][m] # NULL
    <3> DEFINE c == t.kid[s][m]
               r == f[m]
    <3>1. /\ c \in M /\ t.up[c] = m /\ sub[c] = Half(sub, s, m) /\ sub[c] \subseteq sub[m]
          /\ m # c /\ m \notin sub[c]
      BY <2>2, KidFacts
    <3>2. r = f[c] /\ c \in G
      BY <2>2, <1>0, <1>1, <1>2
    <3>3. EndOf(t, sub, c, s, r)
      BY <3>2
    <3>4. t.kid[s][m] = c
      OBVIOUS
    <3> HIDE DEF r, c
    <3>5. r \in sub[c] /\ r \in sub[m] /\ Before(s, r, m) /\ r # m /\ t.kid[s][r] = NULL
      BY <3>1, <3>3 DEF EndOf, Half
    <3>6. ASSUME NEW k \in sub[m], k # r PROVE Before(s, r, k)
      <4>1. CASE k \in sub[c]
        BY <4>1, <3>3, <3>6 DEF EndOf
      <4>2. CASE k \notin sub[c]
        <5>1. ~Before(s, k, m)
          BY <4>2, <3>1 DEF Half
        <5>2. k = m \/ Before(s, m, k)
          BY <5>1, <1>0, BeforeFacts
        <5>3. r \in M /\ k \in M /\ m \in M
          BY <3>5, <1>0
        <5>4. Before(s, m, k) => Before(s, r, k)
          BY <5>3, <3>5, <1>0, BeforeFacts
        <5> QED BY <5>2, <5>4, <3>5
      <4> QED BY <4>1, <4>2
    <3>7. t.up[r] \in sub[m] /\ t.kid[s][t.up[r]] = r
      <4>1. CASE r = c
        BY <4>1, <3>1, <3>4, <1>0
      <4>2. CASE r # c
        BY <4>2, <3>1, <3>3 DEF EndOf
      <4> QED BY <4>1, <4>2
    <3>8. EndOf(t, sub, m, s, r)
      BY <3>5, <3>6, <3>7 DEF EndOf
    <3> QED BY <3>8 DEF r
  <2> QED BY <2>1, <2>2
<1> HIDE DEF G
<1>3. M \subseteq G
  BY <1>2, BottomUp
<1> QED BY <1>1, <1>3 DEF G

\* A tree of which only nodes elsewhere differ.
LEMMA SoundSame ==
    ASSUME NEW t, NEW M, Sound(t, M), NEW u \in Tree, u.root = t.root,
           \A n \in M : /\ u.up[n] = t.up[n] /\ u.color[n] = t.color[n]
                        /\ \A d \in Side : u.kid[d][n] = t.kid[d][n]
    PROVE  Sound(u, M)
<1>1. PICK sub, bh : Shape(t, M, sub) /\ Balanced(t, M, bh, NULL, "left")
  BY DEF Sound
<1>2. t \in Tree /\ NoRedPair(t, M, NULL) /\ ~IsRed(t, t.root)
  BY DEF Sound
<1>3. Shape(u, M, sub)
  BY <1>1, <1>2, SameShape
<1>4. \A n \in M, d \in Side : t.kid[d][n] # NULL => t.kid[d][n] \in M
  BY <1>1 DEF Shape
<1>5. Balanced(u, M, bh, NULL, "left")
  <2>1. \A n \in M : Own(u, n) = Own(t, n)
    BY DEF Own
  <2> QED BY <1>1, <2>1 DEF Balanced
<1>6. NoRedPair(u, M, NULL)
  BY <1>2, <1>4 DEF NoRedPair, IsRed
<1>7. ~IsRed(u, u.root)
  <2>1. t.root = NULL \/ t.root \in M
    BY <1>1 DEF Shape
  <2> QED BY <1>2, <2>1 DEF IsRed
<1> QED BY <1>3, <1>5, <1>6, <1>7 DEF Sound

\* A node is below itself, before it or after it.
LEMMA SubParts ==
    ASSUME NEW t \in Tree, NEW M, NEW sub, Shape(t, M, sub), NEW n \in M, NEW s \in Side
    PROVE  /\ sub[n] = {n} \cup Half(sub, s, n) \cup Half(sub, Other(s), n)
           /\ n \notin Half(sub, s, n)
<1>0. M \subseteq Node /\ Distinctly(M) /\ \A m \in M : m \in sub[m] /\ sub[m] \subseteq M
  BY DEF Shape
<1>1. \A m \in sub[n] : m = n \/ Before(s, m, n) \/ Before(Other(s), m, n)
  BY <1>0, BeforeFacts
<1>2. ~Before(s, n, n)
  BY <1>0, BeforeFacts
<1> QED BY <1>0, <1>1, <1>2 DEF Half

\* n gives its place to its only child c, or to none.
Cut(t, M, u, n, c) ==
    /\ u \in Tree /\ u.root = IF t.up[n] = NULL THEN c ELSE t.root
    /\ \A d \in Side, m \in M : u.kid[d][m] = IF t.kid[d][m] = n THEN c ELSE t.kid[d][m]
    /\ \A m \in Node : /\ u.up[m] = IF m = c THEN t.up[n] ELSE t.up[m]
                       /\ u.color[m] = IF m = c THEN t.color[n] ELSE t.color[m]

\* What __rb_erase_augmented writes for a node with at most one child.
LEMMA UnlinkIs ==
    ASSUME NEW t \in Tree, NEW M, NEW sub, Shape(t, M, sub), NEW n \in M, NEW c \in Ref
    PROVE  Cut(t, M, Unlink(t, n, c).tree, n, c)
<1> DEFINE p == t.up[n]
           a == ChangeChild(t, n, c, p)
           u == SetParentColor(a, c, p, t.color[n])
<1>0. /\ M \subseteq Node /\ n \in Node /\ n \in Ref /\ n # NULL /\ p \in Ref
      /\ t.color[n] \in Color /\ "left" \in Side /\ "right" \in Side
      /\ \A d \in Side : d = "left" \/ d = "right"
  BY NullOutside, TreeFields DEF Shape, Ref, Side
<1>1. Unlink(t, n, c).tree = u
  BY DEF Unlink
<1>2. p # NULL => p \in M /\ \E d \in Side : t.kid[d][p] = n
  BY UpFacts
<1>3. \A m \in M, d \in Side : t.kid[d][m] = n => m = p
  BY <1>0, KidFacts
<1>4. p # NULL => ~(t.kid["left"][p] = n /\ t.kid["right"][p] = n)
  <2> SUFFICES ASSUME p # NULL, t.kid["left"][p] = n PROVE t.kid["right"][p] # n
    OBVIOUS
  <2>1. t.kid[Other("left")][p] # t.kid["left"][p]
    BY <1>0, <1>2, KidsApart
  <2> QED BY <2>1 DEF Other
<1> HIDE DEF p
<1>5. ChildChanged(t, a, n, c, p)
  BY <1>0, ChangeChildIs
<1> HIDE DEF a
<1>6. /\ a \in Tree /\ a.root = IF p = NULL THEN c ELSE t.root
      /\ \A d \in Side, m \in Node :
            a.kid[d][m] = IF m = p /\ d = (IF t.kid["left"][p] = n THEN "left" ELSE "right")
                          THEN c ELSE t.kid[d][m]
      /\ \A m \in Node : a.up[m] = t.up[m] /\ a.color[m] = t.color[m]
  BY <1>5 DEF ChildChanged
<1>7. \A d \in Side, m \in M : a.kid[d][m] = IF t.kid[d][m] = n THEN c ELSE t.kid[d][m]
  <2> SUFFICES ASSUME NEW d \in Side, NEW m \in M
               PROVE  a.kid[d][m] = IF t.kid[d][m] = n THEN c ELSE t.kid[d][m]
    OBVIOUS
  <2>1. m \in Node /\ m # NULL
    BY <1>0, NullOutside
  <2>2. CASE m = p
    <3>1. p # NULL
      BY <2>1, <2>2
    <3>2. t.kid[d][p] = n <=> d = (IF t.kid["left"][p] = n THEN "left" ELSE "right")
      BY <3>1, <1>0, <1>2, <1>4
    <3> QED BY <3>2, <2>1, <2>2, <1>6
  <2>3. CASE m # p
    BY <2>1, <2>3, <1>3, <1>6
  <2> QED BY <2>2, <2>3
<1>8. Painted(a, u, c, p, t.color[n])
  BY <1>0, <1>6, PaintedIs
<1> HIDE DEF u
<1>9. /\ u \in Tree /\ u.root = a.root
      /\ \A d \in Side, m \in Node : u.kid[d][m] = a.kid[d][m]
      /\ \A m \in Node : /\ u.up[m] = IF m = c THEN p ELSE a.up[m]
                         /\ u.color[m] = IF m = c THEN t.color[n] ELSE a.color[m]
  BY <1>8 DEF Painted
<1>10. \A d \in Side, m \in M : u.kid[d][m] = IF t.kid[d][m] = n THEN c ELSE t.kid[d][m]
  <2>1. \A d \in Side, m \in M : u.kid[d][m] = a.kid[d][m]
    BY <1>0, <1>9
  <2> QED BY <2>1, <1>7
<1>11. \A m \in Node : /\ u.up[m] = IF m = c THEN p ELSE t.up[m]
                       /\ u.color[m] = IF m = c THEN t.color[n] ELSE t.color[m]
  <2>1. \A m \in Node : a.up[m] = t.up[m] /\ a.color[m] = t.color[m]
    BY <1>6
  <2> QED BY <2>1, <1>9
<1>12. u \in Tree /\ u.root = IF p = NULL THEN c ELSE t.root
  BY <1>6, <1>9
<1>13. Cut(t, M, u, n, c)
  BY <1>10, <1>11, <1>12 DEF Cut, p
<1> QED BY <1>1, <1>13

\* n has no child but c, at side e.
OnlyKid(t, n, e, c) == t.kid[e][n] = c /\ t.kid[Other(e)][n] = NULL

\* The neighbours of a node with at most one child.
LEMMA CutFacts ==
    ASSUME NEW t \in Tree, NEW M, NEW sub, Shape(t, M, sub), NEW n \in M, NEW e \in Side,
           NEW c, OnlyKid(t, n, e, c), NEW p, Above(t, n, p)
    PROVE  /\ M \subseteq Node /\ n \in Node /\ n # NULL /\ n \in Ref /\ c \in Ref /\ t.up[n] = p
           /\ p # NULL => p \in M /\ p # n /\ p # c /\ \E d \in Side : t.kid[d][p] = n
           /\ c # NULL => /\ c \in M /\ c \in Node /\ c # n /\ t.up[c] = n /\ c # t.root
                          /\ sub[c] = sub[n] \ {n}
           /\ c = NULL => sub[n] = {n}
           /\ p = NULL <=> n = t.root
           /\ \A d \in Side : t.kid[d][n] = c \/ t.kid[d][n] = NULL
<1>0. /\ M \subseteq Node /\ n \in Node /\ n # NULL /\ n \in Ref /\ t.kid[e][n] = c /\ c \in Ref
      /\ t.kid[Other(e)][n] = NULL /\ t.up[n] = p /\ Other(e) \in Side
      /\ \A d \in Side : d = e \/ d = Other(e)
  BY NullOutside, TreeFields, SideFacts DEF Shape, Ref, OnlyKid, Above
<1>1. sub[n] = {n} \cup Half(sub, e, n) /\ n \notin Half(sub, e, n)
  <2>1. Half(sub, Other(e), n) = {}
    BY <1>0 DEF Shape
  <2> QED BY <2>1, SubParts
<1>2. c # NULL => /\ c \in M /\ c \in Node /\ c # n /\ t.up[c] = n /\ c # t.root
                  /\ sub[c] = sub[n] \ {n}
  <2> SUFFICES ASSUME c # NULL
               PROVE  /\ c \in M /\ c \in Node /\ c # n /\ t.up[c] = n /\ c # t.root
                      /\ sub[c] = sub[n] \ {n}
    OBVIOUS
  <2>1. c \in M /\ c \in Node /\ c # n /\ t.up[c] = n /\ c # t.root /\ sub[c] = Half(sub, e, n)
    BY <1>0, KidFacts
  <2> QED BY <2>1, <1>1
<1>3. c = NULL => sub[n] = {n}
  <2>1. c = NULL => Half(sub, e, n) = {}
    BY <1>0 DEF Shape
  <2> QED BY <2>1, <1>1
<1>4. p = NULL <=> n = t.root
  BY <1>0, UpFacts
<1>5. p # NULL => p \in M /\ p # n /\ p # c /\ \E d \in Side : t.kid[d][p] = n
  <2> SUFFICES ASSUME p # NULL PROVE p \in M /\ p # n /\ p # c /\ \E d \in Side : t.kid[d][p] = n
    OBVIOUS
  <2>1. p \in M /\ \E d \in Side : t.kid[d][p] = n
    BY <1>0, UpFacts
  <2>2. PICK d \in Side : t.kid[d][p] = n
    BY <2>1
  <2>3. p # n /\ n \in sub[p] /\ p \notin sub[n]
    BY <2>1, <2>2, <1>0, KidFacts
  <2>4. p # c
    BY <2>3, <1>2 DEF Shape
  <2> QED BY <2>1, <2>3, <2>4
<1> QED BY <1>0, <1>2, <1>3, <1>4, <1>5

Without(sub, n) == [m \in Node |-> sub[m] \ {n}]

\* Without that node the tree keeps its shape.
LEMMA CutShape ==
    ASSUME NEW t \in Tree, NEW M, NEW sub, Shape(t, M, sub), NEW n \in M, NEW e \in Side,
           NEW c, OnlyKid(t, n, e, c), NEW u, Cut(t, M, u, n, c)
    PROVE  Shape(u, M \ {n}, Without(sub, n))
<1> DEFINE p == t.up[n]
           W == M \ {n}
           S == [m \in Node |-> sub[m] \ {n}]
<1>1. Above(t, n, p)
  BY DEF Above
<1> HIDE DEF p
<1>2. /\ M \subseteq Node /\ n \in Node /\ n # NULL /\ n \in Ref /\ c \in Ref /\ t.up[n] = p
      /\ p # NULL => p \in M /\ p # n /\ p # c /\ \E d \in Side : t.kid[d][p] = n
      /\ c # NULL => /\ c \in M /\ c \in Node /\ c # n /\ t.up[c] = n /\ c # t.root
                     /\ sub[c] = sub[n] \ {n}
      /\ c = NULL => sub[n] = {n}
      /\ p = NULL <=> n = t.root
      /\ \A d \in Side : t.kid[d][n] = c \/ t.kid[d][n] = NULL
  BY <1>1, CutFacts
<1>3. /\ u \in Tree /\ u.root = IF p = NULL THEN c ELSE t.root
      /\ \A d \in Side, m \in M : u.kid[d][m] = IF t.kid[d][m] = n THEN c ELSE t.kid[d][m]
      /\ \A m \in Node : u.up[m] = IF m = c THEN p ELSE t.up[m]
  BY <1>2 DEF Cut
<1>4. /\ t.root \in M /\ sub[t.root] = M /\ t.up[t.root] = NULL /\ Distinctly(M)
      /\ (\A m \in M : m \in sub[m]) /\ (\A m \in Node : sub[m] \subseteq M) /\ NULL \notin M
  BY <1>2, NullOutside DEF Shape
<1>5. S \in [Node -> SUBSET W] /\ \A m \in Node : S[m] = sub[m] \ {n}
  BY <1>4
<1> HIDE DEF S
<1>6. W \subseteq Node /\ Distinctly(W)
  BY <1>2, <1>4 DEF Distinctly
<1>7. W = {} => u.root = NULL
  <2> SUFFICES ASSUME W = {} PROVE u.root = NULL
    OBVIOUS
  <2>1. p = NULL /\ c = NULL
    BY <1>2, <1>4
  <2> QED BY <2>1, <1>3
<1>8. W # {} => u.root \in W /\ S[u.root] = W /\ u.up[u.root] = NULL
  <2> SUFFICES ASSUME W # {} PROVE u.root \in W /\ S[u.root] = W /\ u.up[u.root] = NULL
    OBVIOUS
  <2>1. CASE p = NULL
    <3>1. n = t.root /\ c # NULL
      BY <2>1, <1>2, <1>4
    <3>2. u.root = c /\ c \in W /\ sub[c] = W
      BY <2>1, <3>1, <1>2, <1>3, <1>4
    <3> QED BY <3>1, <3>2, <2>1, <1>2, <1>3, <1>5
  <2>2. CASE p # NULL
    <3>1. u.root = t.root /\ t.root # n /\ t.root # c /\ t.root \in Node
      BY <2>2, <1>2, <1>3, <1>4
    <3> QED BY <3>1, <1>3, <1>4, <1>5
  <2> QED BY <2>1, <2>2
<1>9. \A m \in W : m \in S[m]
  BY <1>4, <1>5, <1>6
<1>10. ASSUME NEW m \in W, NEW d \in Side
       PROVE  /\ u.kid[d][m] = NULL => Half(S, d, m) = {}
              /\ u.kid[d][m] # NULL => /\ u.kid[d][m] \in W /\ u.up[u.kid[d][m]] = m
                                       /\ S[u.kid[d][m]] = Half(S, d, m)
  <2>1. m \in M /\ m \in Node /\ m # n
    BY <1>6
  <2>2. Half(S, d, m) = Half(sub, d, m) \ {n}
    BY <2>1, <1>5 DEF Half
  <2>3. CASE t.kid[d][m] = n
    <3>1. u.kid[d][m] = c /\ p = m /\ sub[n] = Half(sub, d, m)
      BY <2>1, <2>3, <1>2, <1>3, KidFacts
    <3>2. CASE c = NULL
      BY <3>1, <3>2, <2>2, <1>2
    <3>3. CASE c # NULL
      <4>1. c \in W /\ u.up[c] = m /\ S[c] = sub[n] \ {n}
        BY <3>1, <3>3, <1>2, <1>3, <1>5
      <4> QED BY <4>1, <3>1, <3>3, <2>2
    <3> QED BY <3>2, <3>3
  <2>4. CASE t.kid[d][m] # n
    <3>1. u.kid[d][m] = t.kid[d][m]
      BY <2>1, <2>4, <1>3
    <3>2. CASE t.kid[d][m] = NULL
      <4>1. Half(sub, d, m) = {}
        BY <3>2, <2>1 DEF Shape
      <4> QED BY <4>1, <3>1, <3>2, <2>2
    <3>3. CASE t.kid[d][m] # NULL
      <4>1. /\ t.kid[d][m] \in M /\ t.kid[d][m] \in Node /\ t.up[t.kid[d][m]] = m
            /\ sub[t.kid[d][m]] = Half(sub, d, m)
        BY <3>3, <2>1, KidFacts
      <4>2. t.kid[d][m] # c
        BY <4>1, <3>3, <2>1, <1>2
      <4>3. u.up[t.kid[d][m]] = m
        BY <4>1, <4>2, <1>3
      <4>4. S[t.kid[d][m]] = Half(S, d, m)
        BY <4>1, <2>2, <1>5
      <4> QED BY <4>1, <4>3, <4>4, <3>1, <3>3, <2>4
    <3> QED BY <3>2, <3>3
  <2> QED BY <2>3, <2>4
<1>11. \A m \in W : m # u.root => u.up[m] \in W /\ \E d \in Side : u.kid[d][u.up[m]] = m
  <2> SUFFICES ASSUME NEW m \in W, m # u.root
               PROVE  u.up[m] \in W /\ \E d \in Side : u.kid[d][u.up[m]] = m
    OBVIOUS
  <2>1. m \in M /\ m \in Node /\ m # n
    BY <1>6
  <2>2. CASE m = c
    <3>1. p # NULL /\ u.up[m] = p
      BY <2>1, <2>2, <1>3
    <3>2. PICK d \in Side : t.kid[d][p] = n
      BY <3>1, <1>2
    <3>3. u.kid[d][p] = c /\ p \in W
      BY <3>1, <3>2, <1>2, <1>3
    <3> QED BY <3>1, <3>3, <2>2
  <2>3. CASE m # c
    <3>1. u.up[m] = t.up[m] /\ m # t.root
      BY <2>1, <2>3, <1>2, <1>3
    <3>2. t.up[m] \in M /\ \E d \in Side : t.kid[d][t.up[m]] = m
      BY <2>1, <3>1, UpFacts, <1>4
    <3>3. PICK d \in Side : t.kid[d][t.up[m]] = m
      BY <3>2
    <3>4. t.up[m] # n
      BY <3>3, <2>1, <2>3, <1>2, <1>4
    <3>5. u.kid[d][t.up[m]] = m
      BY <3>2, <3>3, <2>1, <1>3
    <3> QED BY <3>1, <3>2, <3>4, <3>5
  <2> QED BY <2>2, <2>3
<1> HIDE DEF W
<1>12. Shape(u, W, S)
  BY <1>5, <1>6, <1>7, <1>8, <1>9, <1>10, <1>11 DEF Shape
<1> QED BY <1>12 DEF W, S, Without

\* A lone child is a red leaf; without it the path through n is short of n itself.
LEMMA CutColors ==
    ASSUME NEW t \in Tree, NEW M, NEW sub, Shape(t, M, sub), NEW n \in M, NEW e \in Side,
           NEW c, OnlyKid(t, n, e, c), NEW u, Cut(t, M, u, n, c),
           NEW bh, Balanced(t, M, bh, NULL, "left"), NoRedPair(t, M, NULL), ~IsRed(t, t.root),
           NEW p, Above(t, n, p)
    PROVE  /\ NoRedPair(u, M \ {n}, NULL) /\ ~IsRed(u, u.root)
           /\ c # NULL => t.color[n] = "black"
           /\ c # NULL \/ t.color[n] = "red" \/ p = NULL
              => \E B : Balanced(u, M \ {n}, B, NULL, "left")
           /\ c = NULL /\ t.color[n] = "black"
              => \A d \in Side : p # NULL /\ t.kid[d][p] = n => Balanced(u, M \ {n}, bh, p, d)
<1> DEFINE W == M \ {n}
<1>1. /\ M \subseteq Node /\ n \in Node /\ n # NULL /\ n \in Ref /\ c \in Ref /\ t.up[n] = p
      /\ p # NULL => p \in M /\ p # n /\ p # c /\ \E d \in Side : t.kid[d][p] = n
      /\ c # NULL => /\ c \in M /\ c \in Node /\ c # n /\ t.up[c] = n /\ c # t.root
                     /\ sub[c] = sub[n] \ {n}
      /\ p = NULL <=> n = t.root
      /\ \A d \in Side : t.kid[d][n] = c \/ t.kid[d][n] = NULL
  BY CutFacts
<1>2. /\ u \in Tree /\ u.root = IF p = NULL THEN c ELSE t.root
      /\ \A d \in Side, m \in M : u.kid[d][m] = IF t.kid[d][m] = n THEN c ELSE t.kid[d][m]
      /\ \A m \in Node : u.color[m] = IF m = c THEN t.color[n] ELSE t.color[m]
  BY <1>1 DEF Cut
<1>3. /\ bh \in [Ref -> Nat] /\ bh[NULL] = 0 /\ NULL \in Ref
      /\ \A m \in M, d \in Side : bh[m] = bh[t.kid[d][m]] + Own(t, m)
  <2>1. bh \in [Ref -> Nat] /\ bh[NULL] = 0 /\ NULL \in Ref
    BY DEF Balanced, Ref
  <2>2. ASSUME NEW m \in M, NEW d \in Side PROVE bh[m] = bh[t.kid[d][m]] + Own(t, m)
    <3>1. m # NULL /\ m \in Ref /\ t.kid[d][m] \in Ref /\ Own(t, m) \in Nat
      BY <1>1, NullOutside, TreeFields DEF Ref, Own
    <3>2. bh[m] = bh[t.kid[d][m]] + Own(t, m) + 0
      BY <3>1 DEF Balanced
    <3> QED BY <3>1, <3>2, <2>1
  <2> QED BY <2>1, <2>2
<1>4. \A m \in Node : t.color[m] = "red" \/ t.color[m] = "black"
  BY TreeFields DEF Color
<1>5. bh[n] = Own(t, n)
  <2>1. Other(e) \in Side /\ t.kid[Other(e)][n] = NULL
    BY SideFacts DEF OnlyKid
  <2>2. bh[n] = 0 + Own(t, n)
    BY <2>1, <1>3
  <2> QED BY <2>2 DEF Own
<1>6. c # NULL => /\ t.color[c] = "red" /\ t.color[n] = "black"
                  /\ \A d \in Side : bh[t.kid[d][c]] = 0
  <2> SUFFICES ASSUME c # NULL
               PROVE  t.color[c] = "red" /\ t.color[n] = "black" /\ \A d \in Side : bh[t.kid[d][c]] = 0
    OBVIOUS
  <2>1. t.kid[e][n] = c
    BY DEF OnlyKid
  <2>2. bh[n] = bh[c] + Own(t, n) /\ bh[c] \in Nat /\ Own(t, n) \in Nat
    BY <2>1, <1>1, <1>3 DEF Own
  <2>3. bh[c] = 0
    BY <2>2, <1>5
  <2>4. \A d \in Side : 0 = bh[t.kid[d][c]] + Own(t, c) /\ bh[t.kid[d][c]] \in Nat
    BY <2>3, <1>1, <1>3, TreeFields
  <2>5. Own(t, c) \in Nat
    BY DEF Own
  <2>6. (\A d \in Side : bh[t.kid[d][c]] = 0) /\ Own(t, c) = 0
    BY <2>4, <2>5
  <2>7. t.color[c] = "red"
    BY <2>6 DEF Own
  <2>8. t.color[n] # "red"
    BY <2>1, <2>7, <1>1 DEF NoRedPair, IsRed
  <2> QED BY <2>6, <2>7, <2>8, <1>1, <1>4
<1>7. \A m \in W : m \in M /\ m \in Node /\ m # n /\ m # NULL
  BY <1>1, NullOutside
<1>8. NoRedPair(u, W, NULL)
  <2> SUFFICES ASSUME NEW m \in W, NEW d \in Side, u.color[m] = "red", IsRed(u, u.kid[d][m])
               PROVE  FALSE
    BY DEF NoRedPair
  <2>1. m # c /\ t.color[m] = "red"
    BY <1>2, <1>6, <1>7
  <2>2. u.kid[d][m] # NULL /\ u.kid[d][m] # c /\ u.kid[d][m] \in Node
    BY <1>2, <1>6, <1>7, TreeFields DEF IsRed, Ref
  <2>3. u.kid[d][m] = t.kid[d][m]
    BY <2>2, <1>2, <1>7
  <2>4. IsRed(t, t.kid[d][m])
    BY <2>2, <2>3, <1>2 DEF IsRed
  <2> QED BY <2>1, <2>2, <2>3, <2>4, <1>7 DEF NoRedPair
<1>9. ~IsRed(u, u.root)
  <2>1. CASE p = NULL
    BY <2>1, <1>1, <1>2, <1>6 DEF IsRed
  <2>2. CASE p # NULL
    <3>1. t.root # c \/ t.root = NULL
      BY <1>1
    <3>2. t.root \in Ref
      BY TreeFields
    <3> QED BY <3>1, <3>2, <2>2, <1>2 DEF IsRed, Ref
  <2> QED BY <2>1, <2>2
<1>10. ASSUME NEW B, B \in [Ref -> Nat], B[NULL] = 0, NEW q, NEW d0,
              \A m \in Ref : B[m] = IF c # NULL /\ m = c THEN bh[n] ELSE bh[m],
              \/ c # NULL /\ q = NULL
              \/ c = NULL /\ t.color[n] = "red" /\ q = NULL
              \/ c = NULL /\ p = NULL /\ q = NULL
              \/ c = NULL /\ t.color[n] = "black" /\ p # NULL /\ q = p /\ d0 \in Side /\ t.kid[d0][p] = n
       PROVE  Balanced(u, W, B, q, d0)
  <2>1. ASSUME NEW m \in W, NEW d \in Side
        PROVE  B[m] = B[u.kid[d][m]] + Own(u, m) + (IF m = q /\ d = d0 THEN 1 ELSE 0)
    <3>1. /\ m \in M /\ m \in Node /\ m # n /\ m # NULL /\ m \in Ref
          /\ t.kid[d][m] \in Ref /\ bh[m] = bh[t.kid[d][m]] + Own(t, m)
          /\ bh[m] \in Nat /\ bh[t.kid[d][m]] \in Nat /\ Own(t, m) \in Nat
      BY <1>3, <1>7, TreeFields DEF Ref, Own
    <3>2. t.kid[d][m] = n => p = m
      BY <3>1, <1>1, KidFacts
    <3>3. CASE c # NULL /\ m = c
      <4>1. t.kid[d][m] # n
        BY <3>2, <3>3, <1>1
      <4>2. u.kid[d][m] = t.kid[d][m] /\ t.kid[d][m] # c
        BY <3>1, <3>3, <4>1, <1>2, KidFacts
      <4>3. B[m] = 1 /\ B[u.kid[d][m]] = 0
        BY <4>2, <3>1, <3>3, <1>5, <1>6, <1>10 DEF Own
      <4>4. Own(u, m) = 1
        BY <3>1, <3>3, <1>2, <1>6 DEF Own
      <4> QED BY <4>3, <4>4, <3>1, <3>3, <1>10
    <3>4. CASE ~(c # NULL /\ m = c)
      <4>1. B[m] = bh[m] /\ Own(u, m) = Own(t, m)
        BY <3>1, <3>4, <1>2, <1>10 DEF Own
      <4>2. CASE t.kid[d][m] # n
        <5>1. u.kid[d][m] = t.kid[d][m]
          BY <4>2, <3>1, <1>2
        <5>2. t.kid[d][m] # c \/ c = NULL
          BY <3>1, <1>1, KidFacts
        <5>3. B[u.kid[d][m]] = bh[t.kid[d][m]]
          BY <5>1, <5>2, <3>1, <1>10
        <5>4. ~(m = q /\ d = d0)
          BY <4>2, <3>1, <1>10
        <5> QED BY <5>3, <5>4, <4>1, <3>1
      <4>3. CASE t.kid[d][m] = n
        <5>1. u.kid[d][m] = c /\ bh[m] = bh[n] + Own(t, m) /\ p = m
          BY <4>3, <3>1, <3>2, <1>2
        <5>2. CASE c # NULL
          <6>1. B[c] = bh[n] /\ ~(m = q /\ d = d0)
            BY <5>2, <3>1, <1>1, <1>10
          <6> QED BY <6>1, <5>1, <4>1, <3>1, <4>3
        <5>3. CASE c = NULL /\ t.color[n] = "red"
          <6>1. B[c] = 0 /\ bh[n] = 0 /\ ~(m = q /\ d = d0)
            BY <5>3, <3>1, <1>5, <1>10 DEF Own
          <6> QED BY <6>1, <5>1, <4>1, <3>1, <4>3
        <5>4. CASE c = NULL /\ t.color[n] # "red"
          <6>1. B[c] = 0 /\ bh[n] = 1
            BY <5>4, <1>5, <1>10 DEF Own
          <6>2. m = q /\ d0 \in Side /\ t.kid[d0][m] = n
            BY <5>1, <5>4, <3>1, <1>10
          <6>3. d = d0
            BY <6>2, <4>3, <3>1, <1>1, KidsApart, SideFacts
          <6> QED BY <6>1, <6>2, <6>3, <5>1, <4>1, <3>1
        <5> QED BY <5>2, <5>3, <5>4
      <4> QED BY <4>2, <4>3
    <3> QED BY <3>3, <3>4
  <2> QED BY <2>1, <1>10 DEF Balanced
<1>11. c # NULL \/ t.color[n] = "red" \/ p = NULL => \E B : Balanced(u, W, B, NULL, "left")
  <2> SUFFICES ASSUME c # NULL \/ t.color[n] = "red" \/ p = NULL
               PROVE  \E B : Balanced(u, W, B, NULL, "left")
    OBVIOUS
  <2> DEFINE B == [m \in Ref |-> IF c # NULL /\ m = c THEN bh[n] ELSE bh[m]]
  <2>1. B \in [Ref -> Nat] /\ B[NULL] = 0
    BY <1>1, <1>3
  <2>2. \A m \in Ref : B[m] = IF c # NULL /\ m = c THEN bh[n] ELSE bh[m]
    OBVIOUS
  <2> HIDE DEF B
  <2> QED BY <2>1, <2>2, <1>10
<1>12. c = NULL /\ t.color[n] = "black"
       => \A d \in Side : p # NULL /\ t.kid[d][p] = n => Balanced(u, W, bh, p, d)
  BY <1>3, <1>10
<1> QED BY <1>6, <1>8, <1>9, <1>11, <1>12

\* b takes over the place of a.
Put(X, a, b) == (X \ {a}) \cup (IF a \in X THEN {b} ELSE {})

Renamed(t, M, u, a, b) ==
    /\ u \in Tree /\ u.root = IF t.root = a THEN b ELSE t.root
    /\ \A d \in Side, m \in M \ {a} : u.kid[d][m] = IF t.kid[d][m] = a THEN b ELSE t.kid[d][m]
    /\ \A d \in Side : u.kid[d][b] = t.kid[d][a]
    /\ \A m \in M \ {a} : /\ u.up[m] = IF t.up[m] = a THEN b ELSE t.up[m]
                          /\ u.color[m] = t.color[m]
    /\ u.up[b] = t.up[a] /\ u.color[b] = t.color[a]

Relabeled(sub, a, b) ==
    [m \in Node |-> IF m = b THEN Put(sub[a], a, b) ELSE Put(sub[m], a, b)]

\* A node outside can take the place of a node with the same neighbours by key.
LEMMA RenameShape ==
    ASSUME NEW t \in Tree, NEW M, NEW sub, Shape(t, M, sub), NEW a \in M, NEW b \in Node, b \notin M,
           NEW u, Renamed(t, M, u, a, b),
           \A d \in Side, m \in M : m # a => (Before(d, b, m) <=> Before(d, a, m))
    PROVE  Shape(u, Put(M, a, b), Relabeled(sub, a, b))
<1> DEFINE W == Put(M, a, b)
           S == [m \in Node |-> IF m = b THEN Put(sub[a], a, b) ELSE Put(sub[m], a, b)]
<1>0. /\ M \subseteq Node /\ t.root \in M /\ sub[t.root] = M /\ t.up[t.root] = NULL /\ Distinctly(M)
      /\ (\A m \in M : m \in sub[m]) /\ (\A m \in Node : sub[m] \subseteq M) /\ NULL \notin M
      /\ a \in Node /\ a # NULL /\ b # NULL /\ a # b
  BY NullOutside DEF Shape
<1>1. \A k : k \in W <=> k = b \/ (k \in M /\ k # a)
  BY <1>0 DEF Put
<1>2. \A m \in Node : \A k : m # b => (k \in S[m] <=> (k = b /\ a \in sub[m]) \/ (k \in sub[m] /\ k # a))
  BY DEF Put
<1>3. \A k : k \in S[b] <=> k = b \/ (k \in sub[a] /\ k # a)
  BY <1>0 DEF Put
<1>4. S \in [Node -> SUBSET W]
  <2>1. \A m \in Node : S[m] \subseteq W
    BY <1>0, <1>1, <1>2, <1>3
  <2> QED BY <2>1
<1> HIDE DEF S, W
<1>5. Key(b) \in Int /\ \A m \in M : Key(m) \in Int
  BY <1>0, KeyInt
<1>6. \A m \in M : m # a => Key(b) # Key(m)
  <2> SUFFICES ASSUME NEW m \in M, m # a, Key(b) = Key(m) PROVE FALSE
    OBVIOUS
  <2>1. Key(a) # Key(m)
    BY <1>0 DEF Distinctly
  <2>2. "left" \in Side /\ "right" \in Side
    BY DEF Side
  <2>3. ~Before("left", b, m) /\ ~Before("right", b, m)
    BY <1>5 DEF Before
  <2>4. ~Before("left", a, m) /\ ~Before("right", a, m)
    BY <2>2, <2>3
  <2> QED BY <2>1, <2>4, <1>5 DEF Before
<1>7. \A d \in Side, m \in M : m # a => (Before(d, m, b) <=> Before(d, m, a))
  <2> SUFFICES ASSUME NEW d \in Side, NEW m \in M, m # a
               PROVE  Before(d, m, b) <=> Before(d, m, a)
    OBVIOUS
  <2>1. Before(Other(d), b, m) <=> Before(Other(d), a, m)
    BY SideFacts
  <2>2. (Before(Other(d), b, m) <=> Before(d, m, b)) /\ (Before(Other(d), a, m) <=> Before(d, m, a))
    BY <1>5 DEF Before, Other, Side
  <2> QED BY <2>1, <2>2
<1>8. W \subseteq Node /\ Distinctly(W) /\ W # {}
  BY <1>0, <1>1, <1>6 DEF Distinctly
<1>9. /\ u \in Tree /\ u.root = IF t.root = a THEN b ELSE t.root
      /\ \A d \in Side, m \in M : m # a =>
            u.kid[d][m] = IF t.kid[d][m] = a THEN b ELSE t.kid[d][m]
      /\ \A d \in Side : u.kid[d][b] = t.kid[d][a]
      /\ \A m \in M : m # a => u.up[m] = IF t.up[m] = a THEN b ELSE t.up[m]
      /\ u.up[b] = t.up[a]
  BY DEF Renamed
<1>10. u.root \in W /\ S[u.root] = W /\ u.up[u.root] = NULL
  <2>1. CASE t.root = a
    <3>1. S[b] = W
      BY <2>1, <1>0, <1>1, <1>3
    <3> QED BY <3>1, <2>1, <1>0, <1>1, <1>9
  <2>2. CASE t.root # a
    <3>1. S[t.root] = W
      <4>1. t.root \in Node /\ t.root # b /\ a \in sub[t.root]
        BY <1>0
      <4>2. \A k : k \in S[t.root] <=> k \in W
        BY <4>1, <1>0, <1>1, <1>2
      <4> QED BY <4>1, <4>2, <1>4
    <3> QED BY <3>1, <2>2, <1>0, <1>1, <1>9
  <2> QED BY <2>1, <2>2
<1>11. \A m \in W : m \in S[m]
  BY <1>0, <1>1, <1>2, <1>3
<1>12. ASSUME NEW m \in W, NEW d \in Side
       PROVE  /\ u.kid[d][m] = NULL => Half(S, d, m) = {}
              /\ u.kid[d][m] # NULL => /\ u.kid[d][m] \in W /\ u.up[u.kid[d][m]] = m
                                       /\ S[u.kid[d][m]] = Half(S, d, m)
  <2>1. CASE m = b
    <3> DEFINE k == t.kid[d][a]
    <3>1. u.kid[d][m] = k
      BY <2>1, <1>9
    <3>2. Half(S, d, m) = Half(sub, d, a)
      <4>1. \A x \in sub[a] : x # a => (Before(d, x, b) <=> Before(d, x, a))
        BY <1>0, <1>7
      <4>2. ~Before(d, b, b) /\ ~Before(d, a, a)
        BY <1>0, <1>5 DEF Before
      <4> QED BY <4>1, <4>2, <2>1, <1>3 DEF Half
    <3>3. CASE k = NULL
      <4>1. Half(sub, d, a) = {}
        BY <3>3 DEF Shape
      <4> QED BY <4>1, <3>1, <3>2, <3>3
    <3>4. CASE k # NULL
      <4>1. k \in M /\ k # a /\ t.up[k] = a /\ sub[k] = Half(sub, d, a) /\ a \notin sub[k]
        BY <3>4, KidFacts
      <4> HIDE DEF k
      <4>2. k \in W /\ u.up[k] = m /\ k \in Node /\ k # b
        BY <4>1, <2>1, <1>0, <1>1, <1>9
      <4>3. S[k] = sub[k]
        <5>1. \A x : x \in S[k] <=> x \in sub[k]
          BY <4>1, <4>2, <1>2
        <5> QED BY <5>1, <4>2, <1>4
      <4> QED BY <4>1, <4>2, <4>3, <3>1, <3>2, <3>4
    <3> QED BY <3>3, <3>4
  <2>2. CASE m # b
    <3> DEFINE k == t.kid[d][m]
    <3>1. m \in M /\ m # a /\ m \in Node /\ u.kid[d][m] = IF k = a THEN b ELSE k
      BY <2>2, <1>0, <1>1, <1>9
    <3>2. \A x : x \in Half(S, d, m)
                 <=> (x = b /\ a \in Half(sub, d, m)) \/ (x \in Half(sub, d, m) /\ x # a)
      <4>1. Before(d, b, m) <=> Before(d, a, m)
        BY <3>1
      <4>2. \A x : x \in S[m] <=> (x = b /\ a \in sub[m]) \/ (x \in sub[m] /\ x # a)
        BY <2>2, <3>1, <1>2
      <4> QED BY <4>1, <4>2 DEF Half
    <3>3. CASE k = NULL
      <4>1. Half(sub, d, m) = {}
        BY <3>1, <3>3 DEF Shape
      <4>2. Half(S, d, m) = {}
        BY <4>1, <3>2
      <4> QED BY <4>2, <3>1, <3>3, <1>0
    <3>4. CASE k # NULL
      <4>1. k \in M /\ k \in Node /\ t.up[k] = m /\ sub[k] = Half(sub, d, m)
        BY <3>1, <3>4, KidFacts
      <4> HIDE DEF k
      <4>2. CASE k = a
        <5>1. \A x : x \in S[b] <=> x \in Half(S, d, m)
          BY <4>1, <4>2, <3>2, <1>0, <1>3
        <5>2. S[b] = Half(S, d, m)
          BY <5>1, <1>4 DEF Half
        <5> QED BY <5>2, <4>1, <4>2, <3>1, <1>0, <1>1, <1>9
      <4>3. CASE k # a
        <5>1. k # b
          BY <4>1
        <5>2. \A x : x \in S[k] <=> x \in Half(S, d, m)
          BY <5>1, <4>1, <3>2, <1>2
        <5>3. S[k] = Half(S, d, m)
          BY <5>2, <4>1, <1>4 DEF Half
        <5>4. u.up[k] = m /\ k \in W /\ u.kid[d][m] = k
          BY <4>1, <4>3, <3>1, <1>1, <1>9
        <5> QED BY <5>3, <5>4, <3>4
      <4> QED BY <4>2, <4>3
    <3> QED BY <3>3, <3>4
  <2> QED BY <2>1, <2>2
<1>13. \A m \in W : m # u.root => u.up[m] \in W /\ \E d \in Side : u.kid[d][u.up[m]] = m
  <2> SUFFICES ASSUME NEW m \in W, m # u.root
               PROVE  u.up[m] \in W /\ \E d \in Side : u.kid[d][u.up[m]] = m
    OBVIOUS
  <2>1. CASE m = b
    <3>1. a # t.root
      BY <2>1, <1>9
    <3>2. t.up[a] \in M /\ \E d \in Side : t.kid[d][t.up[a]] = a
      BY <3>1, <1>0, UpFacts
    <3>3. PICK d \in Side : t.kid[d][t.up[a]] = a
      BY <3>2
    <3>4. t.up[a] # a
      BY <3>2, <3>3, <1>0, KidFacts
    <3>5. u.kid[d][t.up[a]] = b
      BY <3>2, <3>3, <3>4, <1>9
    <3> QED BY <3>2, <3>4, <3>5, <2>1, <1>1, <1>9
  <2>2. CASE m # b
    <3>1. m \in M /\ m # a /\ m # t.root
      BY <2>2, <1>0, <1>1, <1>9
    <3>2. t.up[m] \in M /\ \E d \in Side : t.kid[d][t.up[m]] = m
      BY <3>1, <1>0, UpFacts
    <3>3. PICK d \in Side : t.kid[d][t.up[m]] = m
      BY <3>2
    <3>4. CASE t.up[m] = a
      BY <3>1, <3>3, <3>4, <1>1, <1>9
    <3>5. CASE t.up[m] # a
      <4>1. u.kid[d][t.up[m]] = m
        BY <3>1, <3>2, <3>3, <3>5, <1>9
      <4> QED BY <4>1, <3>1, <3>2, <3>5, <1>1, <1>9
    <3> QED BY <3>4, <3>5
  <2> QED BY <2>1, <2>2
<1>14. Shape(u, W, S)
  BY <1>4, <1>8, <1>9, <1>10, <1>11, <1>12, <1>13 DEF Shape
<1> QED BY <1>14 DEF W, S, Relabeled

\* And it takes over its color, too.
LEMMA RenameColors ==
    ASSUME NEW t \in Tree, NEW M, NEW sub, Shape(t, M, sub), NEW a \in M, NEW b \in Node, b \notin M,
           NEW u, Renamed(t, M, u, a, b), NoRedPair(t, M, NULL), ~IsRed(t, t.root),
           NEW bh, NEW p, NEW e, p # b, Balanced(t, M, bh, p, e)
    PROVE  /\ Balanced(u, Put(M, a, b), [bh EXCEPT ![b] = bh[a]], IF p = a THEN b ELSE p, e)
           /\ NoRedPair(u, Put(M, a, b), NULL) /\ ~IsRed(u, u.root)
<1> DEFINE W == Put(M, a, b)
           B == [bh EXCEPT ![b] = bh[a]]
           q == IF p = a THEN b ELSE p
<1>0. /\ M \subseteq Node /\ NULL \notin M /\ a \in Node /\ a # NULL /\ b # NULL /\ a # b
      /\ a \in Ref /\ b \in Ref /\ NULL \in Ref /\ t.root \in M
  BY NullOutside DEF Shape, Ref
<1>1. \A k : k \in W <=> k = b \/ (k \in M /\ k # a)
  BY DEF Put
<1>2. bh \in [Ref -> Nat] /\ bh[NULL] = 0
  BY DEF Balanced
<1>3. B \in [Ref -> Nat] /\ \A m \in Ref : B[m] = IF m = b THEN bh[a] ELSE bh[m]
  BY <1>0, <1>2
<1> HIDE DEF W, B
<1>4. /\ u \in Tree /\ u.root = IF t.root = a THEN b ELSE t.root
      /\ \A d \in Side, m \in M : m # a =>
            u.kid[d][m] = IF t.kid[d][m] = a THEN b ELSE t.kid[d][m]
      /\ \A d \in Side : u.kid[d][b] = t.kid[d][a]
      /\ \A m \in M : m # a => u.color[m] = t.color[m]
      /\ u.color[b] = t.color[a]
  BY DEF Renamed
<1>5. \A d \in Side, m \in M : /\ t.kid[d][m] \in Ref /\ t.kid[d][m] # b
                               /\ t.kid[d][m] # NULL => t.kid[d][m] \in M
                               /\ t.kid[d][a] # a
  BY <1>0, TreeFields, KidFacts
<1>6. ASSUME NEW m \in W, NEW d \in Side
      PROVE  B[m] = B[u.kid[d][m]] + Own(u, m) + (IF m = q /\ d = e THEN 1 ELSE 0)
  <2>1. CASE m = b
    <3>1. bh[a] = bh[t.kid[d][a]] + Own(t, a) + (IF a = p /\ d = e THEN 1 ELSE 0)
      BY DEF Balanced
    <3>2. B[m] = bh[a] /\ B[u.kid[d][m]] = bh[t.kid[d][a]] /\ Own(u, m) = Own(t, a)
      BY <2>1, <1>0, <1>3, <1>4, <1>5 DEF Own
    <3>3. m = q <=> a = p
      BY <2>1, <1>0
    <3> QED BY <3>1, <3>2, <3>3
  <2>2. CASE m # b
    <3>1. m \in M /\ m # a /\ m \in Ref
      BY <2>2, <1>0, <1>1 DEF Ref
    <3>2. bh[m] = bh[t.kid[d][m]] + Own(t, m) + (IF m = p /\ d = e THEN 1 ELSE 0)
      BY <3>1 DEF Balanced
    <3>3. B[m] = bh[m] /\ Own(u, m) = Own(t, m)
      BY <2>2, <3>1, <1>3, <1>4 DEF Own
    <3>4. B[u.kid[d][m]] = bh[t.kid[d][m]]
      BY <3>1, <1>0, <1>3, <1>4, <1>5
    <3>5. m = q <=> m = p
      BY <2>2, <3>1
    <3> QED BY <3>2, <3>3, <3>4, <3>5
  <2> QED BY <2>1, <2>2
<1>7. Balanced(u, W, B, q, e)
  <2>1. B[NULL] = 0
    BY <1>0, <1>2, <1>3
  <2> QED BY <2>1, <1>3, <1>6 DEF Balanced
<1>8. NoRedPair(u, W, NULL)
  <2> SUFFICES ASSUME NEW m \in W, NEW d \in Side, u.color[m] = "red", IsRed(u, u.kid[d][m])
               PROVE  FALSE
    BY DEF NoRedPair
  <2> DEFINE x == IF m = b THEN a ELSE m
  <2>1. x \in M /\ t.color[x] = "red"
    BY <1>1, <1>4
  <2>2. u.kid[d][m] = IF t.kid[d][x] = a THEN b ELSE t.kid[d][x]
    BY <1>1, <1>4, <1>5
  <2> HIDE DEF x
  <2>3. IsRed(t, t.kid[d][x])
    <3>1. CASE t.kid[d][x] = a
      BY <3>1, <2>2, <1>0, <1>4 DEF IsRed
    <3>2. CASE t.kid[d][x] # a
      <4>1. t.kid[d][x] # NULL
        BY <3>2, <2>2 DEF IsRed
      <4>2. t.kid[d][x] \in M
        BY <4>1, <2>1, <1>5
      <4> QED BY <4>1, <4>2, <3>2, <2>2, <1>4 DEF IsRed
    <3> QED BY <3>1, <3>2
  <2> QED BY <2>1, <2>3 DEF NoRedPair, IsRed
<1>9. ~IsRed(u, u.root)
  BY <1>0, <1>4 DEF IsRed
<1> QED BY <1>7, <1>8, <1>9 DEF W, B

\* The two setters, field by field.
ParentSet(t, u, n, p) ==
    /\ u \in Tree /\ u.root = t.root
    /\ \A d \in Side, m \in Node : u.kid[d][m] = t.kid[d][m]
    /\ \A m \in Node : /\ u.up[m] = IF m = n THEN p ELSE t.up[m]
                       /\ u.color[m] = t.color[m]

\* rb_set_parent under a name.
LEMMA ParentSetIs ==
    ASSUME NEW t \in Tree, NEW n \in Ref, NEW p \in Ref
    PROVE  ParentSet(t, SetParent(t, n, p), n, p)
<1> DEFINE u == SetParent(t, n, p)
<1>1. /\ u \in Tree /\ u.root = t.root /\ u.kid = t.kid /\ u.color = t.color
      /\ \A m \in Node : u.up[m] = IF m = n THEN p ELSE t.up[m]
  BY SetParentIs
<1> HIDE DEF u
<1>2. ParentSet(t, u, n, p)
  BY <1>1 DEF ParentSet
<1> QED BY <1>2 DEF u

KidSet(t, u, s, n, c) ==
    /\ u \in Tree /\ u.root = t.root
    /\ \A d \in Side, m \in Node : u.kid[d][m] = IF d = s /\ m = n THEN c ELSE t.kid[d][m]
    /\ \A m \in Node : u.up[m] = t.up[m] /\ u.color[m] = t.color[m]

\* One child of one node, under a name.
LEMMA KidSetIs ==
    ASSUME NEW t \in Tree, NEW s \in Side, NEW n \in Node, NEW c \in Ref
    PROVE  KidSet(t, [t EXCEPT !.kid[s][n] = c], s, n, c)
<1> DEFINE u == [t EXCEPT !.kid[s][n] = c]
<1>1. /\ u \in Tree /\ u.root = t.root /\ u.up = t.up /\ u.color = t.color
      /\ \A d \in Side, m \in Node :
            u.kid[d][m] = IF d = s /\ m = n THEN c ELSE t.kid[d][m]
  BY SetKidIs
<1> HIDE DEF u
<1>2. KidSet(t, u, s, n, c)
  BY <1>1 DEF KidSet
<1> QED BY <1>2 DEF u

\* What Replace computes from the nodes that it reads.
Graft(t, n, child, succ, left, p, c, q) ==
    LET deep == succ # child
        t1 == IF deep
              THEN SetParent([t EXCEPT !.kid["left"][p] = c, !.kid["right"][succ] = child], child, succ)
              ELSE t
        t2 == SetParent([t1 EXCEPT !.kid["left"][succ] = left], left, succ)
        t3 == ChangeChild(t2, n, succ, q)
        t4 == SetParentColor(t3, succ, q, t.color[n])
    IN  [tree |-> SetParentColor(t4, c, p, "black"),
         rebalance |-> IF c = NULL /\ ~IsRed(t, succ) THEN p ELSE NULL]

SuccOf(t, child, succ) == succ = Extreme(t, child, "left")
GapOf(t, succ, child, p) == p = IF succ # child THEN t.up[succ] ELSE succ

\* Replace, with its nodes as parameters.
LEMMA ReplaceGraft ==
    ASSUME NEW t, NEW n, NEW child, Kid(t, "right", n, child), NEW succ, SuccOf(t, child, succ),
           NEW left, Kid(t, "left", n, left), NEW c, Kid(t, "right", succ, c),
           NEW p, GapOf(t, succ, child, p), NEW q, Above(t, n, q)
    PROVE  Replace(t, n) = Graft(t, n, child, succ, left, p, c, q)
<1> DEFINE child0 == t.kid["right"][n]
           succ0 == Extreme(t, child0, "left")
           p0 == IF succ0 # child0 THEN t.up[succ0] ELSE succ0
<1>1. Replace(t, n) = Graft(t, n, child0, succ0, t.kid["left"][n], p0, t.kid["right"][succ0], t.up[n])
  BY DEF Replace, Graft
<1>2. child0 = child
  BY DEF Kid
<1>3. succ0 = succ
  BY <1>2 DEF SuccOf
<1> HIDE DEF succ0, child0
<1>4. p0 = p
  BY <1>2, <1>3 DEF GapOf
<1> HIDE DEF p0
<1>5. t.kid["left"][n] = left /\ t.kid["right"][succ0] = c /\ t.up[n] = q
  BY <1>3 DEF Kid, Above
<1> QED BY <1>1, <1>2, <1>3, <1>4, <1>5, Zenon

Grafted(t, u, n, succ, child, left, p, c, q) ==
    /\ u \in Tree /\ u.root = IF q = NULL THEN succ ELSE t.root
    /\ \A d \in Side, m \in Node :
          u.kid[d][m] = IF m = q /\ d = (IF t.kid["left"][q] = n THEN "left" ELSE "right") THEN succ
                        ELSE IF m = succ /\ d = "left" THEN left
                        ELSE IF m = succ /\ d = "right" /\ succ # child THEN child
                        ELSE IF m = p /\ d = "left" /\ succ # child THEN c
                        ELSE t.kid[d][m]
    /\ \A m \in Node :
          /\ u.up[m] = IF m = c THEN p ELSE IF m = succ THEN q
                       ELSE IF m = left \/ (m = child /\ succ # child) THEN succ ELSE t.up[m]
          /\ u.color[m] = IF m = c THEN "black" ELSE IF m = succ THEN t.color[n] ELSE t.color[m]

\* And field by field.
LEMMA GraftIs ==
    ASSUME NEW t \in Tree, NEW n \in Node, NEW child \in Node, NEW succ \in Node,
           NEW left \in Ref, NEW c \in Ref, NEW p \in Node, NEW q \in Ref, q # succ, q # p
    PROVE  Grafted(t, Graft(t, n, child, succ, left, p, c, q).tree, n, succ, child, left, p, c, q)
<1> DEFINE deep == succ # child
           a0 == [t EXCEPT !.kid["left"][p] = c]
           a1 == [a0 EXCEPT !.kid["right"][succ] = child]
           v == SetParent(a1, child, succ)
           t1 == IF deep THEN v ELSE t
           a2 == [t1 EXCEPT !.kid["left"][succ] = left]
           t2 == SetParent(a2, left, succ)
           t3 == ChangeChild(t2, n, succ, q)
           t4 == SetParentColor(t3, succ, q, t.color[n])
           u == SetParentColor(t4, c, p, "black")
<1>0. /\ n \in Ref /\ child \in Ref /\ succ \in Ref /\ p \in Ref
      /\ "left" \in Side /\ "right" \in Side /\ t.color[n] \in Color /\ "black" \in Color
      /\ \A d \in Side : d = "left" \/ d = "right"
  BY TreeFields DEF Ref, Side, Color
<1>1. Graft(t, n, child, succ, left, p, c, q).tree = u
  BY DEF Graft
<1> HIDE DEF u
<1>2. KidSet(t, a0, "left", p, c)
  BY <1>0, KidSetIs
<1> HIDE DEF a0
<1>3. KidSet(a0, a1, "right", succ, child)
  <2>1. a0 \in Tree
    BY <1>2 DEF KidSet
  <2> QED BY <2>1, <1>0, KidSetIs
<1> HIDE DEF a1
<1>4. ParentSet(a1, v, child, succ)
  <2>1. a1 \in Tree
    BY <1>3 DEF KidSet
  <2> QED BY <2>1, <1>0, ParentSetIs
<1> HIDE DEF v
<1>5. t1 \in Tree /\ t1.root = t.root
  <2>1. v \in Tree /\ v.root = a1.root
    BY <1>4 DEF ParentSet
  <2>2. a1.root = a0.root
    BY <1>3 DEF KidSet
  <2>3. a0.root = t.root
    BY <1>2 DEF KidSet
  <2> QED BY <2>1, <2>2, <2>3
<1>6. ASSUME NEW d \in Side, NEW m \in Node
      PROVE  t1.kid[d][m] = IF m = succ /\ d = "right" /\ deep THEN child
                            ELSE IF m = p /\ d = "left" /\ deep THEN c ELSE t.kid[d][m]
  <2>1. v.kid[d][m] = a1.kid[d][m]
    BY <1>4 DEF ParentSet
  <2>2. a1.kid[d][m] = IF d = "right" /\ m = succ THEN child ELSE a0.kid[d][m]
    BY <1>3 DEF KidSet
  <2>3. a0.kid[d][m] = IF d = "left" /\ m = p THEN c ELSE t.kid[d][m]
    BY <1>2 DEF KidSet
  <2> QED BY <2>1, <2>2, <2>3
<1>7. ASSUME NEW m \in Node
      PROVE  /\ t1.up[m] = IF m = child /\ deep THEN succ ELSE t.up[m]
             /\ t1.color[m] = t.color[m]
  <2>1. v.up[m] = (IF m = child THEN succ ELSE a1.up[m]) /\ v.color[m] = a1.color[m]
    BY <1>4 DEF ParentSet
  <2>2. a1.up[m] = a0.up[m] /\ a1.color[m] = a0.color[m]
    BY <1>3 DEF KidSet
  <2>3. a0.up[m] = t.up[m] /\ a0.color[m] = t.color[m]
    BY <1>2 DEF KidSet
  <2> QED BY <2>1, <2>2, <2>3
<1> HIDE DEF t1, deep
<1>8. KidSet(t1, a2, "left", succ, left)
  BY <1>0, <1>5, KidSetIs
<1> HIDE DEF a2
<1>9. ParentSet(a2, t2, left, succ)
  <2>1. a2 \in Tree
    BY <1>8 DEF KidSet
  <2> QED BY <2>1, <1>0, ParentSetIs
<1> HIDE DEF t2
<1>10. t2 \in Tree /\ t2.root = t.root
  <2>1. t2 \in Tree /\ t2.root = a2.root
    BY <1>9 DEF ParentSet
  <2>2. a2.root = t1.root
    BY <1>8 DEF KidSet
  <2> QED BY <2>1, <2>2, <1>5
<1>11. ASSUME NEW d \in Side, NEW m \in Node
       PROVE  t2.kid[d][m] = IF m = succ /\ d = "left" THEN left
                             ELSE IF m = succ /\ d = "right" /\ deep THEN child
                             ELSE IF m = p /\ d = "left" /\ deep THEN c ELSE t.kid[d][m]
  <2>1. t2.kid[d][m] = a2.kid[d][m]
    BY <1>9 DEF ParentSet
  <2>2. a2.kid[d][m] = IF d = "left" /\ m = succ THEN left ELSE t1.kid[d][m]
    BY <1>8 DEF KidSet
  <2> QED BY <2>1, <2>2, <1>6
<1>12. ASSUME NEW m \in Node
       PROVE  /\ t2.up[m] = IF m = left \/ (m = child /\ deep) THEN succ ELSE t.up[m]
              /\ t2.color[m] = t.color[m]
  <2>1. t2.up[m] = (IF m = left THEN succ ELSE a2.up[m]) /\ t2.color[m] = a2.color[m]
    BY <1>9 DEF ParentSet
  <2>2. a2.up[m] = t1.up[m] /\ a2.color[m] = t1.color[m]
    BY <1>8 DEF KidSet
  <2> QED BY <2>1, <2>2, <1>7
<1>13. ChildChanged(t2, t3, n, succ, q)
  BY <1>0, <1>10, ChangeChildIs
<1> HIDE DEF t3
<1>14. t3 \in Tree /\ t3.root = IF q = NULL THEN succ ELSE t.root
  BY <1>10, <1>13 DEF ChildChanged
<1>15. ASSUME NEW d \in Side, NEW m \in Node
       PROVE  t3.kid[d][m] = IF m = q /\ d = (IF t.kid["left"][q] = n THEN "left" ELSE "right")
                             THEN succ ELSE t2.kid[d][m]
  <2>1. t3.kid[d][m] = IF m = q /\ d = (IF t2.kid["left"][q] = n THEN "left" ELSE "right")
                       THEN succ ELSE t2.kid[d][m]
    BY <1>13 DEF ChildChanged
  <2>2. m = q => t2.kid["left"][q] = t.kid["left"][q]
    BY <1>0, <1>11
  <2> QED BY <2>1, <2>2
<1>16. \A m \in Node : t3.up[m] = t2.up[m] /\ t3.color[m] = t2.color[m]
  BY <1>13 DEF ChildChanged
<1>17. Painted(t3, t4, succ, q, t.color[n])
  BY <1>0, <1>14, PaintedIs
<1> HIDE DEF t4
<1>18. Painted(t4, u, c, p, "black")
  <2>1. t4 \in Tree
    BY <1>17 DEF Painted
  <2> QED BY <2>1, <1>0, PaintedIs DEF u
<1>19. u \in Tree /\ u.root = IF q = NULL THEN succ ELSE t.root
  <2>1. u \in Tree /\ u.root = t4.root
    BY <1>18 DEF Painted
  <2>2. t4.root = t3.root
    BY <1>17 DEF Painted
  <2> QED BY <2>1, <2>2, <1>14
<1>20. ASSUME NEW d \in Side, NEW m \in Node
       PROVE  u.kid[d][m] = IF m = q /\ d = (IF t.kid["left"][q] = n THEN "left" ELSE "right") THEN succ
                            ELSE IF m = succ /\ d = "left" THEN left
                            ELSE IF m = succ /\ d = "right" /\ succ # child THEN child
                            ELSE IF m = p /\ d = "left" /\ succ # child THEN c
                            ELSE t.kid[d][m]
  <2>1. u.kid[d][m] = t4.kid[d][m]
    BY <1>18 DEF Painted
  <2>2. t4.kid[d][m] = t3.kid[d][m]
    BY <1>17 DEF Painted
  <2>3. t2.kid[d][m] = IF m = succ /\ d = "left" THEN left
                       ELSE IF m = succ /\ d = "right" /\ succ # child THEN child
                       ELSE IF m = p /\ d = "left" /\ succ # child THEN c ELSE t.kid[d][m]
    BY <1>11 DEF deep
  <2> QED BY <2>1, <2>2, <2>3, <1>15
<1>21. ASSUME NEW m \in Node
       PROVE  /\ u.up[m] = IF m = c THEN p ELSE IF m = succ THEN q
                           ELSE IF m = left \/ (m = child /\ succ # child) THEN succ ELSE t.up[m]
              /\ u.color[m] = IF m = c THEN "black" ELSE IF m = succ THEN t.color[n] ELSE t.color[m]
  <2>1. /\ u.up[m] = IF m = c THEN p ELSE t4.up[m]
        /\ u.color[m] = IF m = c THEN "black" ELSE t4.color[m]
    BY <1>18 DEF Painted
  <2>2. /\ t4.up[m] = IF m = succ THEN q ELSE t3.up[m]
        /\ t4.color[m] = IF m = succ THEN t.color[n] ELSE t3.color[m]
    BY <1>17 DEF Painted
  <2>3. /\ t3.up[m] = IF m = left \/ (m = child /\ succ # child) THEN succ ELSE t.up[m]
        /\ t3.color[m] = t.color[m]
    BY <1>12, <1>16 DEF deep
  <2> QED BY <2>1, <2>2, <2>3
<1>22. Grafted(t, u, n, succ, child, left, p, c, q)
  BY <1>19, <1>20, <1>21 DEF Grafted
<1> QED BY <1>1, <1>22

\* A tree that is short of a black node below p, where n is.
EraseReady(t, M, sub, n, p) ==
    /\ t \in Tree /\ Shape(t, M, sub) /\ p \in M
    /\ NoRedPair(t, M, NULL) /\ ~IsRed(t, t.root) /\ ~IsRed(t, n)
    /\ \E s \in Side : \E bh : t.kid[s][p] = n /\ Balanced(t, M, bh, p, s)

\* What the removal of n leaves: a sound tree, or one ready for ____rb_erase_color.
Trimmed(t, M, e, n) ==
    /\ \/ e.rebalance = NULL /\ Sound(e.tree, M \ {n})
       \/ e.rebalance # NULL /\ \E sub : EraseReady(e.tree, M \ {n}, sub, NULL, e.rebalance)
    /\ \A m \in Node \ M : e.tree.up[m] = t.up[m]

\* Erasing a node with at most one child trims the tree.
LEMMA UnlinkTrims ==
    ASSUME NEW t \in Tree, NEW M, NEW sub, Shape(t, M, sub), NEW n \in M, NEW e \in Side,
           NEW c, OnlyKid(t, n, e, c),
           NEW bh, Balanced(t, M, bh, NULL, "left"), NoRedPair(t, M, NULL), ~IsRed(t, t.root)
    PROVE  Trimmed(t, M, Unlink(t, n, c), n)
<1> DEFINE p == t.up[n]
           r == Unlink(t, n, c)
           u == r.tree
           W == M \ {n}
           S == Without(sub, n)
<1>0. Above(t, n, p)
  BY DEF Above
<1>1. r.rebalance = IF c = NULL /\ ~IsRed(t, n) THEN p ELSE NULL
  BY DEF Unlink
<1> HIDE DEF p
<1>2. /\ M \subseteq Node /\ n \in Node /\ n # NULL /\ n \in Ref /\ c \in Ref /\ t.up[n] = p
      /\ p # NULL => p \in M /\ p # n /\ p # c /\ \E d \in Side : t.kid[d][p] = n
      /\ c # NULL => c \in M /\ c \in Node /\ c # n
  BY <1>0, CutFacts
<1>3. Cut(t, M, u, n, c)
  BY <1>2, UnlinkIs
<1> HIDE DEF r, u
<1>4. Shape(u, W, S)
  BY <1>3, CutShape
<1>5. /\ NoRedPair(u, W, NULL) /\ ~IsRed(u, u.root)
      /\ c # NULL => t.color[n] = "black"
      /\ c # NULL \/ t.color[n] = "red" \/ p = NULL => \E B : Balanced(u, W, B, NULL, "left")
      /\ c = NULL /\ t.color[n] = "black"
         => \A d \in Side : p # NULL /\ t.kid[d][p] = n => Balanced(u, W, bh, p, d)
  BY <1>0, <1>3, CutColors, ZenonT(60)
<1> HIDE DEF S
<1>6. u \in Tree /\ (\A m \in Node \ M : u.up[m] = t.up[m])
      /\ \A d \in Side, m \in M : u.kid[d][m] = IF t.kid[d][m] = n THEN c ELSE t.kid[d][m]
  <2>1. ASSUME NEW m \in Node \ M PROVE u.up[m] = t.up[m]
    BY <2>1, <1>2, <1>3, NullOutside DEF Cut
  <2>2. u \in Tree
    BY <1>3 DEF Cut
  <2>3. ASSUME NEW d \in Side, NEW m \in M
        PROVE  u.kid[d][m] = IF t.kid[d][m] = n THEN c ELSE t.kid[d][m]
    BY <1>3 DEF Cut
  <2> QED BY <2>1, <2>2, <2>3
<1>7. t.color[n] \in Color
  BY <1>2, TreeFields
<1>8. CASE c # NULL \/ t.color[n] = "red" \/ p = NULL
  <2>1. Sound(u, W)
    BY <1>4, <1>5, <1>6, <1>8 DEF Sound
  <2>2. r.rebalance = NULL
    BY <1>1, <1>2, <1>8 DEF IsRed
  <2> QED BY <2>1, <2>2, <1>6 DEF Trimmed, r, u, W
<1>9. CASE c = NULL /\ t.color[n] # "red" /\ p # NULL
  <2>1. r.rebalance = p /\ t.color[n] = "black"
    BY <1>1, <1>2, <1>7, <1>9 DEF IsRed, Color
  <2>2. PICK d \in Side : t.kid[d][p] = n
    BY <1>2, <1>9
  <2>3. Balanced(u, W, bh, p, d) /\ u.kid[d][p] = NULL /\ p \in W
    BY <2>1, <2>2, <1>2, <1>5, <1>6, <1>9
  <2> HIDE DEF W
  <2>4. EraseReady(u, W, S, NULL, p)
    BY <2>3, <1>4, <1>5, <1>6 DEF EraseReady, IsRed
  <2> QED BY <2>1, <2>4, <1>6, <1>9 DEF Trimmed, W, r, u
<1> QED BY <1>8, <1>9

\* The successor x of n has no left child, and nothing lies between the two.
LEMMA SuccessorFacts ==
    ASSUME NEW t \in Tree, NEW M, NEW sub, Shape(t, M, sub), NEW n \in M,
           NEW h, Kid(t, "right", n, h), h # NULL, NEW l, Kid(t, "left", n, l), l # NULL,
           NEW x, SuccOf(t, h, x), NEW px, Above(t, x, px), NEW q, Above(t, n, q)
    PROVE  /\ M \subseteq Node /\ n \in Node /\ h \in M /\ h \in Node /\ l \in M /\ l \in Node
           /\ t.kid["right"][n] = h /\ t.kid["left"][n] = l /\ t.up[n] = q /\ t.up[x] = px
           /\ t.up[h] = n /\ t.up[l] = n /\ h # n /\ l # n /\ h # l /\ l # x
           /\ x \in M /\ x \in Node /\ x # n /\ x # NULL /\ t.kid["left"][x] = NULL /\ t.root # x
           /\ px \in M /\ px \in Node /\ px # x /\ px # NULL
           /\ x = h => px = n
           /\ x # h => px # n /\ t.kid["left"][px] = x /\ t.kid["right"][px] # x
           /\ q \in Ref /\ q # x /\ q # n /\ (x # h => q # px)
           /\ q = NULL <=> n = t.root
           /\ q # NULL => q \in M /\ \E d \in Side : t.kid[d][q] = n
           /\ \A d \in Side, m \in M : m # n /\ m # x => (Before(d, x, m) <=> Before(d, n, m))
<1>0. /\ M \subseteq Node /\ n \in Node /\ t.kid["right"][n] = h /\ t.kid["left"][n] = l
      /\ t.up[n] = q /\ t.up[x] = px /\ "left" \in Side /\ "right" \in Side
      /\ Other("right") = "left" /\ Other("left") = "right" /\ Extreme(t, h, "left") = x
      /\ (\A m \in M : m \in sub[m] /\ sub[m] \subseteq M) /\ Distinctly(M)
      /\ \A d \in Side : d = "left" \/ d = "right"
  BY DEF Shape, Kid, Above, Side, Other, SuccOf
<1>1. /\ h \in M /\ h \in Node /\ t.up[h] = n /\ sub[h] = Half(sub, "right", n) /\ h \in sub[n]
      /\ n \notin sub[h] /\ n # h /\ sub[h] \subseteq sub[n]
  BY <1>0, KidFacts
<1>2. /\ l \in M /\ l \in Node /\ t.up[l] = n /\ sub[l] = Half(sub, "left", n) /\ n # l
  BY <1>0, KidFacts
<1>3. EndOf(t, sub, h, "left", x)
  BY <1>0, <1>1, ExtremeIs
<1>4. /\ x \in sub[h] /\ t.kid["left"][x] = NULL
      /\ \A m \in sub[h] : m # x => Before("left", x, m)
      /\ x # h => px \in sub[h] /\ t.kid["left"][px] = x
  BY <1>0, <1>3 DEF EndOf
<1>5. x \in M /\ x \in Node /\ x # n /\ x # NULL /\ x \in sub[n]
  BY <1>0, <1>1, <1>4, NullOutside
<1>6. h # l /\ l # x /\ l \notin sub[h]
  <2>1. l \notin Half(sub, "right", n)
    BY <1>0, <1>2, KidsApart
  <2> QED BY <2>1, <1>0, <1>1, <1>4
<1>7. /\ q \in Ref /\ (q = NULL <=> n = t.root)
      /\ q # NULL => q \in M /\ \E d \in Side : t.kid[d][q] = n
  BY <1>0, UpFacts, TreeFields
<1>8. q # NULL => q \notin sub[n]
  <2> SUFFICES ASSUME q # NULL PROVE q \notin sub[n]
    OBVIOUS
  <2>1. PICK d \in Side : t.kid[d][q] = n
    BY <1>7
  <2>2. q \in M /\ n # NULL
    BY <1>0, <1>7, NullOutside
  <2>3. q \notin sub[t.kid[d][q]]
    BY <2>1, <2>2, KidFacts
  <2> QED BY <2>1, <2>3
<1>9. t.root # x
  <2>1. x = h => t.root # x
    BY <1>0, <1>1, KidFacts
  <2>2. x # h => t.root # x
    <3>1. x # h => px \in M /\ t.kid["left"][px] = x
      BY <1>0, <1>1, <1>4
    <3> QED BY <3>1, <1>0, <1>5, KidFacts
  <2> QED BY <2>1, <2>2
<1>10. px \in M /\ px # NULL /\ px \in Node /\ px # x
  <2>1. px # NULL /\ px \in M /\ \E d \in Side : t.kid[d][px] = x
    BY <1>0, <1>5, <1>9, UpFacts
  <2>2. px # x
    BY <2>1, <1>5, KidFacts
  <2> QED BY <2>1, <2>2, <1>0
<1>11. x = h => px = n
  BY <1>0, <1>1
<1>12. x # h => px # n /\ t.kid["left"][px] = x /\ t.kid["right"][px] # x
  <2> SUFFICES ASSUME x # h PROVE px # n /\ t.kid["left"][px] = x /\ t.kid["right"][px] # x
    OBVIOUS
  <2>1. px \in sub[h] /\ t.kid["left"][px] = x
    BY <1>4
  <2>2. t.kid[Other("left")][px] # t.kid["left"][px]
    BY <2>1, <1>0, <1>5, <1>10, KidsApart
  <2> QED BY <2>1, <2>2, <1>0, <1>1
<1>13. q # x /\ q # n /\ (x # h => q # px)
  <2>1. CASE q = NULL
    BY <2>1, <1>5, <1>10, <1>0, NullOutside
  <2>2. CASE q # NULL
    BY <2>2, <1>0, <1>1, <1>4, <1>5, <1>8
  <2> QED BY <2>1, <2>2
<1>14. ASSUME NEW d \in Side, NEW m \in M, m # n, m # x
       PROVE  Before(d, x, m) <=> Before(d, n, m)
  <2>1. Before("left", n, x)
    <3>1. Before("right", x, n)
      BY <1>1, <1>4 DEF Half
    <3> QED BY <3>1 DEF Before
  <2>2. ~(Before("left", n, m) /\ Before("left", m, x))
    <3> SUFFICES ASSUME Before("left", n, m), Before("left", m, x) PROVE FALSE
      OBVIOUS
    <3>1. m \in sub[n]
      BY <1>0, <1>5, Convex
    <3>2. Before("right", m, n)
      BY DEF Before
    <3>3. m \in sub[h]
      BY <3>1, <3>2, <1>1 DEF Half
    <3>4. Before("left", x, m)
      BY <3>3, <1>4, <1>14
    <3> QED BY <3>4, <1>0, <1>5, BeforeFacts
  <2>3. Key(m) \in Int /\ Key(n) \in Int /\ Key(x) \in Int /\ Key(m) # Key(n) /\ Key(m) # Key(x)
    BY <1>0, <1>5, <1>14, KeyInt DEF Distinctly
  <2> QED BY <2>1, <2>2, <2>3, <1>0 DEF Before
<1> QED BY <1>0, <1>1, <1>2, <1>4, <1>5, <1>6, <1>7, <1>9, <1>10, <1>11, <1>12, <1>13, <1>14

\* To move n's successor x up is to cut x out and then to give it n's place.
LEMMA ReplaceRenamed ==
    ASSUME NEW t \in Tree, NEW M, NEW sub, Shape(t, M, sub), NEW n \in M,
           NEW h, Kid(t, "right", n, h), h # NULL, NEW l, Kid(t, "left", n, l), l # NULL,
           NEW x, SuccOf(t, h, x), NEW px, Above(t, x, px), NEW q, Above(t, n, q),
           NEW c, Kid(t, "right", x, c), NEW p, GapOf(t, x, h, p),
           NEW v, Cut(t, M, v, x, c), NEW u, Grafted(t, u, n, x, h, l, p, c, q),
           c # NULL => t.color[x] = "black"
    PROVE  Renamed(v, M \ {x}, u, n, x) /\ \A m \in Node \ M : u.up[m] = t.up[m]
<1>1. /\ M \subseteq Node /\ n \in Node /\ h \in M /\ h \in Node /\ l \in M /\ l \in Node
      /\ t.kid["right"][n] = h /\ t.kid["left"][n] = l /\ t.up[n] = q /\ t.up[x] = px
      /\ t.up[h] = n /\ t.up[l] = n /\ h # n /\ l # n /\ h # l /\ l # x
      /\ x \in M /\ x \in Node /\ x # n /\ x # NULL /\ t.kid["left"][x] = NULL /\ t.root # x
      /\ px \in M /\ px \in Node /\ px # x /\ px # NULL
      /\ x = h => px = n
      /\ x # h => px # n /\ t.kid["left"][px] = x /\ t.kid["right"][px] # x
      /\ q \in Ref /\ q # x /\ q # n /\ (x # h => q # px)
      /\ q = NULL <=> n = t.root
      /\ q # NULL => q \in M /\ \E d \in Side : t.kid[d][q] = n
  BY SuccessorFacts
<1>2. /\ t.kid["right"][x] = c /\ NULL \notin Node /\ "left" \in Side /\ "right" \in Side
      /\ \A d \in Side : d = "left" \/ d = "right"
      /\ "left" # "right" /\ Other("left") = "right" /\ Other("right") = "left"
  BY NullOutside DEF Kid, Side, Other
<1>3. (x # h => p = px) /\ (x = h => p = x)
  BY <1>1 DEF GapOf
<1>4. c # NULL => c \in M /\ c \in Node /\ c # x /\ t.up[c] = x /\ c # t.root
  BY <1>1, <1>2, KidFacts
<1>5. c # n
  <2>1. q # x
    BY <1>1
  <2> QED BY <2>1, <1>1, <1>2, <1>4
<1>6. ASSUME NEW d \in Side, NEW m \in M
      PROVE  t.kid[d][m] = n <=> m = q /\ d = (IF t.kid["left"][q] = n THEN "left" ELSE "right")
  <2>1. CASE t.kid[d][m] = n
    <3>1. t.up[t.kid[d][m]] = m /\ t.kid[Other(d)][m] # t.kid[d][m]
      BY <2>1, <1>1, <1>2, KidFacts, KidsApart
    <3>2. m = q
      BY <2>1, <3>1, <1>1
    <3> QED BY <2>1, <3>1, <3>2, <1>2
  <2>2. CASE m = q /\ d = (IF t.kid["left"][q] = n THEN "left" ELSE "right")
    <3>1. PICK e \in Side : t.kid[e][q] = n
      BY <2>2, <1>1, <1>2
    <3> QED BY <2>2, <3>1, <1>2
  <2> QED BY <2>1, <2>2
<1>7. ASSUME NEW d \in Side, NEW m \in M, m # n
      PROVE  t.kid[d][m] = x <=> m = p /\ d = "left" /\ x # h
  <2>1. CASE t.kid[d][m] = x
    <3>1. t.up[t.kid[d][m]] = m
      BY <2>1, <1>1, KidFacts
    <3>2. m = px
      BY <2>1, <3>1, <1>1
    <3> QED BY <2>1, <3>2, <1>1, <1>2, <1>3, <1>7
  <2>2. CASE m = p /\ d = "left" /\ x # h
    BY <2>2, <1>1, <1>3
  <2> QED BY <2>1, <2>2
<1>8. /\ v.root = t.root
      /\ \A d \in Side, m \in M : v.kid[d][m] = IF t.kid[d][m] = x THEN c ELSE t.kid[d][m]
      /\ \A m \in Node : v.up[m] = IF m = c THEN px ELSE t.up[m]
      /\ \A m \in Node : v.color[m] = IF m = c THEN t.color[x] ELSE t.color[m]
  BY <1>1 DEF Cut
<1>9. /\ u \in Tree /\ u.root = IF q = NULL THEN x ELSE t.root
      /\ \A d \in Side, m \in Node :
            u.kid[d][m] = IF m = q /\ d = (IF t.kid["left"][q] = n THEN "left" ELSE "right") THEN x
                          ELSE IF m = x /\ d = "left" THEN l
                          ELSE IF m = x /\ d = "right" /\ x # h THEN h
                          ELSE IF m = p /\ d = "left" /\ x # h THEN c
                          ELSE t.kid[d][m]
      /\ \A m \in Node : u.up[m] = IF m = c THEN p ELSE IF m = x THEN q
                                   ELSE IF m = l \/ (m = h /\ x # h) THEN x ELSE t.up[m]
      /\ \A m \in Node : u.color[m] = IF m = c THEN "black" ELSE IF m = x THEN t.color[n] ELSE t.color[m]
  BY DEF Grafted
<1>10. u.root = IF v.root = n THEN x ELSE v.root
  BY <1>1, <1>8, <1>9
<1>11. ASSUME NEW d \in Side, NEW m \in (M \ {x}) \ {n}
       PROVE  u.kid[d][m] = IF v.kid[d][m] = n THEN x ELSE v.kid[d][m]
  <2>1. m \in M /\ m \in Node /\ m # x /\ m # n
    BY <1>1
  <2>2. CASE t.kid[d][m] = n
    BY <2>1, <2>2, <1>1, <1>6, <1>8, <1>9
  <2>3. CASE t.kid[d][m] = x
    BY <2>1, <2>3, <1>1, <1>5, <1>6, <1>7, <1>8, <1>9
  <2>4. CASE t.kid[d][m] # n /\ t.kid[d][m] # x
    BY <2>1, <2>4, <1>1, <1>6, <1>7, <1>8, <1>9
  <2> QED BY <2>2, <2>3, <2>4
<1>12. ASSUME NEW d \in Side PROVE u.kid[d][x] = v.kid[d][n]
  <2>1. u.kid["left"][x] = v.kid["left"][n]
    BY <1>1, <1>2, <1>8, <1>9
  <2>2. u.kid["right"][x] = v.kid["right"][n]
    BY <1>1, <1>2, <1>8, <1>9
  <2> QED BY <2>1, <2>2, <1>2
<1>13. ASSUME NEW m \in (M \ {x}) \ {n}
       PROVE  /\ u.up[m] = IF v.up[m] = n THEN x ELSE v.up[m]
              /\ u.color[m] = v.color[m]
  <2>1. m \in M /\ m \in Node /\ m # x /\ m # n
    BY <1>1
  <2>2. CASE m = c
    BY <2>1, <2>2, <1>1, <1>2, <1>3, <1>8, <1>9
  <2>3. CASE m # c
    <3>1. t.up[m] = n => m = l \/ m = h
      <4> SUFFICES ASSUME t.up[m] = n PROVE m = l \/ m = h
        OBVIOUS
      <4>1. \E d \in Side : t.kid[d][t.up[m]] = m
        BY <2>1, <1>1, <1>2, UpFacts
      <4> QED BY <4>1, <1>1, <1>2
    <3> QED BY <2>1, <2>3, <3>1, <1>1, <1>8, <1>9
  <2> QED BY <2>2, <2>3
<1>14. u.up[x] = v.up[n] /\ u.color[x] = v.color[n]
  BY <1>1, <1>4, <1>5, <1>8, <1>9
<1>15. Renamed(v, M \ {x}, u, n, x)
  BY <1>9, <1>10, <1>11, <1>12, <1>13, <1>14 DEF Renamed
<1>16. ASSUME NEW m \in Node \ M PROVE u.up[m] = t.up[m]
  BY <1>1, <1>2, <1>4, <1>9
<1> QED BY <1>15, <1>16

\* Erasing a node with two children trims the tree.
LEMMA ReplaceTrims ==
    ASSUME NEW t \in Tree, NEW M, NEW sub, Shape(t, M, sub), NEW n \in M,
           NEW h, Kid(t, "right", n, h), h # NULL, NEW l, Kid(t, "left", n, l), l # NULL,
           NEW bh, Balanced(t, M, bh, NULL, "left"), NoRedPair(t, M, NULL), ~IsRed(t, t.root)
    PROVE  Trimmed(t, M, Replace(t, n), n)
<1>1. PICK x : SuccOf(t, h, x)
  BY DEF SuccOf
<1>2. PICK px : Above(t, x, px)
  BY DEF Above
<1>3. PICK q : Above(t, n, q)
  BY DEF Above
<1>4. PICK c : Kid(t, "right", x, c)
  BY DEF Kid
<1>5. PICK p : GapOf(t, x, h, p)
  BY DEF GapOf
<1> DEFINE r == Replace(t, n)
           u == r.tree
           v == Unlink(t, x, c).tree
           d == IF x = h THEN "right" ELSE "left"
           T == Relabeled(Without(sub, x), n, x)
           W == M \ {n}
<1>6. /\ M \subseteq Node /\ n \in Node /\ h \in M /\ h \in Node /\ l \in M /\ l \in Node
      /\ t.kid["right"][n] = h /\ t.kid["left"][n] = l /\ t.up[n] = q /\ t.up[x] = px
      /\ t.up[h] = n /\ t.up[l] = n /\ h # n /\ l # n /\ h # l /\ l # x
      /\ x \in M /\ x \in Node /\ x # n /\ x # NULL /\ t.kid["left"][x] = NULL /\ t.root # x
      /\ px \in M /\ px \in Node /\ px # x /\ px # NULL
      /\ x = h => px = n
      /\ x # h => px # n /\ t.kid["left"][px] = x /\ t.kid["right"][px] # x
      /\ q \in Ref /\ q # x /\ q # n /\ (x # h => q # px)
      /\ q = NULL <=> n = t.root
      /\ q # NULL => q \in M /\ \E e \in Side : t.kid[e][q] = n
      /\ \A e \in Side, m \in M : m # n /\ m # x => (Before(e, x, m) <=> Before(e, n, m))
  BY <1>1, <1>2, <1>3, SuccessorFacts
<1>7. /\ t.kid["right"][x] = c /\ c \in Ref /\ l \in Ref /\ n # NULL
      /\ "right" \in Side /\ "left" \in Side /\ Other("right") = "left" /\ d \in Side
      /\ t.color[x] \in Color
  BY <1>4, <1>6, TreeFields, NullOutside DEF Kid, Side, Other, Ref
<1>8. (x # h => p = px) /\ (x = h => p = x)
  BY <1>5, <1>6 DEF GapOf
<1>9. r = Graft(t, n, h, x, l, p, c, q)
  BY <1>1, <1>3, <1>4, <1>5, ReplaceGraft
<1>10. r.rebalance = IF c = NULL /\ ~IsRed(t, x) THEN p ELSE NULL
  BY <1>9 DEF Graft
<1>11. p \in Node /\ q # x /\ q # p
  BY <1>6, <1>8
<1>12. Grafted(t, u, n, x, h, l, p, c, q)
  <2>1. Grafted(t, Graft(t, n, h, x, l, p, c, q).tree, n, x, h, l, p, c, q)
    BY <1>6, <1>7, <1>11, GraftIs
  <2> QED BY <2>1, <1>9
<1>13. Cut(t, M, v, x, c)
  BY <1>6, <1>7, UnlinkIs
<1> HIDE DEF u, v, r, T
<1>14. OnlyKid(t, x, "right", c)
  BY <1>6, <1>7 DEF OnlyKid
<1>15. Shape(v, M \ {x}, Without(sub, x)) /\ v \in Tree
  BY <1>6, <1>7, <1>13, <1>14, CutShape DEF Cut
<1>16. /\ NoRedPair(v, M \ {x}, NULL) /\ ~IsRed(v, v.root)
       /\ c # NULL => t.color[x] = "black"
       /\ c # NULL \/ t.color[x] = "red" \/ px = NULL
          => \E B : Balanced(v, M \ {x}, B, NULL, "left")
       /\ c = NULL /\ t.color[x] = "black"
          => \A e \in Side : px # NULL /\ t.kid[e][px] = x => Balanced(v, M \ {x}, bh, px, e)
  <2>1. x \in M /\ "right" \in Side
    BY <1>6, <1>7
  <2> QED BY <2>1, <1>2, <1>13, <1>14, CutColors, ZenonT(60)
<1>17. Renamed(v, M \ {x}, u, n, x) /\ \A m \in Node \ M : u.up[m] = t.up[m]
  BY <1>1, <1>2, <1>3, <1>4, <1>5, <1>12, <1>13, <1>16, ReplaceRenamed
<1>18. Put(M \ {x}, n, x) = W
  BY <1>6 DEF Put
<1>19. n \in M \ {x} /\ x \notin M \ {x}
       /\ \A e \in Side, m \in M \ {x} : m # n => (Before(e, x, m) <=> Before(e, n, m))
  BY <1>6
<1>20. Shape(u, W, T)
  <2>1. Shape(u, Put(M \ {x}, n, x), Relabeled(Without(sub, x), n, x))
    BY <1>6, <1>15, <1>17, <1>19, RenameShape
  <2> QED BY <2>1, <1>18 DEF T
<1> HIDE DEF W
<1>21. u \in Tree
  BY <1>17 DEF Renamed
<1>22. CASE c # NULL \/ t.color[x] = "red"
  <2>1. PICK B : Balanced(v, M \ {x}, B, NULL, "left")
    BY <1>16, <1>22
  <2>2. /\ Balanced(u, Put(M \ {x}, n, x), [B EXCEPT ![x] = B[n]], IF NULL = n THEN x ELSE NULL, "left")
        /\ NoRedPair(u, Put(M \ {x}, n, x), NULL) /\ ~IsRed(u, u.root)
    BY <2>1, <1>6, <1>7, <1>15, <1>16, <1>17, <1>19, RenameColors
  <2>3. \E C : Balanced(u, W, C, NULL, "left")
    BY <2>2, <1>7, <1>18
  <2>4. Sound(u, W)
    BY <2>2, <2>3, <1>18, <1>20, <1>21 DEF Sound
  <2>5. r.rebalance = NULL
    BY <1>10, <1>22, <1>6 DEF IsRed
  <2> QED BY <2>4, <2>5, <1>17 DEF Trimmed, u, r, W
<1>23. CASE c = NULL /\ t.color[x] # "red"
  <2>1. t.color[x] = "black" /\ r.rebalance = p /\ p # NULL
    BY <1>23, <1>7, <1>8, <1>6, <1>10 DEF IsRed, Color
  <2>2. t.kid[d][px] = x
    BY <1>6
  <2>3. Balanced(v, M \ {x}, bh, px, d)
    BY <2>1, <2>2, <1>6, <1>7, <1>16, <1>23
  <2>4. /\ Balanced(u, Put(M \ {x}, n, x), [bh EXCEPT ![x] = bh[n]], IF px = n THEN x ELSE px, d)
        /\ NoRedPair(u, Put(M \ {x}, n, x), NULL) /\ ~IsRed(u, u.root)
    BY <2>3, <1>6, <1>7, <1>15, <1>16, <1>17, <1>19, RenameColors
  <2>5. (IF px = n THEN x ELSE px) = p
    BY <1>6, <1>8
  <2>6. Balanced(u, W, [bh EXCEPT ![x] = bh[n]], p, d) /\ NoRedPair(u, W, NULL)
    BY <2>4, <2>5, <1>18
  <2>7. u.kid[d][p] = NULL
    <3>1. CASE x = h
      BY <3>1, <1>6, <1>7, <1>8, <1>12, <1>23 DEF Grafted
    <3>2. CASE x # h
      BY <3>2, <1>6, <1>7, <1>8, <1>12, <1>23 DEF Grafted
    <3> QED BY <3>1, <3>2
  <2>8. p \in W
    BY <1>6, <1>8 DEF W
  <2>9. EraseReady(u, W, T, NULL, p)
    BY <2>4, <2>6, <2>7, <2>8, <1>7, <1>20, <1>21 DEF EraseReady, IsRed
  <2> QED BY <2>1, <2>9, <1>17 DEF Trimmed, u, r, W
<1> QED BY <1>22, <1>23

\* __rb_erase_augmented takes the node out of the tree and names the place that is
\* short of a black node.
LEMMA EraseTrims ==
    ASSUME NEW t, NEW M, Sound(t, M), NEW n \in M
    PROVE  Trimmed(t, M, EraseAugmented(t, n), n)
<1>1. PICK sub, bh : Shape(t, M, sub) /\ Balanced(t, M, bh, NULL, "left")
  BY DEF Sound
<1>2. t \in Tree /\ NoRedPair(t, M, NULL) /\ ~IsRed(t, t.root)
  BY DEF Sound
<1>3. "left" \in Side /\ "right" \in Side /\ Other("right") = "left" /\ Other("left") = "right"
  BY DEF Side, Other
<1>4. CASE t.kid["left"][n] = NULL
  <2>1. OnlyKid(t, n, "right", t.kid["right"][n])
    BY <1>3, <1>4 DEF OnlyKid
  <2>2. Trimmed(t, M, Unlink(t, n, t.kid["right"][n]), n)
    BY <2>1, <1>1, <1>2, <1>3, UnlinkTrims
  <2> QED BY <2>2, <1>4 DEF EraseAugmented
<1>5. CASE t.kid["left"][n] # NULL /\ t.kid["right"][n] = NULL
  <2>1. OnlyKid(t, n, "left", t.kid["left"][n])
    BY <1>3, <1>5 DEF OnlyKid
  <2>2. Trimmed(t, M, Unlink(t, n, t.kid["left"][n]), n)
    BY <2>1, <1>1, <1>2, <1>3, UnlinkTrims
  <2> QED BY <2>2, <1>5 DEF EraseAugmented
<1>6. CASE t.kid["left"][n] # NULL /\ t.kid["right"][n] # NULL
  <2>1. Kid(t, "right", n, t.kid["right"][n]) /\ Kid(t, "left", n, t.kid["left"][n])
    BY DEF Kid
  <2>2. Trimmed(t, M, Replace(t, n), n)
    BY <2>1, <1>1, <1>2, <1>6, ReplaceTrims
  <2> QED BY <2>2, <1>6 DEF EraseAugmented
<1> QED BY <1>4, <1>5, <1>6

-----------------------------------------------------------------------------
(* The loop that fills the gap after a removal. *)

\* Whatever nodes it is given, the end of a rotation leaves a tree value.
LEMMA RotateType ==
    ASSUME NEW t \in Tree, NEW x \in Node, NEW y \in Node, NEW c \in Color
    PROVE  RotateSetParents(t, x, y, c) \in Tree
<1> DEFINE p == t.up[x]
           a == SetParentColor(t, y, p, t.color[x])
           b == SetParentColor(a, x, y, c)
<1>1. p \in Ref /\ x \in Ref /\ y \in Ref /\ t.color[x] \in Color
  BY TreeFields DEF Ref
<1>2. a \in Tree
  BY <1>1, SetParentColorIs
<1>3. b \in Tree
  <2> HIDE DEF a
  <2> QED BY <1>1, <1>2, SetParentColorIs
<1>4. ChildChanged(b, ChangeChild(b, x, y, p), x, y, p)
  <2> HIDE DEF b, p
  <2> QED BY <1>1, <1>3, ChangeChildIs
<1>5. ChangeChild(b, x, y, p) \in Tree
  <2> HIDE DEF b, p
  <2> QED BY <1>4 DEF ChildChanged
<1> QED BY <1>5 DEF RotateSetParents

\* The side of the gap, the tree with a black sibling, and with a red one.
GapSide(t, n, p) == IF n # t.kid["right"][p] THEN "left" ELSE "right"
Tried(t, n, p) == BlackSibling(t, p, GapSide(t, n, p))
Sibling(t, n, p) == Tried(t, n, p).kid[Other(GapSide(t, n, p))][p]
Faded(t, n, p) == SetParentColor(Tried(t, n, p), Sibling(t, n, p), p, "red")

\* Case 2 of an erasure makes a tree of a tree.
LEMMA FadedType ==
    ASSUME NEW t \in Tree, NEW n \in Ref, NEW p \in Node
    PROVE  Faded(t, n, p) \in Tree
<1> DEFINE s == GapSide(t, n, p)
           o == Other(s)
           sib == t.kid[o][p]
           mid == t.kid[s][sib]
           a == Turn(t, p, sib, o)
           b == SetParentColor(a, mid, p, "black")
<1>1. s \in Side /\ o \in Side /\ p \in Ref /\ "black" \in Color /\ "red" \in Color
  <2>1. s \in Side
    BY DEF GapSide, Side
  <2> HIDE DEF s
  <2> QED BY <2>1, SideFacts DEF Ref, Color
<1> HIDE DEF s
<1>2. Other(o) = s
  BY <1>1, SideFacts
<1>3. sib \in Ref
  BY <1>1, TreeFields
<1>4. BlackSibling(t, p, s) \in Tree
  <2>1. CASE IsRed(t, sib)
    <3>1. sib \in Node
      BY <1>3, <2>1 DEF IsRed, Ref
    <3>2. mid \in Ref
      BY <1>1, <3>1, TreeFields
    <3>3. a \in Tree
      <4>1. KidsTurned(t, a, p, sib, o)
        BY <1>1, <3>1, TurnIs
      <4> QED BY <4>1 DEF KidsTurned
    <3> HIDE DEF sib, a
    <3>4. b \in Tree
      BY <1>1, <3>2, <3>3, SetParentColorIs, ZenonT(60)
    <3> HIDE DEF b
    <3>5. RotateSetParents(b, p, sib, "red") \in Tree
      BY <1>1, <3>1, <3>4, RotateType
    <3> QED BY <2>1, <3>5 DEF BlackSibling, b, a, sib, o
  <2>2. CASE ~IsRed(t, sib)
    BY <2>2 DEF BlackSibling
  <2> QED BY <2>1, <2>2
<1>5. Sibling(t, n, p) \in Ref /\ Tried(t, n, p) \in Tree
  <2>1. Tried(t, n, p) \in Tree
    BY <1>4 DEF Tried, s
  <2>2. Tried(t, n, p).kid[o][p] \in Ref
    BY <1>1, <2>1, TreeFields
  <2> QED BY <2>1, <2>2 DEF Sibling, o, s
<1> QED BY <1>1, <1>5, SetParentColorIs DEF Faded

EraseBody(f, x) ==
    LET t   == x[1]
        n   == x[2]
        p   == x[3]
        s   == GapSide(t, n, p)
        v   == Tried(t, n, p)
        sib == Sibling(t, n, p)
        w   == Faded(t, n, p)
    IN  IF \E d \in Side : IsRed(v, v.kid[d][sib]) THEN FillGap(v, p, s)
        ELSE IF IsRed(w, p) THEN SetBlack(w, p)
        ELSE IF w.up[p] # NULL THEN f[<<w, p, w.up[p]>>]
        ELSE w

\* The loop of ____rb_erase_color as a function.
LEMMA EraseLoop ==
    \E f : /\ \A t \in Tree, n \in Ref, p \in Node : f[<<t, n, p>>] = EraseBody(f, <<t, n, p>>)
           /\ \A t, n, p : EraseColor(t, n, p) = f[<<t, n, p>>]
<1> DEFINE X == Tree \X (Node \cup {NULL}) \X Node
           fills(t, n, p) == \E d \in Side :
                                IsRed(Tried(t, n, p), Tried(t, n, p).kid[d][Sibling(t, n, p)])
           again(t, n, p) == /\ ~fills(t, n, p)
                             /\ ~IsRed(Faded(t, n, p), p) /\ Faded(t, n, p).up[p] # NULL
           H == {x \in X : ~again(x[1], x[2], x[3])}
           next(t, n, p) == <<Faded(t, n, p), p, Faded(t, n, p).up[p]>>
           nx == [x \in X |-> next(x[1], x[2], x[3])]
           result(t, n, p) == IF fills(t, n, p) THEN FillGap(Tried(t, n, p), p, GapSide(t, n, p))
                              ELSE IF IsRed(Faded(t, n, p), p) THEN SetBlack(Faded(t, n, p), p)
                              ELSE Faded(t, n, p)
           out == [x \in X |-> result(x[1], x[2], x[3])]
           fix[x \in X] == EraseBody(fix, x)
<1>1. ASSUME NEW x \in X, x \notin H PROVE nx[x] \in X
  <2>1. PICK t \in Tree, n \in Ref, p \in Node : x = <<t, n, p>>
    BY DEF Ref
  <2>2. again(t, n, p)
    BY <1>1, <2>1
  <2>3. nx[x] = <<Faded(t, n, p), p, Faded(t, n, p).up[p]>>
    BY <2>1
  <2> HIDE DEF nx
  <2>4. Faded(t, n, p) \in Tree
    BY FadedType
  <2>5. Faded(t, n, p).up[p] \in Ref /\ p \in Ref
    BY <2>4, TreeFields DEF Ref
  <2>6. Faded(t, n, p).up[p] \in Node
    BY <2>2, <2>5 DEF Ref
  <2> QED BY <2>3, <2>4, <2>5, <2>6 DEF Ref
<1>2. \E f : IsLoop(f, X, H, nx, out)
  <2> HIDE DEF H, nx, out, X
  <2> QED BY <1>1, LoopExists, SMTT(60)
<1>3. PICK f : IsLoop(f, X, H, nx, out)
  BY <1>2, ZenonT(60)
<1>4. ASSUME NEW x \in X PROVE f[x] = EraseBody(f, x)
  <2>1. f[x] = IF x \in H THEN out[x] ELSE f[nx[x]]
    <3> HIDE DEF H, nx, out, X
    <3> QED BY <1>3 DEF IsLoop
  <2>2. /\ x \in H <=> ~again(x[1], x[2], x[3])
        /\ out[x] = result(x[1], x[2], x[3]) /\ nx[x] = next(x[1], x[2], x[3])
    OBVIOUS
  <2> HIDE DEF H, out, nx, X
  <2> QED BY <2>1, <2>2 DEF EraseBody
<1>5. f = [x \in X |-> EraseBody(f, x)]
  <2> HIDE DEF H, nx, out, X
  <2>1. f = [x \in X |-> f[x]]
    BY <1>3 DEF IsLoop
  <2> QED BY <1>4, <2>1
<1>6. fix = [x \in X |-> EraseBody(fix, x)]
  <2> HIDE DEF X
  <2> QED BY <1>5
<1>7. \A t, n, p : EraseColor(t, n, p) = fix[<<t, n, p>>]
  BY DEF EraseColor, EraseBody, Faded, Sibling, Tried, GapSide
<1> HIDE DEF fix
<1>8. \A t \in Tree, n \in Ref, p \in Node : fix[<<t, n, p>>] = EraseBody(fix, <<t, n, p>>)
  <2>1. \A x \in X : fix[x] = EraseBody(fix, x)
    <3> HIDE DEF X
    <3> QED BY <1>6
  <2>2. \A t \in Tree, n \in Ref, p \in Node : <<t, n, p>> \in X
    BY DEF Ref
  <2> HIDE DEF X
  <2> QED BY <2>1, <2>2
<1> QED BY <1>7, <1>8

\* A path that is short of a black node has a sibling, which is a node.
LEMMA GapFacts ==
    ASSUME NEW t \in Tree, NEW M, NEW sub, Shape(t, M, sub), NEW p \in M, NEW s \in Side,
           NEW n, Kid(t, s, p, n), NEW bh, Balanced(t, M, bh, p, s),
           NEW sib, Kid(t, Other(s), p, sib)
    PROVE  /\ GapSide(t, n, p) = s /\ t.kid[s][p] = n /\ t.kid[Other(s)][p] = sib
           /\ sib # NULL /\ sib \in M /\ sib \in Node /\ t.up[sib] = p /\ sib # p /\ sib # n
           /\ sib # t.root /\ p \in Node /\ n \in Ref /\ p # NULL
           /\ (n # NULL => n \in M /\ t.up[n] = p /\ n # p)
           /\ bh[sib] = bh[n] + 1 /\ bh[p] = bh[sib] + Own(t, p)
           /\ bh[n] \in Nat /\ bh[sib] \in Nat /\ bh[p] \in Nat
           /\ Other(s) \in Side /\ Other(s) # s /\ Other(Other(s)) = s
           /\ \A d \in Side : d = s \/ d = Other(s)
<1>1. /\ t.kid[s][p] = n /\ t.kid[Other(s)][p] = sib
      /\ Other(s) \in Side /\ Other(s) # s /\ Other(Other(s)) = s
      /\ \A d \in Side : d = s \/ d = Other(s)
      /\ M \subseteq Node /\ p \in Node /\ p # NULL
  BY SideFacts, NullOutside DEF Kid, Shape
<1>2. n \in Ref /\ sib \in Ref /\ p \in Ref
  BY <1>1, TreeFields DEF Ref
<1>3. /\ bh[n] \in Nat /\ bh[sib] \in Nat /\ bh[p] \in Nat /\ bh[NULL] = 0 /\ Own(t, p) \in Nat
  BY <1>2 DEF Balanced, Own
<1>4. bh[p] = bh[n] + Own(t, p) + 1
  BY <1>1 DEF Balanced
<1>5. bh[p] = bh[sib] + Own(t, p) + 0
  BY <1>1 DEF Balanced
<1>6. bh[sib] = bh[n] + 1 /\ bh[p] = bh[sib] + Own(t, p)
  BY <1>3, <1>4, <1>5
<1>7. sib # NULL
  BY <1>3, <1>6
<1>8. sib \in M /\ sib \in Node /\ t.up[sib] = p /\ sib # p /\ sib # t.root
  BY <1>1, <1>7, KidFacts
<1>9. n # NULL => n \in M /\ t.up[n] = p /\ n # p
  BY <1>1, KidFacts
<1>10. sib # n
  BY <1>3, <1>6
<1>11. GapSide(t, n, p) = s
  <2>1. CASE s = "left"
    BY <2>1, <1>1, <1>10 DEF GapSide, Other
  <2>2. CASE s = "right"
    BY <2>2, <1>1 DEF GapSide
  <2> QED BY <2>1, <2>2 DEF Side
<1> QED BY <1>1, <1>2, <1>3, <1>6, <1>7, <1>8, <1>9, <1>10, <1>11

\* What one pass starts from, the side of the gap known.
Gapped(t, M, sub, bh, n, p, s) ==
    /\ t \in Tree /\ Shape(t, M, sub) /\ p \in M /\ s \in Side /\ Kid(t, s, p, n)
    /\ NoRedPair(t, M, NULL) /\ ~IsRed(t, t.root) /\ ~IsRed(t, n)
    /\ Balanced(t, M, bh, p, s)

\* Case 1.
LEMMA BlackSiblingSound ==
    ASSUME NEW t, NEW M, NEW sub, NEW bh, NEW n, NEW p, NEW s, Gapped(t, M, sub, bh, n, p, s)
    PROVE  LET v == BlackSibling(t, p, s)
           IN  /\ \E S, B : Gapped(v, M, S, B, n, p, s)
               /\ ~IsRed(v, v.kid[Other(s)][p])
               /\ v = t \/ v.color[p] = "red"
               /\ \A m \in Node \ M : v.up[m] = t.up[m]
<1>0. /\ t \in Tree /\ Shape(t, M, sub) /\ p \in M /\ s \in Side /\ Kid(t, s, p, n)
      /\ NoRedPair(t, M, NULL) /\ ~IsRed(t, t.root) /\ ~IsRed(t, n)
      /\ Balanced(t, M, bh, p, s)
  BY DEF Gapped
<1>1. PICK sib : Kid(t, Other(s), p, sib)
  BY DEF Kid
<1> DEFINE o == Other(s)
           mid == t.kid[s][sib]
           w == SetParentColor(Turn(t, p, sib, o), mid, p, "black")
           u == RotateSetParents(w, p, sib, "red")
           v == BlackSibling(t, p, s)
<1>2. /\ t.kid[s][p] = n /\ t.kid[o][p] = sib
      /\ sib # NULL /\ sib \in M /\ sib \in Node /\ t.up[sib] = p /\ sib # p /\ sib # n
      /\ sib # t.root /\ p \in Node /\ p # NULL
      /\ o \in Side /\ o # s /\ Other(o) = s
      /\ \A d \in Side : d = s \/ d = o
  BY <1>0, <1>1, GapFacts
<1>3. CASE ~IsRed(t, sib)
  <2>1. v = t
    BY <1>2, <1>3 DEF BlackSibling
  <2>2. ~IsRed(t, t.kid[Other(s)][p])
    BY <1>2, <1>3
  <2> HIDE DEF v
  <2> QED BY <2>1, <2>2 DEF v
<1>4. CASE IsRed(t, sib)
  <2>1. v = u
    BY <1>2, <1>4 DEF BlackSibling
  <2>2. Kid(t, o, p, sib) /\ Kid(t, Other(o), sib, mid) /\ "red" \in Color
    BY <1>2 DEF Kid, Color
  <2>3. t.color[sib] = "red"
    BY <1>4 DEF IsRed
  <2>4. t.color[p] = "black"
    <3>1. t.color[p] \in Color
      BY <1>0, <1>2, TreeFields
    <3>2. t.color[p] # "red"
      BY <1>0, <1>2, <1>4 DEF NoRedPair
    <3> QED BY <3>1, <3>2 DEF Color
  <2>5. ~IsRed(t, mid)
    <3>1. IsRed(t, t.kid[s][sib]) => t.kid[s][sib] = NULL
      BY <1>0, <1>2, <2>3 DEF NoRedPair
    <3> QED BY <3>1 DEF IsRed
  <2>6. HalfTurned(t, w, p, o) /\ \A m \in Node : w.color[m] = IF m = mid THEN "black" ELSE t.color[m]
    <3>1. sib = t.kid[o][p] /\ mid = t.kid[Other(o)][sib]
      BY <1>2
    <3> HIDE DEF o, mid
    <3> QED BY <3>1, <1>0, <1>2, HalfTurn
  <2> HIDE DEF w, mid, o
  <2>7. \A m \in M : w.color[m] = t.color[m]
    <3> SUFFICES ASSUME NEW m \in M PROVE w.color[m] = t.color[m]
      OBVIOUS
    <3>1. m \in Node /\ m # NULL /\ t.color[m] \in Color
      BY <1>0, TreeFields, NullOutside DEF Shape
    <3> QED BY <3>1, <2>5, <2>6 DEF IsRed, Color
  <2>8. /\ Rotated(t, u, p, o)
        /\ \A m \in Node : u.color[m] = IF m = p THEN "red"
                                        ELSE IF m = sib THEN w.color[p] ELSE w.color[m]
    <3>1. t.kid[o][p] # NULL
      BY <1>2
    <3>2. LET y == t.kid[o][p]
              q == RotateSetParents(w, p, y, "red")
          IN  /\ Rotated(t, q, p, o)
              /\ \A m \in Node : q.color[m] = IF m = p THEN "red"
                                              ELSE IF m = y THEN w.color[p] ELSE w.color[m]
      BY <3>1, <1>0, <1>2, <2>2, <2>6, FinishRotation
    <3> QED BY <3>2, <1>2
  <2> HIDE DEF u
  <2>9. /\ u.color[p] = "red" /\ u.color[sib] = "black"
        /\ \A m \in M : m # p /\ m # sib => u.color[m] = t.color[m]
    BY <1>0, <1>2, <2>4, <2>7, <2>8 DEF Shape
  <2>10. /\ u \in Tree /\ u.kid[o][p] = mid /\ u.kid[s][p] = n
         /\ \A m \in Node \ M : u.up[m] = t.up[m]
    BY <1>0, <1>2, <2>2, <2>8, RotatedNear
  <2>11. /\ Shape(u, M, Turned(sub, p, sib, o))
         /\ Balanced(u, M, Swapped(bh, p, sib), p, s)
         /\ NoRedPair(u, M, NULL) /\ ~IsRed(u, u.root)
    <3> DEFINE y == t.kid[o][p]
    <3>1. /\ y # NULL /\ p # y /\ ~(p = p /\ s = o) /\ t.color[y] = "red" /\ u.color[y] = "black"
          /\ \A m \in M : m # p /\ m # y => u.color[m] = t.color[m]
      BY <1>2, <2>3, <2>9
    <3>2. /\ Shape(u, M, Turned(sub, p, y, o))
          /\ Balanced(u, M, Swapped(bh, p, y), p, s)
          /\ \A q : /\ NoRedPair(t, M, q) /\ (q = NULL \/ t.up[q] = y)
                    /\ ~IsRed(t, t.kid[Other(o)][p])
                    /\ ~IsRed(t, t.kid[Other(o)][y])
                    => NoRedPair(u, M, NULL)
          /\ ~IsRed(t, t.root) => ~IsRed(u, u.root)
      BY <3>1, <1>0, <1>2, <2>4, <2>8, <2>9, RedRotation
    <3>3. y = sib
      BY <1>2
    <3>4. ~IsRed(t, t.kid[Other(o)][p]) /\ ~IsRed(t, t.kid[Other(o)][y])
      BY <3>3, <1>0, <1>2, <2>5 DEF mid
    <3> HIDE DEF y
    <3> QED BY <3>2, <3>3, <3>4, <1>0
  <2>12. \A m \in Ref : m # p /\ m # sib /\ ~IsRed(t, m) => ~IsRed(u, m)
    <3> SUFFICES ASSUME NEW m \in Ref, m # p, m # sib, ~IsRed(t, m), IsRed(u, m) PROVE FALSE
      OBVIOUS
    <3>1. m \in Node /\ u.color[m] = w.color[m]
      BY <2>8 DEF IsRed, Ref
    <3> QED BY <3>1, <2>6 DEF IsRed
  <2>13. mid # p /\ mid # sib /\ n # p /\ n # sib /\ mid \in Ref /\ n \in Ref
    <3>1. mid \in Ref /\ n \in Ref
      BY <1>0, <1>2, TreeFields DEF mid
    <3>2. mid # NULL => mid # sib /\ t.up[mid] = sib
      BY <1>0, <1>2, KidFacts DEF mid
    <3>3. n # NULL => n # p
      BY <1>0, <1>2, KidFacts
    <3>4. mid # p
      <4>1. p \in sub[p] /\ p \notin sub[sib]
        <5>1. p \notin sub[t.kid[o][p]]
          BY <1>0, <1>2, KidFacts
        <5> QED BY <5>1, <1>0, <1>2 DEF Shape
      <4>2. mid # NULL => mid \in sub[sib]
        BY <1>0, <1>2, KidFacts DEF mid
      <4> QED BY <4>1, <4>2, <1>2
    <3> QED BY <3>1, <3>2, <3>3, <3>4, <1>2
  <2>14. ~IsRed(u, mid) /\ ~IsRed(u, n)
    BY <1>0, <2>5, <2>12, <2>13
  <2>15. Gapped(u, M, Turned(sub, p, sib, o), Swapped(bh, p, sib), n, p, s)
    BY <1>0, <2>10, <2>11, <2>14 DEF Gapped, Kid
  <2> HIDE DEF v
  <2>16. ~IsRed(v, v.kid[Other(s)][p])
    BY <2>1, <2>10, <2>14 DEF o
  <2>17. \E S, B : Gapped(v, M, S, B, n, p, s)
    BY <2>1, <2>15
  <2>18. v.color[p] = "red" /\ \A m \in Node \ M : v.up[m] = t.up[m]
    BY <2>1, <2>9, <2>10
  <2> QED BY <2>16, <2>17, <2>18 DEF v
<1> QED BY <1>3, <1>4

\* Balanced without the sum: how bh goes from a node to a child.
Stepwise(t, M, bh, p, s) ==
    /\ bh \in [Ref -> Nat] /\ bh[NULL] = 0
    /\ \A m \in M, d \in Side :
          /\ m \in Ref /\ t.kid[d][m] \in Ref /\ bh[m] \in Nat /\ bh[t.kid[d][m]] \in Nat
          /\ m = p /\ d = s /\ t.color[m] = "red" => bh[m] = bh[t.kid[d][m]] + 1
          /\ m = p /\ d = s /\ t.color[m] # "red" => bh[m] = bh[t.kid[d][m]] + 2
          /\ ~(m = p /\ d = s) /\ t.color[m] = "red" => bh[m] = bh[t.kid[d][m]]
          /\ ~(m = p /\ d = s) /\ t.color[m] # "red" => bh[m] = bh[t.kid[d][m]] + 1

\* The balance of a tree, step by step.
LEMMA BalanceFacts ==
    ASSUME NEW t \in Tree, NEW M \in SUBSET Node, NEW bh, NEW p, NEW s, Balanced(t, M, bh, p, s)
    PROVE  Stepwise(t, M, bh, p, s)
<1>1. bh \in [Ref -> Nat] /\ bh[NULL] = 0
  BY DEF Balanced
<1> SUFFICES ASSUME NEW m \in M, NEW d \in Side
             PROVE  /\ m \in Ref /\ t.kid[d][m] \in Ref /\ bh[m] \in Nat /\ bh[t.kid[d][m]] \in Nat
                    /\ m = p /\ d = s /\ t.color[m] = "red" => bh[m] = bh[t.kid[d][m]] + 1
                    /\ m = p /\ d = s /\ t.color[m] # "red" => bh[m] = bh[t.kid[d][m]] + 2
                    /\ ~(m = p /\ d = s) /\ t.color[m] = "red" => bh[m] = bh[t.kid[d][m]]
                    /\ ~(m = p /\ d = s) /\ t.color[m] # "red" => bh[m] = bh[t.kid[d][m]] + 1
  BY <1>1 DEF Stepwise
<1>2. bh[m] = bh[t.kid[d][m]] + Own(t, m) + (IF m = p /\ d = s THEN 1 ELSE 0)
  BY DEF Balanced
<1>3. m \in Ref /\ t.kid[d][m] \in Ref
  BY TreeFields DEF Ref
<1>4. bh[m] \in Nat /\ bh[t.kid[d][m]] \in Nat
  BY <1>1, <1>3
<1>5. CASE t.color[m] = "red"
  <2>1. Own(t, m) = 0
    BY <1>5 DEF Own
  <2> QED BY <2>1, <1>2, <1>3, <1>4, <1>5
<1>6. CASE t.color[m] # "red"
  <2>1. Own(t, m) = 1
    BY <1>6 DEF Own
  <2> QED BY <2>1, <1>2, <1>3, <1>4, <1>6
<1> QED BY <1>5, <1>6

\* And back.
LEMMA BalanceFrom ==
    ASSUME NEW t \in Tree, NEW M \in SUBSET Node, NEW bh \in [Ref -> Nat], bh[NULL] = 0, NEW p, NEW s,
           \A m \in M, d \in Side :
                 /\ m = p /\ d = s /\ t.color[m] = "red" => bh[m] = bh[t.kid[d][m]] + 1
                 /\ m = p /\ d = s /\ t.color[m] # "red" => bh[m] = bh[t.kid[d][m]] + 2
                 /\ ~(m = p /\ d = s) /\ t.color[m] = "red" => bh[m] = bh[t.kid[d][m]]
                 /\ ~(m = p /\ d = s) /\ t.color[m] # "red" => bh[m] = bh[t.kid[d][m]] + 1
    PROVE  Balanced(t, M, bh, p, s)
<1>1. SUFFICES ASSUME NEW m \in M, NEW d \in Side
      PROVE  bh[m] = bh[t.kid[d][m]] + Own(t, m) + (IF m = p /\ d = s THEN 1 ELSE 0)
  BY DEF Balanced
<1>3. m \in Ref /\ t.kid[d][m] \in Ref
  BY TreeFields DEF Ref
<1>4. bh[m] \in Nat /\ bh[t.kid[d][m]] \in Nat
  BY <1>3
<1>5. CASE t.color[m] = "red"
  <2>1. Own(t, m) = 0
    BY <1>5 DEF Own
  <2>2. CASE m = p /\ d = s
    BY <2>1, <2>2, <1>4, <1>5
  <2>3. CASE ~(m = p /\ d = s)
    BY <2>1, <2>3, <1>4, <1>5
  <2> QED BY <2>2, <2>3
<1>6. CASE t.color[m] # "red"
  <2>1. Own(t, m) = 1
    BY <1>6 DEF Own
  <2>2. CASE m = p /\ d = s
    BY <2>1, <2>2, <1>4, <1>6
  <2>3. CASE ~(m = p /\ d = s)
    BY <2>1, <2>3, <1>4, <1>6
  <2> QED BY <2>2, <2>3
<1> QED BY <1>5, <1>6

\* Case 2, the colors: the sibling turns red, and p black or short of one itself.
Fades(t, M, w, p, sib) ==
    /\ SameLinks(t, w)
    /\ \A m \in M : m # p => w.color[m] = IF m = sib THEN "red" ELSE t.color[m]
    /\ w.color[p] = "black"

\* Case 2 of an erasure moves the gap up, or closes it at a red node or the root.
LEMMA FadeBalance ==
    ASSUME NEW t, NEW M, NEW sub, NEW bh, NEW n, NEW p, NEW s, Gapped(t, M, sub, bh, n, p, s),
           NEW sib, Kid(t, Other(s), p, sib), t.color[sib] = "black",
           NEW w, Fades(t, M, w, p, sib), NEW q, Above(t, p, q)
    PROVE  /\ t.color[p] = "red" \/ q = NULL => \E B : Balanced(w, M, B, NULL, "left")
           /\ t.color[p] = "black" /\ q # NULL
              => \E e \in Side : \E B : t.kid[e][q] = p /\ Balanced(w, M, B, q, e)
<1>0. /\ t \in Tree /\ Shape(t, M, sub) /\ p \in M /\ s \in Side /\ Kid(t, s, p, n)
      /\ Balanced(t, M, bh, p, s) /\ M \subseteq Node /\ t.up[p] = q
  BY DEF Gapped, Shape, Above
<1> DEFINE o == Other(s)
<1>1. /\ t.kid[s][p] = n /\ t.kid[o][p] = sib
      /\ sib \in M /\ t.up[sib] = p /\ sib # p /\ sib # n /\ p # NULL /\ sib # NULL
      /\ o \in Side /\ o # s /\ \A d \in Side : d = s \/ d = o
  BY <1>0, GapFacts
<1>2. n # p /\ n # sib
  <2>1. n # NULL => n # p
    BY <1>0, <1>1, KidFacts
  <2> QED BY <2>1, <1>1
<1> HIDE DEF o
<1>3. /\ bh \in [Ref -> Nat] /\ bh[NULL] = 0
      /\ \A m \in M, d \in Side :
            /\ m \in Ref /\ t.kid[d][m] \in Ref /\ bh[m] \in Nat /\ bh[t.kid[d][m]] \in Nat
            /\ m = p /\ d = s /\ t.color[m] = "red" => bh[m] = bh[t.kid[d][m]] + 1
            /\ m = p /\ d = s /\ t.color[m] # "red" => bh[m] = bh[t.kid[d][m]] + 2
            /\ ~(m = p /\ d = s) /\ t.color[m] = "red" => bh[m] = bh[t.kid[d][m]]
            /\ ~(m = p /\ d = s) /\ t.color[m] # "red" => bh[m] = bh[t.kid[d][m]] + 1
  <2>1. Stepwise(t, M, bh, p, s)
    BY <1>0, BalanceFacts
  <2> QED BY <2>1 DEF Stepwise
<1>4. /\ w \in Tree /\ \A d \in Side, m \in M : w.kid[d][m] = t.kid[d][m]
      /\ \A m \in M : m # p => w.color[m] = IF m = sib THEN "red" ELSE t.color[m]
      /\ w.color[p] = "black"
  BY <1>0 DEF Fades, SameLinks
<1>5. /\ \A m \in M, d \in Side : t.kid[d][m] = sib => m = p /\ d = o
      /\ \A m \in M, d \in Side : t.kid[d][m] = p => m = q
      /\ \A d, e \in Side : q \in M /\ t.kid[d][q] = p /\ t.kid[e][q] = p => d = e
      /\ \A d \in Side : t.kid[d][sib] # sib
  <2>1. ASSUME NEW m \in M, NEW d \in Side, t.kid[d][m] = sib PROVE m = p /\ d = o
    <3>1. t.up[t.kid[d][m]] = m
      BY <2>1, <1>0, <1>1, KidFacts
    <3> QED BY <3>1, <2>1, <1>1
  <2>2. ASSUME NEW m \in M, NEW d \in Side, t.kid[d][m] = p PROVE m = q
    <3>1. t.up[t.kid[d][m]] = m
      BY <2>2, <1>0, <1>1, KidFacts
    <3> QED BY <3>1, <2>2, <1>0
  <2>3. ASSUME NEW d \in Side, NEW e \in Side, q \in M, t.kid[d][q] = p, t.kid[e][q] = p PROVE d = e
    <3>1. t.kid[Other(d)][q] # t.kid[d][q]
      BY <2>3, <1>0, <1>1, KidsApart
    <3> QED BY <3>1, <2>3, SideFacts
  <2>4. \A d \in Side : t.kid[d][sib] # sib
    BY <1>0, <1>1, KidFacts
  <2> QED BY <2>1, <2>2, <2>3, <2>4
<1>6. q # sib /\ \A d \in Side : t.kid[d][sib] # p
  <2>1. sib \in sub[p] /\ p \notin sub[sib]
    <3>1. t.kid[o][p] \in sub[p] /\ p \notin sub[t.kid[o][p]]
      BY <1>0, <1>1, KidFacts
    <3> QED BY <3>1, <1>1
  <2>2. ASSUME NEW d \in Side, t.kid[d][sib] = p PROVE FALSE
    <3>1. t.kid[d][sib] \in sub[sib]
      BY <2>2, <1>0, <1>1, KidFacts
    <3> QED BY <3>1, <2>1, <2>2
  <2>3. CASE q = NULL
    BY <2>2, <2>3, <1>1
  <2>4. CASE q # NULL
    <3>1. \E d \in Side : t.kid[d][q] = p
      BY <2>4, <1>0, UpFacts
    <3> QED BY <3>1, <2>2
  <2> QED BY <2>3, <2>4
<1>7. /\ p \in Ref /\ sib \in Ref /\ bh[p] \in Nat /\ bh[sib] \in Nat /\ bh[n] \in Nat /\ n \in Ref
      /\ bh[sib] = bh[n] + 1
  BY <1>0, <1>1, GapFacts, TreeFields DEF Ref
<1>8. CASE t.color[p] = "red"
  <2> DEFINE B == [r \in Ref |-> IF r = sib THEN bh[n] ELSE bh[r]]
  <2>1. B \in [Ref -> Nat] /\ B[NULL] = 0 /\ B[sib] = bh[n] /\ \A r \in Ref : r # sib => B[r] = bh[r]
    BY <1>1, <1>3, <1>7 DEF Ref
  <2> HIDE DEF B
  <2>2. ASSUME NEW m \in M, NEW d \in Side
        PROVE  /\ w.color[m] = "red" => B[m] = B[w.kid[d][m]]
               /\ w.color[m] # "red" => B[m] = B[w.kid[d][m]] + 1
    <3>1. CASE m = sib
      <4>1. bh[sib] = bh[t.kid[d][sib]] + 1 /\ B[t.kid[d][sib]] = bh[t.kid[d][sib]]
            /\ bh[t.kid[d][sib]] \in Nat
        BY <1>1, <1>3, <1>5, <2>1
      <4>2. w.color[m] = "red" /\ w.kid[d][m] = t.kid[d][sib]
        BY <3>1, <1>1, <1>4
      <4> QED BY <4>1, <4>2, <3>1, <1>7, <2>1
    <3>2. CASE m = p
      <4>1. bh[p] = bh[n] + 1 /\ B[p] = bh[p] /\ B[n] = bh[n]
        BY <1>0, <1>1, <1>2, <1>3, <1>7, <1>8, <2>1
      <4>2. w.kid[d][m] = n \/ w.kid[d][m] = sib
        BY <3>2, <1>1, <1>4
      <4> QED BY <4>1, <4>2, <3>2, <1>4, <1>7, <2>1
    <3>3. CASE m # sib /\ m # p
      <4>1. w.color[m] = t.color[m] /\ w.kid[d][m] = t.kid[d][m] /\ t.kid[d][m] # sib
        BY <3>3, <1>4, <1>5
      <4>2. B[m] = bh[m] /\ B[t.kid[d][m]] = bh[t.kid[d][m]]
        BY <4>1, <3>3, <1>3, <2>1
      <4> QED BY <4>1, <4>2, <3>3, <1>3
    <3> QED BY <3>1, <3>2, <3>3
  <2>3. \A m \in M : m # NULL
    BY <1>0, NullOutside
  <2>4. Balanced(w, M, B, NULL, "left")
    BY <2>1, <2>2, <2>3, <1>0, <1>4, BalanceFrom
  <2> QED BY <2>4, <1>8
<1>9. CASE t.color[p] = "black"
  <2> DEFINE B == [r \in Ref |-> IF r = sib THEN bh[n] ELSE IF r = p THEN bh[n] + 1 ELSE bh[r]]
  <2>1. bh[p] = bh[n] + 2
    BY <1>0, <1>1, <1>3, <1>9
  <2>2. /\ B \in [Ref -> Nat] /\ B[NULL] = 0 /\ B[sib] = bh[n] /\ B[p] = bh[n] + 1
        /\ \A r \in Ref : r # sib /\ r # p => B[r] = bh[r]
    BY <1>1, <1>3, <1>7 DEF Ref
  <2> HIDE DEF B
  <2>3. ASSUME NEW m \in M, NEW d \in Side
        PROVE  /\ t.kid[d][m] # p /\ w.color[m] = "red" => B[m] = B[w.kid[d][m]]
               /\ t.kid[d][m] # p /\ w.color[m] # "red" => B[m] = B[w.kid[d][m]] + 1
               /\ t.kid[d][m] = p /\ w.color[m] = "red" => B[m] = B[w.kid[d][m]] + 1
               /\ t.kid[d][m] = p /\ w.color[m] # "red" => B[m] = B[w.kid[d][m]] + 2
    <3>1. CASE m = sib
      <4>1. bh[sib] = bh[t.kid[d][sib]] + 1 /\ B[t.kid[d][sib]] = bh[t.kid[d][sib]]
            /\ bh[t.kid[d][sib]] \in Nat /\ t.kid[d][m] # p
        BY <3>1, <1>1, <1>3, <1>5, <1>6, <2>2
      <4>2. w.color[m] = "red" /\ w.kid[d][m] = t.kid[d][sib]
        BY <3>1, <1>1, <1>4
      <4> QED BY <4>1, <4>2, <3>1, <1>7, <2>2
    <3>2. CASE m = p
      <4>1. B[n] = bh[n] /\ t.kid[d][m] # p
        BY <3>2, <1>1, <1>2, <1>7, <2>2
      <4>2. w.kid[d][m] = n \/ w.kid[d][m] = sib
        BY <3>2, <1>1, <1>4
      <4> QED BY <4>1, <4>2, <3>2, <1>4, <1>7, <2>2
    <3>3. CASE m # sib /\ m # p
      <4>1. /\ w.color[m] = t.color[m] /\ w.kid[d][m] = t.kid[d][m] /\ t.kid[d][m] # sib
            /\ B[m] = bh[m] /\ bh[m] \in Nat /\ bh[t.kid[d][m]] \in Nat
        BY <3>3, <1>3, <1>4, <1>5, <2>2
      <4>2. CASE t.kid[d][m] = p
        <5>1. B[p] + 1 = bh[p] /\ B[p] \in Nat
          BY <2>1, <2>2, <1>7
        <5> QED BY <4>1, <4>2, <5>1, <3>3, <1>3
      <4>3. CASE t.kid[d][m] # p
        <5>1. B[t.kid[d][m]] = bh[t.kid[d][m]]
          BY <4>1, <4>3, <1>3, <2>2
        <5> QED BY <4>1, <4>3, <5>1, <3>3, <1>3
      <4> QED BY <4>2, <4>3
    <3> QED BY <3>1, <3>2, <3>3
  <2>4. CASE q = NULL
    <3>1. \A m \in M, d \in Side : t.kid[d][m] # p /\ m # NULL
      BY <2>4, <1>0, <1>5, NullOutside
    <3>2. Balanced(w, M, B, NULL, "left")
      BY <3>1, <2>2, <2>3, <1>0, <1>4, BalanceFrom
    <3> QED BY <3>2, <2>4
  <2>5. CASE q # NULL
    <3>1. q \in M /\ \E e \in Side : t.kid[e][q] = p
      BY <2>5, <1>0, UpFacts
    <3>2. PICK e \in Side : t.kid[e][q] = p
      BY <3>1
    <3>3. \A m \in M, d \in Side : t.kid[d][m] = p <=> m = q /\ d = e
      BY <3>1, <3>2, <1>5
    <3>4. Balanced(w, M, B, q, e)
      BY <3>3, <2>2, <2>3, <1>0, <1>4, BalanceFrom
    <3> QED BY <3>2, <3>4, <2>5, <1>9
  <2> QED BY <2>4, <2>5, <1>9
<1>10. t.color[p] \in Color
  BY <1>0, TreeFields
<1> QED BY <1>8, <1>9, <1>10 DEF Color

\* And it makes no two reds adjacent when the sibling has no red child.
LEMMA FadeColors ==
    ASSUME NEW t, NEW M, NEW sub, NEW bh, NEW n, NEW p, NEW s, Gapped(t, M, sub, bh, n, p, s),
           NEW sib, Kid(t, Other(s), p, sib), \A d \in Side : ~IsRed(t, t.kid[d][sib]),
           NEW w, Fades(t, M, w, p, sib)
    PROVE  NoRedPair(w, M, NULL) /\ ~IsRed(w, w.root)
<1>0. /\ t \in Tree /\ Shape(t, M, sub) /\ p \in M /\ s \in Side /\ Kid(t, s, p, n)
      /\ Balanced(t, M, bh, p, s) /\ M \subseteq Node /\ NULL \notin Node
      /\ NoRedPair(t, M, NULL) /\ ~IsRed(t, t.root)
  BY NullOutside DEF Gapped, Shape
<1>1. sib \in M /\ t.up[sib] = p /\ sib # p /\ sib # t.root
  BY <1>0, GapFacts
<1>2. /\ w.root = t.root /\ \A d \in Side, m \in M : w.kid[d][m] = t.kid[d][m]
      /\ \A m \in M : m # p => w.color[m] = IF m = sib THEN "red" ELSE t.color[m]
      /\ w.color[p] = "black"
  BY <1>0 DEF Fades, SameLinks
<1>3. ASSUME NEW m \in M, NEW d \in Side, w.color[m] = "red", IsRed(w, t.kid[d][m])
      PROVE  FALSE
  <2> DEFINE c == t.kid[d][m]
  <2>1. c # NULL /\ c \in M /\ t.up[c] = m /\ c # m
    <3>1. t.kid[d][m] # NULL
      BY <1>3 DEF IsRed
    <3> QED BY <3>1, <1>0, KidFacts
  <2> HIDE DEF c
  <2>2. w.color[c] = "red"
    BY <1>3 DEF IsRed, c
  <2>3. c # p /\ m # p
    BY <1>2, <1>3, <2>2
  <2>4. c # sib
    BY <1>1, <2>1, <2>3
  <2>5. t.color[c] = "red"
    BY <1>2, <2>1, <2>2, <2>3, <2>4
  <2>6. IsRed(t, t.kid[d][m]) /\ t.kid[d][m] # NULL
    BY <2>1, <2>5 DEF IsRed, c
  <2>7. CASE m = sib
    BY <2>6, <2>7
  <2>8. CASE m # sib
    <3>1. t.color[m] = "red"
      BY <2>3, <2>8, <1>2, <1>3
    <3> QED BY <3>1, <2>6, <1>0 DEF NoRedPair
  <2> QED BY <2>7, <2>8
<1>4. NoRedPair(w, M, NULL)
  BY <1>2, <1>3 DEF NoRedPair
<1>5. ~IsRed(w, w.root)
  <2>1. M # {} /\ t.root \in M /\ t.root # NULL
    BY <1>0 DEF Shape
  <2>2. t.color[t.root] # "red"
    BY <1>0, <2>1 DEF IsRed
  <2>3. w.color[t.root] # "red"
    BY <1>1, <1>2, <2>1, <2>2
  <2> QED BY <2>3, <1>2 DEF IsRed
<1> QED BY <1>4, <1>5

\* Case 2.
LEMMA FadeSound ==
    ASSUME NEW t, NEW M, NEW sub, NEW bh, NEW n, NEW p, NEW s, Gapped(t, M, sub, bh, n, p, s),
           NEW sib, Kid(t, Other(s), p, sib), ~IsRed(t, sib),
           \A d \in Side : ~IsRed(t, t.kid[d][sib])
    PROVE  LET w == SetParentColor(t, sib, p, "red")
           IN  /\ SameLinks(t, w) /\ w.color[p] = t.color[p]
               /\ t.color[p] = "red" => /\ Sound(SetBlack(w, p), M)
                                        /\ \A m \in Node : SetBlack(w, p).up[m] = t.up[m]
               /\ t.color[p] # "red" /\ t.up[p] = NULL => Sound(w, M)
               /\ t.color[p] # "red" /\ t.up[p] # NULL => EraseReady(w, M, sub, p, t.up[p])
<1> DEFINE w == SetParentColor(t, sib, p, "red")
           z == SetBlack(w, p)
<1>0. /\ t \in Tree /\ Shape(t, M, sub) /\ p \in M /\ s \in Side /\ Kid(t, s, p, n)
      /\ Balanced(t, M, bh, p, s) /\ M \subseteq Node /\ NULL \notin Node
  BY NullOutside DEF Gapped, Shape
<1>1. /\ sib \in M /\ sib \in Node /\ t.up[sib] = p /\ sib # p /\ sib # NULL /\ p \in Node
      /\ sib \in Ref /\ p \in Ref /\ "red" \in Color
  BY <1>0, GapFacts DEF Color, Ref
<1>2. t.color[sib] = "black" /\ t.color[p] \in Color
  <2>1. t.color[sib] \in Color /\ t.color[p] \in Color
    BY <1>0, <1>1, TreeFields
  <2> QED BY <2>1, <1>1 DEF IsRed, Color
<1>3. Painted(t, w, sib, p, "red")
  BY <1>0, <1>1, PaintedIs
<1> HIDE DEF w
<1>4. SameLinks(t, w)
  BY <1>1, <1>3 DEF SameLinks, Painted
<1>5. w.color[p] = t.color[p]
  BY <1>1, <1>3 DEF Painted
<1>6. w \in Tree /\ \A m \in Node : m # sib => w.color[m] = t.color[m]
  BY <1>3 DEF Painted
<1>7. w.color[sib] = "red"
  BY <1>1, <1>3 DEF Painted
<1>8. PICK q : Above(t, p, q)
  BY DEF Above
<1>9. t.up[p] = q
  BY <1>8 DEF Above
<1>10. CASE t.color[p] = "red"
  <2>1. /\ z \in Tree /\ z.root = w.root /\ z.kid = w.kid /\ z.up = w.up
        /\ \A m \in Node : z.color[m] = IF m = p THEN "black" ELSE w.color[m]
    BY <1>1, <1>6, SetBlackIs
  <2> HIDE DEF z
  <2>2. SameLinks(t, z)
    BY <1>4, <2>1 DEF SameLinks
  <2>3. Fades(t, M, z, p, sib)
    <3>1. z.color[p] = "black"
      BY <1>1, <2>1
    <3>2. ASSUME NEW m \in M, m # p PROVE z.color[m] = IF m = sib THEN "red" ELSE t.color[m]
      BY <3>2, <1>0, <1>6, <1>7, <2>1
    <3> QED BY <2>2, <3>1, <3>2 DEF Fades
  <2>4. NoRedPair(z, M, NULL) /\ ~IsRed(z, z.root)
    BY <2>3, FadeColors
  <2>5. \E B : Balanced(z, M, B, NULL, "left")
    BY <2>3, <1>2, <1>8, <1>10, FadeBalance
  <2>6. Shape(z, M, sub)
    BY <2>2, <1>0, SameLinksShape
  <2>7. Sound(z, M) /\ \A m \in Node : z.up[m] = t.up[m]
    BY <2>1, <2>2, <2>4, <2>5, <2>6 DEF Sound, SameLinks
  <2> QED BY <2>7, <1>4, <1>5, <1>10 DEF z, w
<1>11. CASE t.color[p] # "red"
  <2>1. t.color[p] = "black" /\ w.color[p] = "black"
    BY <1>2, <1>5, <1>11 DEF Color
  <2>2. Fades(t, M, w, p, sib)
    <3>1. ASSUME NEW m \in M, m # p PROVE w.color[m] = IF m = sib THEN "red" ELSE t.color[m]
      BY <3>1, <1>0, <1>6, <1>7
    <3> QED BY <3>1, <2>1, <1>4 DEF Fades
  <2>3. NoRedPair(w, M, NULL) /\ ~IsRed(w, w.root)
    BY <2>2, FadeColors
  <2>4. Shape(w, M, sub)
    BY <1>0, <1>4, SameLinksShape
  <2>5. CASE q = NULL
    <3>1. \E B : Balanced(w, M, B, NULL, "left")
      BY <2>2, <2>5, <1>2, <1>8, FadeBalance
    <3>2. Sound(w, M)
      BY <3>1, <2>3, <2>4, <1>6 DEF Sound
    <3> QED BY <3>2, <2>5, <1>4, <1>5, <1>9, <1>11 DEF w
  <2>6. CASE q # NULL
    <3>1. PICK e \in Side : \E B : t.kid[e][q] = p /\ Balanced(w, M, B, q, e)
      BY <2>1, <2>2, <2>6, <1>2, <1>8, FadeBalance
    <3>2. q \in M /\ w.kid[e][q] = p
      <4>1. q \in M /\ q \in Node
        BY <2>6, <1>0, <1>9, UpFacts
      <4> QED BY <4>1, <3>1, <1>4 DEF SameLinks
    <3>3. ~IsRed(w, p)
      BY <2>1 DEF IsRed
    <3>4. EraseReady(w, M, sub, p, q)
      BY <3>1, <3>2, <3>3, <2>3, <2>4, <1>6 DEF EraseReady
    <3> QED BY <3>4, <2>6, <1>4, <1>5, <1>9, <1>11 DEF w
  <2> QED BY <2>5, <2>6
<1> QED BY <1>10, <1>11

\* Cases 3 and 4, the last rotation: the red node far pays for the gap.
LEMMA FillEnd ==
    ASSUME NEW t, NEW M, NEW sub, NEW bh, NEW n, NEW p, NEW s, Gapped(t, M, sub, bh, n, p, s),
           NEW y, Kid(t, Other(s), p, y), t.color[y] = "black",
           NEW far, Kid(t, Other(s), y, far), IsRed(t, far),
           NEW w, HalfTurned(t, w, p, Other(s)),
           \A m \in M : m # y => w.color[m] = IF m = far THEN "black" ELSE t.color[m]
    PROVE  LET u == RotateSetParents(w, p, y, "black")
           IN  Sound(u, M) /\ \A m \in Node \ M : u.up[m] = t.up[m]
<1> DEFINE o == Other(s)
           u == RotateSetParents(w, p, y, "black")
<1>0. /\ t \in Tree /\ Shape(t, M, sub) /\ p \in M /\ s \in Side /\ Kid(t, s, p, n)
      /\ Balanced(t, M, bh, p, s) /\ M \subseteq Node /\ NULL \notin Node
      /\ NoRedPair(t, M, NULL) /\ ~IsRed(t, t.root)
  BY NullOutside DEF Gapped, Shape
<1>1. /\ t.kid[o][p] = y /\ y \in M /\ y # p /\ y # NULL /\ p \in Node
      /\ o \in Side /\ Other(o) = s /\ "black" \in Color
  BY <1>0, GapFacts DEF Color
<1>2. t.kid[o][y] = far /\ far # NULL
  BY DEF Kid, IsRed
<1>3. far \in M /\ far # y /\ far # p /\ t.up[far] = y
  <2>1. far \in M /\ far # y /\ t.up[far] = y
    BY <1>0, <1>1, <1>2, KidFacts
  <2>2. p \notin sub[y]
    <3>1. p \notin sub[t.kid[o][p]]
      BY <1>0, <1>1, KidFacts
    <3> QED BY <3>1, <1>1
  <2>3. far \in sub[y]
    <3>1. t.kid[o][y] \in sub[y]
      BY <1>0, <1>1, <1>2, KidFacts
    <3> QED BY <3>1, <1>2
  <2> QED BY <2>1, <2>2, <2>3
<1> HIDE DEF o
<1>4. /\ Rotated(t, u, p, o)
      /\ \A m \in Node : u.color[m] = IF m = p THEN "black" ELSE IF m = y THEN w.color[p] ELSE w.color[m]
  <2> DEFINE z == t.kid[o][p]
             r == RotateSetParents(w, p, z, "black")
  <2>1. z # NULL /\ HalfTurned(t, w, p, o)
    BY <1>1 DEF o
  <2>2. /\ Rotated(t, r, p, o)
        /\ \A m \in Node : r.color[m] = IF m = p THEN "black" ELSE IF m = z THEN w.color[p] ELSE w.color[m]
    BY <2>1, <1>0, <1>1, FinishRotation
  <2>3. z = y
    BY <1>1
  <2> HIDE DEF z
  <2> QED BY <2>2, <2>3
<1> HIDE DEF u
<1>5. Kid(t, o, p, y) /\ Kid(t, Other(o), y, t.kid[s][y])
  BY <1>1 DEF Kid
<1>6. u \in Tree /\ \A m \in Node \ M : u.up[m] = t.up[m]
  BY <1>0, <1>1, <1>4, <1>5, RotatedNear
<1>7. /\ u.color[p] = "black" /\ u.color[y] = t.color[p] /\ u.color[far] = "black"
      /\ \A m \in M : m # p /\ m # y /\ m # far => u.color[m] = t.color[m]
  BY <1>0, <1>1, <1>3, <1>4
<1>8. Sound(u, M)
  <2> DEFINE z == t.kid[o][p]
             f == t.kid[o][z]
  <2>1. z = y /\ f = far
    BY <1>1, <1>2 DEF o
  <2>2. /\ z # NULL /\ IsRed(t, f) /\ t.color[z] = "black" /\ u.color[z] = t.color[p]
        /\ u.color[f] = "black" /\ Balanced(t, M, bh, p, Other(o))
        /\ \A m \in M : m # p /\ m # z /\ m # f => u.color[m] = t.color[m]
    BY <2>1, <1>0, <1>1, <1>7
  <2>3. Kid(t, o, p, z) /\ Kid(t, o, z, f) /\ u.color[p] = "black"
    BY <1>7 DEF Kid
  <2> HIDE DEF f
  <2> QED BY <2>2, <2>3, <1>0, <1>1, <1>4, GapRotation
<1> QED BY <1>6, <1>8 DEF u

\* Case 4 of an erasure closes the gap.
LEMMA FillStraight ==
    ASSUME NEW t, NEW M, NEW sub, NEW bh, NEW n, NEW p, NEW s, Gapped(t, M, sub, bh, n, p, s),
           ~IsRed(t, t.kid[Other(s)][p]), IsRed(t, t.kid[Other(s)][t.kid[Other(s)][p]])
    PROVE  LET u == FillGap(t, p, s)
           IN  Sound(u, M) /\ \A m \in Node \ M : u.up[m] = t.up[m]
<1>0. /\ t \in Tree /\ Shape(t, M, sub) /\ p \in M /\ s \in Side /\ Kid(t, s, p, n)
      /\ Balanced(t, M, bh, p, s) /\ M \subseteq Node /\ NULL \notin Node
  BY NullOutside DEF Gapped, Shape
<1>1. PICK y : Kid(t, Other(s), p, y)
  BY DEF Kid
<1>2. PICK far : Kid(t, Other(s), y, far)
  BY DEF Kid
<1> DEFINE o == Other(s)
           mid == t.kid[s][y]
           a == Turn(t, p, y, o)
           t3 == SetParentColor(a, far, y, "black")
           w == SetParent(t3, mid, p)
           u == RotateSetParents(w, p, y, "black")
<1>3. /\ t.kid[o][p] = y /\ y \in M /\ y \in Node /\ y # p /\ y # NULL /\ p \in Node
      /\ o \in Side /\ Other(o) = s /\ "black" \in Color /\ o # s
      /\ \A d \in Side : d = s \/ d = o
  BY <1>0, <1>1, GapFacts DEF Color
<1>4. t.kid[o][y] = far /\ IsRed(t, far) /\ far # NULL /\ ~IsRed(t, y)
  BY <1>2, <1>3 DEF Kid, IsRed
<1>5. far \in M /\ far # y /\ t.up[far] = y
  BY <1>0, <1>3, <1>4, KidFacts
<1>6. t.color[y] = "black"
  <2>1. t.color[y] \in Color
    BY <1>0, <1>3, TreeFields
  <2> QED BY <2>1, <1>3, <1>4 DEF IsRed, Color
<1>7. mid \in Ref /\ far \in Ref /\ y \in Ref /\ p \in Ref /\ far \in Node
  BY <1>0, <1>3, <1>5, TreeFields DEF Ref
<1>8. KidsTurned(t, a, p, y, o)
  BY <1>0, <1>3, TurnIs
<1>9. FillGap(t, p, s) = u
  BY <1>3, <1>4 DEF FillGap
<1>10. t.kid[s][y] = mid
  OBVIOUS
<1> HIDE DEF o, mid, a
<1>11. /\ a \in Tree /\ a.root = t.root
       /\ \A d \in Side, m \in Node :
             a.kid[d][m] = IF d = o /\ m = p THEN mid ELSE IF d = s /\ m = y THEN p ELSE t.kid[d][m]
       /\ \A m \in Node : a.up[m] = t.up[m] /\ a.color[m] = t.color[m]
  BY <1>3, <1>8, <1>10 DEF KidsTurned
<1>12. Painted(a, t3, far, y, "black")
  BY <1>3, <1>7, <1>11, PaintedIs
<1> HIDE DEF t3
<1>13. t3 \in Tree
  BY <1>12 DEF Painted
<1>14. ParentSet(t3, w, mid, p)
  BY <1>7, <1>13, ParentSetIs
<1> HIDE DEF w, u
<1>15. w \in Tree /\ w.root = t.root
  BY <1>11, <1>12, <1>14 DEF Painted, ParentSet
<1>16. ASSUME NEW m \in Node
       PROVE  /\ w.up[m] = IF m = mid THEN p ELSE t.up[m]
              /\ w.color[m] = IF m = far THEN "black" ELSE t.color[m]
  <2>1. /\ w.up[m] = IF m = mid THEN p ELSE t3.up[m]
        /\ w.color[m] = t3.color[m]
    BY <1>14 DEF ParentSet
  <2>2. t3.up[m] = IF m = far THEN y ELSE a.up[m]
    BY <1>12 DEF Painted
  <2>3. t3.color[m] = IF m = far THEN "black" ELSE a.color[m]
    BY <1>12 DEF Painted
  <2>4. a.up[m] = t.up[m] /\ a.color[m] = t.color[m]
    BY <1>11
  <2> QED BY <2>1, <2>2, <2>3, <2>4, <1>5
<1>17. ASSUME NEW d \in Side, NEW m \in Node
       PROVE  w.kid[d][m] = IF m = p /\ d = o THEN mid ELSE IF m = y /\ d = s THEN p ELSE t.kid[d][m]
  <2>1. w.kid[d][m] = t3.kid[d][m]
    BY <1>14 DEF ParentSet
  <2>2. t3.kid[d][m] = a.kid[d][m]
    BY <1>12 DEF Painted
  <2> QED BY <2>1, <2>2, <1>11
<1>18. HalfTurned(t, w, p, o)
  BY <1>3, <1>10, <1>15, <1>16, <1>17 DEF HalfTurned
<1>19. \A m \in M : m # y => w.color[m] = IF m = far THEN "black" ELSE t.color[m]
  BY <1>0, <1>16
<1>20. Sound(u, M) /\ \A m \in Node \ M : u.up[m] = t.up[m]
  BY <1>1, <1>2, <1>4, <1>6, <1>18, <1>19, FillEnd DEF u, o
<1> QED BY <1>9, <1>20

\* The two turns of an inner red node, as the removal writes them.
LEMMA EraseInner ==
    ASSUME NEW t \in Tree, NEW M, NEW sub, Shape(t, M, sub), NEW g \in M, NEW s \in Side,
           NEW p, Kid(t, s, g, p), p # NULL, NEW n, Kid(t, Other(s), p, n), n # NULL,
           NEW mid, Kid(t, s, n, mid), NEW low, Kid(t, Other(s), n, low),
           mid # NULL => t.color[mid] = "black"
    PROVE  LET t2 == SetParentColor([Turn(t, p, n, Other(s)) EXCEPT !.kid[s][g] = n], mid, p, "black")
               w == SetParent(SetParentColor(Turn(t2, g, n, s), p, n, "black"), low, g)
           IN  /\ t2.kid[Other(s)][n] = low
               /\ DoubleTurned(t, w, g, p, n, mid, low, s)
               /\ \A m \in Node : w.color[m] = IF m = p THEN "black" ELSE t.color[m]
<1> DEFINE o == Other(s)
           a == Turn(t, p, n, o)
           b == [a EXCEPT !.kid[s][g] = n]
           t2 == SetParentColor(b, mid, p, "black")
           c == Turn(t2, g, n, s)
           t3 == SetParentColor(c, p, n, "black")
           w == SetParent(t3, low, g)
<1>1. /\ t.kid[o][p] = n /\ t.kid[s][g] = p /\ t.kid[s][n] = mid /\ t.kid[o][n] = low
      /\ o \in Side /\ o # s /\ Other(o) = s
      /\ p \in Node /\ g \in Node /\ g # p /\ g # n
      /\ n \in Node /\ p # n
      /\ mid # n /\ mid # p /\ mid # g
      /\ low # n /\ low # p /\ low # g /\ (low # NULL => low # mid)
      /\ mid \in Ref /\ low \in Ref /\ p \in Ref /\ n \in Ref /\ g \in Ref
  BY DoubleFacts
<1>2. "black" \in Color
  BY DEF Color
<1>3. \A m \in Node : m = mid => t.color[m] = "black"
  BY NullOutside
<1>5. KidsTurned(t, a, p, n, o)
  BY <1>1, TurnIs
<1> HIDE DEF o, a
<1>6. /\ a \in Tree /\ a.root = t.root
      /\ \A d \in Side, m \in Node :
            a.kid[d][m] = IF m = p /\ d = o THEN mid ELSE IF m = n /\ d = s THEN p ELSE t.kid[d][m]
      /\ \A m \in Node : a.up[m] = t.up[m] /\ a.color[m] = t.color[m]
  BY <1>1, <1>5 DEF KidsTurned
<1>7. KidSet(a, b, s, g, n)
  BY <1>1, <1>6, KidSetIs
<1> HIDE DEF b
<1>8. b \in Tree
  BY <1>7 DEF KidSet
<1>9. Painted(b, t2, mid, p, "black")
  BY <1>1, <1>2, <1>8, PaintedIs
<1> HIDE DEF t2
<1>10. t2 \in Tree /\ t2.root = t.root
  BY <1>6, <1>7, <1>9 DEF KidSet, Painted
<1>11. ASSUME NEW d \in Side, NEW m \in Node
       PROVE  t2.kid[d][m] = IF m = p /\ d = o THEN mid ELSE IF m = n /\ d = s THEN p
                             ELSE IF m = g /\ d = s THEN n ELSE t.kid[d][m]
  <2>1. t2.kid[d][m] = b.kid[d][m]
    BY <1>9 DEF Painted
  <2>2. b.kid[d][m] = IF d = s /\ m = g THEN n ELSE a.kid[d][m]
    BY <1>7 DEF KidSet
  <2>3. a.kid[d][m] = IF m = p /\ d = o THEN mid ELSE IF m = n /\ d = s THEN p ELSE t.kid[d][m]
    BY <1>6
  <2> QED BY <2>1, <2>2, <2>3, <1>1
<1>12. ASSUME NEW m \in Node
       PROVE  t2.up[m] = (IF m = mid THEN p ELSE t.up[m]) /\ t2.color[m] = t.color[m]
  <2>1. t2.up[m] = IF m = mid THEN p ELSE b.up[m]
    BY <1>9 DEF Painted
  <2>2. t2.color[m] = IF m = mid THEN "black" ELSE b.color[m]
    BY <1>9 DEF Painted
  <2>3. b.up[m] = a.up[m] /\ b.color[m] = a.color[m]
    BY <1>7 DEF KidSet
  <2> QED BY <2>1, <2>2, <2>3, <1>3, <1>6
<1>13. t2.kid[o][n] = low
  BY <1>1, <1>11
<1>14. KidsTurned(t2, c, g, n, s)
  BY <1>1, <1>10, TurnIs
<1> HIDE DEF c
<1>15. c \in Tree /\ c.root = t.root
  BY <1>10, <1>14 DEF KidsTurned
<1>16. Painted(c, t3, p, n, "black")
  BY <1>1, <1>2, <1>15, PaintedIs
<1> HIDE DEF t3
<1>17. t3 \in Tree /\ t3.root = t.root
  BY <1>15, <1>16 DEF Painted
<1>18. ParentSet(t3, w, low, g)
  BY <1>1, <1>17, ParentSetIs
<1> HIDE DEF w
<1>19. w \in Tree /\ w.root = t.root
  BY <1>17, <1>18 DEF ParentSet
<1>20. ASSUME NEW m \in Node
       PROVE  /\ w.up[m] = IF m = low THEN g ELSE IF m = p THEN n ELSE IF m = mid THEN p ELSE t.up[m]
              /\ w.color[m] = IF m = p THEN "black" ELSE t.color[m]
  <2>1. w.up[m] = (IF m = low THEN g ELSE t3.up[m]) /\ w.color[m] = t3.color[m]
    BY <1>18 DEF ParentSet
  <2>2. t3.up[m] = IF m = p THEN n ELSE c.up[m]
    BY <1>16 DEF Painted
  <2>3. t3.color[m] = IF m = p THEN "black" ELSE c.color[m]
    BY <1>16 DEF Painted
  <2>4. c.up[m] = t2.up[m] /\ c.color[m] = t2.color[m]
    BY <1>14 DEF KidsTurned
  <2> QED BY <2>1, <2>2, <2>3, <2>4, <1>12
<1>21. ASSUME NEW m \in Node
       PROVE  w.up[m] = IF m = p THEN n ELSE IF m = mid THEN p ELSE IF m = low THEN g ELSE t.up[m]
  BY <1>1, <1>20, NullOutside
<1>22. ASSUME NEW d \in Side, NEW m \in Node
       PROVE  w.kid[d][m] = IF m = p /\ d = o THEN mid
                            ELSE IF m = n /\ d = s THEN p
                            ELSE IF m = g /\ d = s THEN low
                            ELSE IF m = n /\ d = o THEN g ELSE t.kid[d][m]
  <2>1. w.kid[d][m] = t3.kid[d][m]
    BY <1>18 DEF ParentSet
  <2>2. t3.kid[d][m] = c.kid[d][m]
    BY <1>16 DEF Painted
  <2>3. c.kid[d][m] = IF d = s /\ m = g THEN t2.kid[o][n]
                      ELSE IF d = o /\ m = n THEN g ELSE t2.kid[d][m]
    BY <1>14 DEF KidsTurned, o
  <2>4. g # p /\ g # n /\ p # n /\ o # s
    BY <1>1
  <2> QED BY <2>1, <2>2, <2>3, <2>4, <1>11, <1>13
<1>23. DoubleTurned(t, w, g, p, n, mid, low, s)
  BY <1>19, <1>21, <1>22 DEF DoubleTurned, o
<1> QED BY <1>13, <1>20, <1>23 DEF o, a, b, c, w, t2, t3

\* Cases 3 and 4 of an erasure close the gap.
LEMMA FillDouble ==
    ASSUME NEW t, NEW M, NEW sub, NEW bh, NEW n, NEW p, NEW s, Gapped(t, M, sub, bh, n, p, s),
           NEW y, Kid(t, Other(s), p, y), ~IsRed(t, y), ~IsRed(t, t.kid[Other(s)][y]),
           NEW near, Kid(t, s, y, near), IsRed(t, near)
    PROVE  LET u == FillGap(t, p, s)
           IN  Sound(u, M) /\ \A m \in Node \ M : u.up[m] = t.up[m]
<1>0. /\ t \in Tree /\ Shape(t, M, sub) /\ p \in M /\ s \in Side /\ Kid(t, s, p, n)
      /\ Balanced(t, M, bh, p, s) /\ M \subseteq Node /\ NULL \notin Node
      /\ NoRedPair(t, M, NULL) /\ ~IsRed(t, t.root) /\ ~IsRed(t, n)
  BY NullOutside DEF Gapped, Shape
<1> DEFINE o == Other(s)
           mid == t.kid[o][near]
           low == t.kid[s][near]
           t2 == SetParentColor([Turn(t, y, near, s) EXCEPT !.kid[o][p] = near], mid, y, "black")
           w == SetParent(SetParentColor(Turn(t2, p, near, o), y, near, "black"), low, p)
           u == RotateSetParents(w, p, near, "black")
<1>1. /\ t.kid[o][p] = y /\ y \in M /\ y \in Node /\ y # p /\ y # NULL /\ p \in Node /\ y # n
      /\ o \in Side /\ Other(o) = s /\ o # s /\ t.kid[s][p] = n /\ n \in Ref
      /\ \A d \in Side : d = s \/ d = o
  BY <1>0, GapFacts
<1>2. t.kid[s][y] = near /\ near # NULL /\ t.color[near] = "red"
  BY DEF Kid, IsRed
<1>3. /\ Kid(t, o, p, y) /\ Kid(t, Other(o), y, near) /\ Kid(t, o, near, mid)
      /\ Kid(t, Other(o), near, low) /\ Kid(t, s, y, near)
  BY <1>1, <1>2 DEF Kid
<1>4. near \in M /\ near \in Node /\ near # y /\ near # p /\ mid \in Ref /\ mid # near
      /\ (mid # NULL => mid \in Node)
  BY <1>0, <1>1, <1>2, <1>3, DoubleFacts
<1>5. t.color[y] = "black"
  <2>1. t.color[y] \in Color
    BY <1>0, <1>1, TreeFields
  <2> QED BY <2>1, <1>1 DEF IsRed, Color
<1>6. ~IsRed(t, mid) /\ (mid # NULL => t.color[mid] = "black")
  <2>1. ~IsRed(t, mid)
    <3>1. IsRed(t, t.kid[o][near]) => t.kid[o][near] = NULL
      BY <1>0, <1>1, <1>2, <1>4 DEF NoRedPair
    <3> QED BY <3>1 DEF IsRed
  <2>2. mid # NULL => t.color[mid] \in Color
    BY <1>0, <1>4, TreeFields
  <2> QED BY <2>1, <2>2 DEF IsRed, Color
<1> HIDE DEF mid, low
<1>7. /\ t2.kid[s][near] = low
      /\ DoubleTurned(t, w, p, y, near, mid, low, o)
      /\ \A m \in Node : w.color[m] = IF m = y THEN "black" ELSE t.color[m]
  <2>1. LET a2 == SetParentColor([Turn(t, y, near, Other(o)) EXCEPT !.kid[o][p] = near], mid, y, "black")
            v == SetParent(SetParentColor(Turn(a2, p, near, o), y, near, "black"), low, p)
        IN  /\ a2.kid[Other(o)][near] = low
            /\ DoubleTurned(t, v, p, y, near, mid, low, o)
            /\ \A m \in Node : v.color[m] = IF m = y THEN "black" ELSE t.color[m]
    <3> HIDE DEF o
    <3> QED BY <1>0, <1>1, <1>2, <1>3, <1>6, EraseInner
  <2> QED BY <2>1, <1>1
<1>8. FillGap(t, p, s) = u
  BY <1>1, <1>2, <1>7 DEF FillGap, mid
<1> HIDE DEF w, t2, o
<1>9. PICK v : /\ Rotated(t, v, y, s)
               /\ \A m \in Node : v.color[m] = IF m = y THEN "red"
                                               ELSE IF m = near THEN t.color[y] ELSE t.color[m]
  BY <1>0, <1>1, <1>2, <1>3, RotationExists DEF Color
<1>10. v.color[y] = "red" /\ v.color[near] = "black"
       /\ \A m \in M : m # y /\ m # near => v.color[m] = t.color[m]
  BY <1>0, <1>1, <1>4, <1>5, <1>9
<1>11. v.kid[o][p] = near /\ v.kid[Other(o)][near] = low /\ HalfTurned(v, w, p, o)
  <2>1. Rotated(t, v, y, Other(o))
    BY <1>1, <1>9
  <2> QED BY <2>1, <1>0, <1>1, <1>2, <1>3, <1>7, DoubleTurn
<1>12. /\ v \in Tree /\ v.kid[o][near] = y /\ v.kid[s][p] = n
       /\ \A m \in Node \ M : v.up[m] = t.up[m]
  <2>1. Kid(t, Other(s), near, mid) /\ Other(s) = o
    BY <1>3 DEF o
  <2>2. /\ v \in Tree /\ v.kid[Other(s)][near] = y
        /\ \A d \in Side, m \in M :
              m # y /\ m # near => v.kid[d][m] = IF t.kid[d][m] = y THEN near ELSE t.kid[d][m]
        /\ \A m \in Node \ M : v.up[m] = t.up[m]
    BY <2>1, <1>0, <1>1, <1>2, <1>3, <1>9, RotatedNear
  <2> QED BY <2>1, <2>2, <1>0, <1>1, <1>4
<1>13. \E S, B : /\ Shape(v, M, S) /\ Balanced(v, M, B, p, s)
                 /\ NoRedPair(v, M, NULL) /\ ~IsRed(v, v.root)
  <2> DEFINE z == t.kid[s][y]
  <2>1. z = near
    BY <1>2
  <2>2. /\ z # NULL /\ p # z /\ ~(p = y /\ s = s) /\ t.color[z] = "red" /\ v.color[z] = "black"
        /\ \A m \in M : m # y /\ m # z => v.color[m] = t.color[m]
    BY <2>1, <1>1, <1>2, <1>4, <1>10
  <2>3. /\ Shape(v, M, Turned(sub, y, z, s))
        /\ Balanced(v, M, Swapped(bh, y, z), p, s)
        /\ \A q : /\ NoRedPair(t, M, q) /\ (q = NULL \/ t.up[q] = z)
                  /\ ~IsRed(t, t.kid[Other(s)][y])
                  /\ ~IsRed(t, t.kid[Other(s)][z])
                  => NoRedPair(v, M, NULL)
        /\ ~IsRed(t, t.root) => ~IsRed(v, v.root)
    BY <2>2, <1>0, <1>1, <1>5, <1>9, <1>10, RedRotation
  <2>4. ~IsRed(t, t.kid[Other(s)][z])
    BY <2>1, <1>6 DEF mid, o
  <2> HIDE DEF z
  <2> QED BY <2>3, <2>4, <1>0
<1>14. PICK S, B : /\ Shape(v, M, S) /\ Balanced(v, M, B, p, s)
                   /\ NoRedPair(v, M, NULL) /\ ~IsRed(v, v.root)
  BY <1>13
<1>15. ~IsRed(v, n)
  <2> SUFFICES ASSUME IsRed(v, n) PROVE FALSE
    OBVIOUS
  <2>1. n \in Node /\ v.color[n] = "red"
    BY <1>1 DEF IsRed, Ref
  <2> QED BY <2>1, <1>0, <1>1, <1>9, <1>10 DEF IsRed
<1>16. Gapped(v, M, S, B, n, p, s)
  BY <1>0, <1>12, <1>14, <1>15, SMTT(60) DEF Gapped, Kid
<1>17. Kid(v, Other(s), p, near) /\ Kid(v, Other(s), near, y) /\ IsRed(v, y)
  BY <1>1, <1>10, <1>11, <1>12 DEF Kid, o, IsRed
<1>18. HalfTurned(v, w, p, Other(s))
       /\ \A m \in M : m # near => w.color[m] = IF m = y THEN "black" ELSE v.color[m]
  BY <1>0, <1>7, <1>9, <1>11 DEF o
<1>19. Sound(u, M) /\ \A m \in Node \ M : u.up[m] = v.up[m]
  <2>1. v.color[near] = "black"
    BY <1>10
  <2> QED BY <2>1, <1>16, <1>17, <1>18, FillEnd
<1> HIDE DEF u
<1> QED BY <1>8, <1>12, <1>19

\* Cases 3 and 4.
LEMMA FillSound ==
    ASSUME NEW t, NEW M, NEW sub, NEW bh, NEW n, NEW p, NEW s, Gapped(t, M, sub, bh, n, p, s),
           NEW y, Kid(t, Other(s), p, y), ~IsRed(t, y), \E d \in Side : IsRed(t, t.kid[d][y])
    PROVE  LET u == FillGap(t, p, s)
           IN  Sound(u, M) /\ \A m \in Node \ M : u.up[m] = t.up[m]
<1>1. t.kid[Other(s)][p] = y /\ s \in Side
  BY DEF Kid, Gapped
<1>2. CASE IsRed(t, t.kid[Other(s)][y])
  BY <1>1, <1>2, FillStraight
<1>3. CASE ~IsRed(t, t.kid[Other(s)][y])
  <2>1. Kid(t, s, y, t.kid[s][y]) /\ IsRed(t, t.kid[s][y])
    BY <1>1, <1>3, SideFacts DEF Kid
  <2> QED BY <2>1, <1>3, FillDouble
<1> QED BY <1>2, <1>3

\* A tree ready for ____rb_erase_color has one gap, at one side of p.
LEMMA ReadyGapped ==
    ASSUME NEW t, NEW M, NEW sub, NEW n, NEW p, EraseReady(t, M, sub, n, p)
    PROVE  /\ \E s, bh : Gapped(t, M, sub, bh, n, p, s)
           /\ t \in Tree /\ Shape(t, M, sub) /\ p \in M /\ p \in Node /\ n \in Ref /\ p # NULL
<1>1. /\ t \in Tree /\ Shape(t, M, sub) /\ p \in M
      /\ NoRedPair(t, M, NULL) /\ ~IsRed(t, t.root) /\ ~IsRed(t, n)
  BY DEF EraseReady
<1>2. PICK s \in Side : \E bh : t.kid[s][p] = n /\ Balanced(t, M, bh, p, s)
  BY DEF EraseReady
<1>3. p \in Node /\ p # NULL
  BY <1>1, NullOutside DEF Shape
<1>4. n \in Ref
  BY <1>1, <1>2, <1>3, TreeFields
<1>5. PICK bh : Balanced(t, M, bh, p, s)
  BY <1>2
<1>6. Gapped(t, M, sub, bh, n, p, s)
  BY <1>1, <1>2, <1>5 DEF Gapped, Kid
<1> QED BY <1>1, <1>3, <1>4, <1>6

\* What the loop does from p up.
EraseSafe(f, t0, M, sub, n, p) ==
    \A t : EraseReady(t, M, sub, n, p) /\ SameLinks(t0, t)
           => Sound(f[<<t, n, p>>], M) /\ \A m \in Node \ M : f[<<t, n, p>>].up[m] = t0.up[m]

\* One pass of the loop.
LEMMA ErasePass ==
    ASSUME NEW f, \A t \in Tree, n \in Ref, p \in Node : f[<<t, n, p>>] = EraseBody(f, <<t, n, p>>),
           NEW t0, NEW M, NEW sub, NEW n, NEW p,
           NEW t, EraseReady(t, M, sub, n, p), SameLinks(t0, t),
           \A g \in M : g = t.up[p] => EraseSafe(f, t0, M, sub, p, g)
    PROVE  Sound(f[<<t, n, p>>], M) /\ \A m \in Node \ M : f[<<t, n, p>>].up[m] = t0.up[m]
<1>0. /\ t \in Tree /\ Shape(t, M, sub) /\ p \in M /\ p \in Node /\ n \in Ref /\ p # NULL
  BY ReadyGapped
<1>1. \A m \in Node : t.up[m] = t0.up[m]
  BY DEF SameLinks
<1>2. PICK s, bh : Gapped(t, M, sub, bh, n, p, s)
  BY ReadyGapped
<1> DEFINE v == BlackSibling(t, p, s)
           sib == v.kid[Other(s)][p]
           w == SetParentColor(v, sib, p, "red")
           fills == \E d \in Side : IsRed(v, v.kid[d][sib])
<1>3. GapSide(t, n, p) = s
  <2>1. PICK y : Kid(t, Other(s), p, y)
    BY DEF Kid
  <2> QED BY <2>1, <1>2, GapFacts DEF Gapped
<1>4. Tried(t, n, p) = v /\ Sibling(t, n, p) = sib /\ Faded(t, n, p) = w
  BY <1>3 DEF Tried, Sibling, Faded
<1>5. f[<<t, n, p>>] = IF fills THEN FillGap(v, p, s)
                       ELSE IF IsRed(w, p) THEN SetBlack(w, p)
                       ELSE IF w.up[p] # NULL THEN f[<<w, p, w.up[p]>>]
                       ELSE w
  <2>1. f[<<t, n, p>>] = EraseBody(f, <<t, n, p>>)
    BY <1>0
  <2>2. <<t, n, p>>[1] = t /\ <<t, n, p>>[2] = n /\ <<t, n, p>>[3] = p
    OBVIOUS
  <2> HIDE DEF v, sib, w
  <2>3. EraseBody(f, <<t, n, p>>)
          = IF \E d \in Side : IsRed(Tried(t, n, p), Tried(t, n, p).kid[d][Sibling(t, n, p)])
            THEN FillGap(Tried(t, n, p), p, GapSide(t, n, p))
            ELSE IF IsRed(Faded(t, n, p), p) THEN SetBlack(Faded(t, n, p), p)
            ELSE IF Faded(t, n, p).up[p] # NULL THEN f[<<Faded(t, n, p), p, Faded(t, n, p).up[p]>>]
            ELSE Faded(t, n, p)
    BY <2>2, Zenon DEF EraseBody
  <2> QED BY <2>1, <2>3, <1>3, <1>4, Zenon
<1>6. /\ \E S, B : Gapped(v, M, S, B, n, p, s)
      /\ ~IsRed(v, sib) /\ (v = t \/ v.color[p] = "red")
      /\ \A m \in Node \ M : v.up[m] = t.up[m]
  BY <1>2, BlackSiblingSound
<1>7. Kid(v, Other(s), p, sib)
  BY DEF Kid
<1> HIDE DEF v, sib
<1>8. PICK S, B : Gapped(v, M, S, B, n, p, s)
  BY <1>6
<1>9. CASE fills
  <2>1. Sound(FillGap(v, p, s), M) /\ \A m \in Node \ M : FillGap(v, p, s).up[m] = v.up[m]
    BY <1>6, <1>7, <1>8, <1>9, FillSound
  <2>2. f[<<t, n, p>>] = FillGap(v, p, s)
    BY <1>5, <1>9
  <2> QED BY <2>1, <2>2, <1>1, <1>6
<1>10. CASE ~fills
  <2>1. /\ SameLinks(v, w) /\ w.color[p] = v.color[p]
        /\ v.color[p] = "red" => /\ Sound(SetBlack(w, p), M)
                                 /\ \A m \in Node : SetBlack(w, p).up[m] = v.up[m]
        /\ v.color[p] # "red" /\ v.up[p] = NULL => Sound(w, M)
        /\ v.color[p] # "red" /\ v.up[p] # NULL => EraseReady(w, M, S, p, v.up[p])
    BY <1>6, <1>7, <1>8, <1>10, FadeSound
  <2> HIDE DEF w, fills
  <2>2. \A m \in Node : w.up[m] = v.up[m]
    BY <2>1 DEF SameLinks
  <2>3. IsRed(w, p) <=> v.color[p] = "red"
    BY <2>1, <1>0 DEF IsRed
  <2>4. CASE v.color[p] = "red"
    <3>1. f[<<t, n, p>>] = SetBlack(w, p)
      BY <1>5, <1>10, <2>3, <2>4
    <3> QED BY <3>1, <2>1, <2>4, <1>1, <1>6
  <2>5. CASE v.color[p] # "red" /\ v.up[p] = NULL
    <3>1. f[<<t, n, p>>] = w
      BY <1>0, <1>5, <1>10, <2>2, <2>3, <2>5
    <3> QED BY <3>1, <2>1, <2>2, <2>5, <1>1, <1>6
  <2>6. CASE v.color[p] # "red" /\ v.up[p] # NULL
    <3>1. v = t
      BY <1>6, <2>6
    <3>2. f[<<t, n, p>>] = f[<<w, p, t.up[p]>>]
      BY <3>1, <1>0, <1>5, <1>10, <2>2, <2>3, <2>6
    <3>3. EraseReady(w, M, sub, p, t.up[p])
      <4>1. Kid(t, Other(s), p, sib) /\ ~IsRed(t, sib) /\ \A d \in Side : ~IsRed(t, t.kid[d][sib])
        BY <3>1, <1>6, <1>7, <1>10 DEF fills
      <4>2. EraseReady(SetParentColor(t, sib, p, "red"), M, sub, p, t.up[p])
        BY <4>1, <3>1, <2>6, <1>2, FadeSound
      <4> QED BY <4>2, <3>1 DEF w
    <3>4. SameLinks(t0, w)
      <4>1. SameLinks(t, w)
        BY <3>1, <2>1
      <4> QED BY <4>1 DEF SameLinks
    <3>5. t.up[p] \in M
      BY <3>1, <2>6, <1>0, UpFacts
    <3>6. EraseSafe(f, t0, M, sub, p, t.up[p])
      BY <3>5
    <3> QED BY <3>2, <3>3, <3>4, <3>6 DEF EraseSafe
  <2> QED BY <2>4, <2>5, <2>6
<1> QED BY <1>9, <1>10

\* ____rb_erase_color makes a sound tree of one with a gap, and it touches no node
\* outside.
LEMMA EraseColorSound ==
    ASSUME NEW t, NEW M, NEW sub, NEW n, NEW p, EraseReady(t, M, sub, n, p)
    PROVE  Sound(EraseColor(t, n, p), M) /\ \A m \in Node \ M : EraseColor(t, n, p).up[m] = t.up[m]
<1>0. /\ t \in Tree /\ Shape(t, M, sub) /\ p \in M /\ p \in Node /\ n \in Ref
  BY ReadyGapped
<1>1. PICK f : /\ \A v \in Tree, a \in Ref, b \in Node : f[<<v, a, b>>] = EraseBody(f, <<v, a, b>>)
               /\ \A v, a, b : EraseColor(v, a, b) = f[<<v, a, b>>]
  BY EraseLoop
<1> DEFINE Ok(b) == \A a : EraseSafe(f, t, M, sub, a, b)
           G == {b \in M : Ok(b)}
<1>2. ASSUME NEW b \in M, \A g \in M : g = t.up[b] => Ok(g)
      PROVE  Ok(b)
  <2> SUFFICES ASSUME NEW a, NEW v, EraseReady(v, M, sub, a, b), SameLinks(t, v)
               PROVE  /\ Sound(f[<<v, a, b>>], M)
                      /\ \A k \in Node \ M : f[<<v, a, b>>].up[k] = t.up[k]
    BY DEF EraseSafe
  <2>1. v.up[b] = t.up[b]
    <3>1. b \in Node
      BY ReadyGapped
    <3> QED BY <3>1 DEF SameLinks
  <2>2. \A g \in M : g = v.up[b] => EraseSafe(f, t, M, sub, b, g)
    BY <2>1, <1>2
  <2> HIDE DEF Ok
  <2> QED BY <1>1, <2>2, ErasePass
<1> HIDE DEF Ok
<1>3. M # {} => t.root \in G
  <2> SUFFICES ASSUME M # {} PROVE t.root \in G
    OBVIOUS
  <2>1. t.root \in M /\ t.up[t.root] = NULL /\ NULL \notin M
    BY <1>0, NullOutside DEF Shape
  <2>2. Ok(t.root)
    BY <1>2, <2>1
  <2> QED BY <2>1, <2>2
<1>4. \A m \in M, s \in Side : m \in G /\ t.kid[s][m] # NULL => t.kid[s][m] \in G
  <2> SUFFICES ASSUME NEW m \in M, NEW s \in Side, m \in G, t.kid[s][m] # NULL
               PROVE  t.kid[s][m] \in G
    OBVIOUS
  <2>1. t.kid[s][m] \in M /\ t.up[t.kid[s][m]] = m
    BY <1>0, KidFacts
  <2>2. Ok(t.kid[s][m])
    BY <1>2, <2>1
  <2> QED BY <2>1, <2>2
<1> HIDE DEF G
<1>5. p \in G
  BY <1>0, <1>3, <1>4, TopDown
<1>6. SameLinks(t, t)
  BY <1>0 DEF SameLinks
<1> QED BY <1>1, <1>5, <1>6 DEF G, Ok, EraseSafe

\* The removal of n, as a whole.
LEMMA EraseSound ==
    ASSUME NEW t, NEW M, Sound(t, M), NEW n \in M
    PROVE  LET u == Erase(t, n)
           IN  /\ Sound(u, M \ {n}) /\ u.up[n] = NULL
               /\ \A m \in Node \ M : u.up[m] = t.up[m]
<1> DEFINE e == EraseAugmented(t, n)
           w == IF e.rebalance = NULL THEN e.tree ELSE EraseColor(e.tree, NULL, e.rebalance)
           u == Blank(w, n)
           W == M \ {n}
<1>1. Trimmed(t, M, e, n)
  BY EraseTrims
<1>2. M \subseteq Node /\ n \in Node
  <2>1. \E sub : Shape(t, M, sub)
    BY DEF Sound
  <2> QED BY <2>1 DEF Shape
<1> HIDE DEF e
<1>3. Sound(w, W) /\ \A m \in Node \ M : w.up[m] = t.up[m]
  <2>1. \A m \in Node \ M : e.tree.up[m] = t.up[m]
    BY <1>1 DEF Trimmed
  <2>2. CASE e.rebalance = NULL
    BY <2>1, <2>2, <1>1 DEF Trimmed
  <2>3. CASE e.rebalance # NULL
    <3>1. PICK sub : EraseReady(e.tree, W, sub, NULL, e.rebalance)
      BY <1>1, <2>3 DEF Trimmed
    <3> HIDE DEF W
    <3>2. /\ Sound(EraseColor(e.tree, NULL, e.rebalance), W)
          /\ \A m \in Node \ W : EraseColor(e.tree, NULL, e.rebalance).up[m] = e.tree.up[m]
      BY <3>1, EraseColorSound
    <3>3. w = EraseColor(e.tree, NULL, e.rebalance)
      BY <2>3
    <3> HIDE DEF w
    <3> QED BY <2>1, <3>2, <3>3 DEF W
  <2> QED BY <2>2, <2>3
<1> HIDE DEF w
<1>4. Fresh(w, u, n, NULL)
  <2>1. w \in Tree /\ NULL \in Ref
    BY <1>3 DEF Sound, Ref
  <2> QED BY <2>1, <1>2, FreshIs DEF Blank
<1> HIDE DEF u
<1>5. u \in Tree /\ u.root = w.root /\ u.up[n] = NULL
  BY <1>2, <1>4 DEF Fresh
<1>6. \A m \in W : /\ u.up[m] = w.up[m] /\ u.color[m] = w.color[m]
                   /\ \A d \in Side : u.kid[d][m] = w.kid[d][m]
  BY <1>2, <1>4 DEF Fresh
<1>7. \A m \in Node \ M : u.up[m] = t.up[m]
  BY <1>2, <1>3, <1>4 DEF Fresh
<1> HIDE DEF W
<1>8. Sound(u, W)
  BY <1>3, <1>5, <1>6, SoundSame
<1> QED BY <1>5, <1>7, <1>8 DEF u, W, w, e, Erase

-----------------------------------------------------------------------------
(* The nodes that are reached from the root. *)

\* The parent of a node inside a subtree is in the subtree.
LEMMA UpWithin ==
    ASSUME NEW t \in Tree, NEW M, NEW sub, Shape(t, M, sub), NEW m \in M, NEW c \in sub[m], c # m
    PROVE  t.up[c] \in sub[m] /\ c \in M /\ c # t.root
<1> DEFINE G == {a \in M : \A b \in sub[a] : b # a => t.up[b] \in sub[a] /\ b # t.root}
<1>0. M \subseteq Node /\ \A a \in M : sub[a] \subseteq M
  BY DEF Shape
<1>1. ASSUME NEW a \in M, \A s \in Side : t.kid[s][a] # NULL => t.kid[s][a] \in G
      PROVE  a \in G
  <2> SUFFICES ASSUME NEW b \in sub[a], b # a PROVE t.up[b] \in sub[a] /\ b # t.root
    OBVIOUS
  <2>1. PICK s \in Side : b \in Half(sub, s, a)
    <3>1. "left" \in Side
      BY DEF Side
    <3>2. Other("left") \in Side
      BY <3>1, SideFacts
    <3> QED BY <3>1, <3>2, SubParts
  <2>2. t.kid[s][a] # NULL
    <3>1. t.kid[s][a] = NULL => Half(sub, s, a) = {}
      BY DEF Shape
    <3> QED BY <2>1, <3>1
  <2> DEFINE c0 == t.kid[s][a]
  <2>3. c0 \in M /\ t.up[c0] = a /\ sub[c0] = Half(sub, s, a) /\ sub[c0] \subseteq sub[a] /\ c0 # t.root
    BY <2>2, KidFacts
  <2>4. a \in sub[a] /\ c0 \in G
    BY <2>2, <1>1 DEF Shape
  <2> HIDE DEF c0
  <2>5. CASE b = c0
    BY <2>3, <2>4, <2>5
  <2>6. CASE b # c0
    BY <2>1, <2>3, <2>4, <2>6
  <2> QED BY <2>5, <2>6
<1> HIDE DEF G
<1>2. M \subseteq G
  BY <1>1, BottomUp
<1> QED BY <1>0, <1>2 DEF G

\* The nodes from the root down to n.
Anc(M, sub, n) == {m \in M : n \in sub[m]}

\* A child has one ancestor more than its parent.
LEMMA AncFacts ==
    ASSUME NEW t \in Tree, NEW M, NEW sub, Shape(t, M, sub)
    PROVE  /\ M # {} => Anc(M, sub, t.root) = {t.root}
           /\ \A n \in M, s \in Side : t.kid[s][n] # NULL =>
                 /\ Anc(M, sub, t.kid[s][n]) = Anc(M, sub, n) \cup {t.kid[s][n]}
                 /\ t.kid[s][n] \notin Anc(M, sub, n)
<1>1. ASSUME M # {} PROVE Anc(M, sub, t.root) = {t.root}
  <2>1. t.root \in M /\ t.root \in sub[t.root]
    BY <1>1 DEF Shape
  <2>2. ASSUME NEW m \in M, t.root \in sub[m], m # t.root PROVE FALSE
    BY <2>2, UpWithin
  <2> QED BY <2>1, <2>2 DEF Anc
<1>2. ASSUME NEW n \in M, NEW s \in Side, t.kid[s][n] # NULL
      PROVE  /\ Anc(M, sub, t.kid[s][n]) = Anc(M, sub, n) \cup {t.kid[s][n]}
             /\ t.kid[s][n] \notin Anc(M, sub, n)
  <2> DEFINE c == t.kid[s][n]
  <2>1. c \in M /\ t.up[c] = n /\ c \in sub[n] /\ n \notin sub[c]
    BY <1>2, KidFacts
  <2>2. c \in sub[c]
    BY <2>1 DEF Shape
  <2> HIDE DEF c
  <2>3. ASSUME NEW m \in M PROVE c \in sub[m] <=> n \in sub[m] \/ m = c
    <3>1. CASE m = c
      BY <3>1, <2>2
    <3>2. CASE m # c /\ c \in sub[m]
      BY <3>2, <2>1, UpWithin
    <3>3. CASE m # c /\ n \in sub[m]
      <4>1. sub[n] \subseteq sub[m]
        BY <3>3, Nested
      <4> QED BY <3>3, <4>1, <2>1
    <3> QED BY <3>1, <3>2, <3>3
  <2>4. Anc(M, sub, c) = Anc(M, sub, n) \cup {c} /\ c \notin Anc(M, sub, n)
    BY <2>1, <2>3 DEF Anc
  <2> QED BY <2>4 DEF c
<1> QED BY <1>1, <1>2

\* And so it is one deeper.
LEMMA DepthFacts ==
    ASSUME NEW t \in Tree, NEW M, NEW sub, Shape(t, M, sub)
    PROVE  /\ Cardinality(Node) \in Nat
           /\ \A n \in M : /\ Cardinality(Anc(M, sub, n)) \in Nat
                           /\ Cardinality(Anc(M, sub, n)) >= 1
                           /\ Cardinality(Anc(M, sub, n)) <= Cardinality(Node)
           /\ M # {} => Cardinality(Anc(M, sub, t.root)) = 1
           /\ \A n \in M, s \in Side : t.kid[s][n] # NULL =>
                 Cardinality(Anc(M, sub, t.kid[s][n])) = Cardinality(Anc(M, sub, n)) + 1
<1>0. M \subseteq Node /\ IsFiniteSet(Node) /\ Cardinality(Node) \in Nat
  BY NodeFinite, FS_CardinalityType DEF Shape
<1>1. ASSUME NEW n \in M
      PROVE  /\ IsFiniteSet(Anc(M, sub, n)) /\ Cardinality(Anc(M, sub, n)) \in Nat
             /\ Cardinality(Anc(M, sub, n)) >= 1
             /\ Cardinality(Anc(M, sub, n)) <= Cardinality(Node)
  <2>1. Anc(M, sub, n) \subseteq Node /\ {n} \subseteq Anc(M, sub, n)
    BY <1>0 DEF Anc, Shape
  <2>2. IsFiniteSet(Anc(M, sub, n)) /\ Cardinality(Anc(M, sub, n)) <= Cardinality(Node)
    BY <2>1, <1>0, FS_Subset
  <2>3. Cardinality({n}) <= Cardinality(Anc(M, sub, n)) /\ Cardinality({n}) = 1
    BY <2>1, <2>2, FS_Subset, FS_Singleton
  <2>4. Cardinality(Anc(M, sub, n)) \in Nat
    BY <2>2, FS_CardinalityType
  <2> QED BY <2>2, <2>3, <2>4
<1>2. ASSUME M # {} PROVE Cardinality(Anc(M, sub, t.root)) = 1
  <2>1. Anc(M, sub, t.root) = {t.root}
    BY <1>2, AncFacts
  <2>2. Cardinality({t.root}) = 1
    BY FS_Singleton
  <2> QED BY <2>1, <2>2
<1>3. ASSUME NEW n \in M, NEW s \in Side, t.kid[s][n] # NULL
      PROVE  Cardinality(Anc(M, sub, t.kid[s][n])) = Cardinality(Anc(M, sub, n)) + 1
  <2>1. /\ Anc(M, sub, t.kid[s][n]) = Anc(M, sub, n) \cup {t.kid[s][n]}
        /\ t.kid[s][n] \notin Anc(M, sub, n)
    BY <1>3, AncFacts
  <2> QED BY <2>1, <1>1, FS_AddElement
<1> QED BY <1>0, <1>1, <1>2, <1>3

\* What is in the map is what the walk down from the root reaches.
LEMMA ReachAll ==
    ASSUME NEW t \in Tree, NEW M, NEW sub, Shape(t, M, sub)
    PROVE  Reach(t) = M
<1> DEFINE N == Cardinality(Node)
           depth(n) == Cardinality(Anc(M, sub, n))
           below(R) == R \cup ({t.kid[s][n] : s \in Side, n \in R} \ {NULL})
           level(i) == {n \in M : depth(n) <= i + 1}
           f == [i \in 0 .. N |-> level(i)]
           reach[i \in 0 .. N] == IF i = 0 THEN {t.root} \ {NULL} ELSE below(reach[i - 1])
<1>0. /\ N \in Nat
      /\ \A n \in M : depth(n) \in Nat /\ depth(n) >= 1 /\ depth(n) <= N
      /\ M # {} => depth(t.root) = 1
      /\ \A n \in M, s \in Side : t.kid[s][n] # NULL => depth(t.kid[s][n]) = depth(n) + 1
  BY DepthFacts
<1>1. /\ M # {} => t.root \in M /\ t.root # NULL
      /\ M = {} => t.root = NULL
      /\ \A n \in M, s \in Side : t.kid[s][n] # NULL => t.kid[s][n] \in M
      /\ \A n \in M : n # NULL /\ (n # t.root => t.up[n] \in M /\ \E s \in Side : t.kid[s][t.up[n]] = n)
  BY NullOutside DEF Shape
<1> HIDE DEF N, depth
<1>2. level(0) = {t.root} \ {NULL}
  <2>1. ASSUME NEW n \in M, depth(n) <= 1 PROVE n = t.root
    <3> SUFFICES ASSUME n # t.root PROVE FALSE
      OBVIOUS
    <3>1. PICK s \in Side : t.kid[s][t.up[n]] = n
      BY <1>1
    <3>2. depth(n) = depth(t.up[n]) + 1 /\ depth(t.up[n]) \in Nat /\ depth(t.up[n]) >= 1
      BY <3>1, <1>0, <1>1
    <3> QED BY <3>2, <2>1
  <2>2. ASSUME t.root # NULL PROVE t.root \in level(0)
    BY <2>2, <1>0, <1>1
  <2> QED BY <2>1, <2>2, <1>0, <1>1
<1>3. ASSUME NEW i \in Nat, i # 0 PROVE level(i) = below(level(i - 1))
  <2>1. ASSUME NEW n \in level(i) PROVE n \in below(level(i - 1))
    <3>1. n \in M /\ depth(n) \in Nat /\ depth(n) <= i + 1
      BY <1>0
    <3>2. CASE depth(n) <= i
      BY <3>1, <3>2, <1>3
    <3>3. CASE depth(n) = i + 1
      <4>1. n # t.root
        BY <3>1, <3>3, <1>0, <1>3
      <4>2. PICK s \in Side : t.kid[s][t.up[n]] = n
        BY <3>1, <4>1, <1>1
      <4>3. t.up[n] \in M /\ n # NULL
        BY <3>1, <4>1, <1>1
      <4>4. depth(n) = depth(t.up[n]) + 1 /\ depth(t.up[n]) \in Nat
        BY <4>2, <4>3, <1>0
      <4>5. t.up[n] \in level(i - 1)
        BY <4>3, <4>4, <3>3, <1>3
      <4> HIDE DEF level
      <4> QED BY <4>2, <4>3, <4>5
    <3> QED BY <3>1, <3>2, <3>3, <1>3
  <2>2. ASSUME NEW n \in below(level(i - 1)) PROVE n \in level(i)
    <3>1. CASE n \in level(i - 1)
      BY <3>1, <1>0, <1>3
    <3>2. CASE n \in {t.kid[s][m] : s \in Side, m \in level(i - 1)} \ {NULL}
      <4>1. PICK s \in Side, m \in level(i - 1) : n = t.kid[s][m] /\ n # NULL
        BY <3>2
      <4>2. m \in M /\ depth(m) \in Nat /\ depth(m) <= i
        BY <4>1, <1>0, <1>3
      <4>3. t.kid[s][m] \in M /\ depth(t.kid[s][m]) = depth(m) + 1
        BY <4>1, <4>2, <1>0, <1>1
      <4> QED BY <4>1, <4>2, <4>3, <1>3
    <3> QED BY <2>2, <3>1, <3>2
  <2> HIDE DEF level, below
  <2> QED BY <2>1, <2>2
<1> HIDE DEF level, below
<1>4. f = [i \in 0 .. N |-> IF i = 0 THEN {t.root} \ {NULL} ELSE below(f[i - 1])]
  <2>1. ASSUME NEW i \in 0 .. N PROVE level(i) = IF i = 0 THEN {t.root} \ {NULL} ELSE below(f[i - 1])
    <3>1. CASE i = 0
      BY <3>1, <1>2
    <3>2. CASE i # 0
      <4>1. i \in Nat /\ i - 1 \in 0 .. N
        BY <3>2, <1>0
      <4>2. f[i - 1] = level(i - 1)
        BY <4>1
      <4> QED BY <4>1, <4>2, <3>2, <1>3
    <3> QED BY <3>1, <3>2
  <2> QED BY <2>1
<1>5. reach = [i \in 0 .. N |-> IF i = 0 THEN {t.root} \ {NULL} ELSE below(reach[i - 1])]
  <2> HIDE DEF f
  <2> QED BY <1>4
<1>6. Reach(t) = reach[N]
  BY DEF Reach, below, N
<1> HIDE DEF reach
<1> DEFINE S == {i \in Nat : i <= N => reach[i] = level(i)}
<1>7. 0 \in S
  BY <1>0, <1>2, <1>5
<1>8. ASSUME NEW i \in Nat, i \in S PROVE i + 1 \in S
  <2> SUFFICES ASSUME i + 1 <= N PROVE reach[i + 1] = level(i + 1)
    OBVIOUS
  <2>1. i + 1 \in 0 .. N /\ i + 1 # 0 /\ i + 1 - 1 = i /\ i + 1 \in Nat
    BY <1>0
  <2>2. reach[i] = level(i)
    BY <2>1, <1>0, <1>8
  <2>3. reach[i + 1] = below(reach[i + 1 - 1])
    <3> DEFINE X == 0 .. N
               h(j) == IF j = 0 THEN {t.root} \ {NULL} ELSE below(reach[j - 1])
    <3>1. reach = [j \in X |-> h(j)] /\ i + 1 \in X
      BY <2>1, <1>5
    <3>2. h(i + 1) = below(reach[i + 1 - 1])
      BY <2>1
    <3> HIDE DEF X, h
    <3>3. reach[i + 1] = h(i + 1)
      BY <3>1
    <3> QED BY <3>2, <3>3
  <2>4. level(i + 1) = below(level(i + 1 - 1))
    BY <2>1, <1>3
  <2> QED BY <2>1, <2>2, <2>3, <2>4
<1> HIDE DEF S
<1>9. Nat \subseteq S
  BY <1>7, <1>8, Induct
<1>10. reach[N] = level(N)
  BY <1>0, <1>9 DEF S
<1>11. level(N) = M
  BY <1>0 DEF level
<1> QED BY <1>6, <1>10, <1>11

-----------------------------------------------------------------------------
(* The map. *)

\* The nodes of a sound tree are those that the model calls linked.
LEMMA SoundLinked ==
    ASSUME NEW t, NEW M, Sound(t, M), \A m \in Node \ M : t.up[m] = NULL
    PROVE  Linked(t) = M
<1>1. PICK sub : Shape(t, M, sub) /\ t \in Tree
  BY DEF Sound
<1>2. ASSUME NEW n \in M PROVE n \in Node /\ (n = t.root \/ t.up[n] # NULL)
  BY <1>1, UpFacts
<1>3. ASSUME NEW n \in Node \ M PROVE n # t.root /\ t.up[n] = NULL
  <2>1. n # NULL
    BY NullOutside
  <2> QED BY <1>1, <2>1 DEF Shape
<1> QED BY <1>2, <1>3 DEF Linked

\* What holds of a map at all times.
TreeKept == Sound(tree, Linked(tree))
SizeKept == count = Cardinality(Linked(tree))
MapInv == TreeKept /\ SizeKept

\* An empty map is sound.
LEMMA MapInitInv == MapInit => MapInv
<1> SUFFICES ASSUME MapInit PROVE MapInv
  OBVIOUS
<1>1. tree = EmptyTree /\ count = 0
  BY DEF MapInit
<1>2. /\ EmptyTree.root = NULL /\ \A n \in Node : EmptyTree.up[n] = NULL
      /\ EmptyTree \in Tree
  <2>1. /\ [s \in Side |-> [n \in Node |-> NULL]] \in [Side -> [Node -> Ref]]
        /\ [n \in Node |-> NULL] \in [Node -> Ref] /\ [n \in Node |-> "red"] \in [Node -> Color]
        /\ NULL \in Ref
    BY DEF Ref, Color
  <2>2. EmptyTree \in Tree
    BY <2>1, TreeIs DEF EmptyTree
  <2> QED BY <2>2 DEF EmptyTree
<1> DEFINE e == EmptyTree
<1>3. e \in Tree /\ e.root = NULL /\ \A n \in Node : e.up[n] = NULL
  BY <1>2
<1> HIDE DEF e
<1>4. Linked(e) = {}
  BY <1>3, NullOutside DEF Linked
<1>5. Sound(e, {})
  <2> DEFINE sub == [n \in Node |-> {}]
             bh == [n \in Ref |-> 0]
  <2>1. Shape(e, {}, sub)
    BY <1>3 DEF Shape, Distinctly
  <2>2. Balanced(e, {}, bh, NULL, "left")
    BY DEF Balanced, Ref
  <2>3. NoRedPair(e, {}, NULL) /\ ~IsRed(e, e.root)
    BY <1>3 DEF NoRedPair, IsRed
  <2> HIDE DEF sub, bh
  <2> QED BY <1>3, <2>1, <2>2, <2>3 DEF Sound
<1>6. Cardinality({}) = 0
  BY FS_EmptySet
<1> QED BY <1>1, <1>4, <1>5, <1>6 DEF MapInv, TreeKept, SizeKept, e

\* One node more, with a key that the map does not have.
Added(n) ==
    /\ n \notin Linked(tree) /\ \A m \in Linked(tree) : Key(m) # Key(n)
    /\ Sound(tree', Linked(tree) \cup {n}) /\ Linked(tree') = Linked(tree) \cup {n}
    /\ count' = count + 1

\* eaf_map_insert adds the node, or it changes nothing.
LEMMA InsertAdds ==
    ASSUME TreeKept, NEW n \in Node, MapInsert(n)
    PROVE  Added(n) \/ UNCHANGED mapVars
<1> DEFINE M == Linked(tree)
           p == Descend(tree, Key(n), tree.root)
<1>0. PICK sub, bh : Shape(tree, M, sub) /\ Balanced(tree, M, bh, NULL, "left")
  BY DEF TreeKept, Sound
<1>1. /\ tree \in Tree /\ NoRedPair(tree, M, NULL) /\ ~IsRed(tree, tree.root)
      /\ n \notin M /\ Key(n) \in Int
      /\ \A m \in Node \ M : tree.up[m] = NULL
  BY KeyInt DEF TreeKept, Sound, MapInsert, Linked
<1>2. ASSUME NEW u, Sound(u, M \cup {n}), \A m \in Node \ (M \cup {n}) : u.up[m] = tree.up[m]
      PROVE  Linked(u) = M \cup {n}
  BY <1>1, <1>2, SoundLinked
<1>3. CASE tree.root = NULL
  <2>1. M = {}
    BY <1>0, <1>3, NullOutside DEF Shape
  <2> DEFINE t1 == LinkNode(tree, n, NULL, "left")
             sub1 == [m \in Node |-> {n}]
             u == InsertColor(t1, n)
  <2>2. InsertReady(t1, {n}, sub1, n) /\ \A m \in Node \ {n} : t1.up[m] = tree.up[m]
    BY <1>1, LinkFirst
  <2>3. tree' = u /\ count' = count + 1
    BY <1>3 DEF MapInsert
  <2> HIDE DEF t1, sub1
  <2>4. Sound(u, {n}) /\ \A m \in Node \ {n} : u.up[m] = t1.up[m]
    BY <2>2, InsertColorSound
  <2> HIDE DEF u, M
  <2>5. M \cup {n} = {n}
    BY <2>1
  <2>6. Linked(u) = M \cup {n}
    BY <1>2, <2>2, <2>4, <2>5
  <2> QED BY <1>1, <2>1, <2>3, <2>4, <2>5, <2>6 DEF Added, M
<1>4. CASE tree.root # NULL
  <2>1. M # {} /\ tree.root \in M
    BY <1>0, <1>4 DEF Shape
  <2>2. Found(tree, sub, Key(n), tree.root, p)
    BY <1>0, <1>1, <2>1, DescendIs
  <2>3. CASE Key(p) = Key(n)
    BY <1>4, <2>3 DEF MapInsert
  <2>4. CASE Key(p) # Key(n)
    <3> DEFINE t1 == LinkNode(tree, n, p, Toward(Key(n), p))
               sub1 == Joined(sub, n, p)
               u == InsertColor(t1, n)
    <3>1. tree' = u /\ count' = count + 1
      BY <1>4, <2>4 DEF MapInsert
    <3> HIDE DEF p, M
    <3>2. /\ InsertReady(t1, M \cup {n}, sub1, n)
          /\ \A m \in Node \ (M \cup {n}) : t1.up[m] = tree.up[m]
      BY <1>0, <1>1, <2>1, <2>2, <2>4, LinkReady
    <3> HIDE DEF t1, sub1
    <3>3. Sound(u, M \cup {n}) /\ \A m \in Node \ (M \cup {n}) : u.up[m] = t1.up[m]
      BY <3>2, InsertColorSound
    <3> HIDE DEF u
    <3>4. Linked(u) = M \cup {n}
      BY <1>2, <3>2, <3>3
    <3>5. \A m \in M : Key(m) # Key(n)
      <4>1. sub[tree.root] = M
        BY <1>0, <2>1 DEF Shape
      <4> QED BY <4>1, <2>2, <2>4 DEF Found
    <3> QED BY <1>1, <3>1, <3>3, <3>4, <3>5 DEF Added, M
  <2> QED BY <2>3, <2>4
<1> QED BY <1>3, <1>4

\* One node less.
Removed(n) ==
    /\ n \in Linked(tree)
    /\ Sound(tree', Linked(tree) \ {n}) /\ Linked(tree') = Linked(tree) \ {n}
    /\ count' = count - 1

\* eaf_map_erase removes the node and no other.
LEMMA EraseRemoves ==
    ASSUME TreeKept, NEW n \in Node, MapErase(n)
    PROVE  Removed(n)
<1> DEFINE M == Linked(tree)
           u == Erase(tree, n)
<1>1. /\ Sound(tree, M) /\ n \in M /\ tree' = u /\ count' = count - 1
      /\ \A m \in Node \ M : tree.up[m] = NULL
  BY DEF TreeKept, MapErase, Linked
<1> HIDE DEF M
<1>2. Sound(u, M \ {n}) /\ u.up[n] = NULL /\ \A m \in Node \ M : u.up[m] = tree.up[m]
  BY <1>1, EraseSound
<1> HIDE DEF u
<1>3. \A m \in Node \ (M \ {n}) : u.up[m] = NULL
  BY <1>1, <1>2
<1>4. Linked(u) = M \ {n}
  BY <1>2, <1>3, SoundLinked
<1> QED BY <1>1, <1>2, <1>4 DEF Removed, M

\* The invariant is inductive.
LEMMA MapNextInv == MapInv /\ [MapNext]_mapVars => MapInv'
<1> SUFFICES ASSUME MapInv, [MapNext]_mapVars PROVE MapInv'
  OBVIOUS
<1>0. /\ TreeKept /\ SizeKept
      /\ IsFiniteSet(Linked(tree)) /\ Cardinality(Linked(tree)) \in Nat
  <2>1. Linked(tree) \subseteq Node
    BY DEF Linked
  <2> QED BY <2>1, NodeFinite, FS_Subset, FS_CardinalityType DEF MapInv
<1>1. ASSUME NEW n \in Node, Added(n) PROVE MapInv'
  <2>1. TreeKept'
    BY <1>1 DEF Added, TreeKept
  <2>2. Cardinality(Linked(tree) \cup {n}) = Cardinality(Linked(tree)) + 1
    BY <1>0, <1>1, FS_AddElement DEF Added
  <2>3. SizeKept'
    BY <1>0, <1>1, <2>2 DEF Added, SizeKept
  <2> QED BY <2>1, <2>3 DEF MapInv
<1>2. ASSUME NEW n \in Node, Removed(n) PROVE MapInv'
  <2>1. TreeKept'
    BY <1>2 DEF Removed, TreeKept
  <2>2. Cardinality(Linked(tree) \ {n}) = Cardinality(Linked(tree)) - 1
    BY <1>0, <1>2, FS_RemoveElement DEF Removed
  <2>3. SizeKept'
    BY <1>0, <1>2, <2>2 DEF Removed, SizeKept
  <2> QED BY <2>1, <2>3 DEF MapInv
<1>3. CASE UNCHANGED mapVars
  BY <1>3 DEF mapVars, MapInv, TreeKept, SizeKept
<1>4. ASSUME NEW n \in Node, MapInsert(n) PROVE MapInv'
  BY <1>0, <1>1, <1>3, <1>4, InsertAdds
<1>5. ASSUME NEW n \in Node, MapErase(n) PROVE MapInv'
  BY <1>0, <1>2, <1>5, EraseRemoves
<1> QED BY <1>3, <1>4, <1>5 DEF MapNext

\* Every reachable map is a sound tree, and its size is the number of its nodes.
THEOREM MapInvariance == MapSpec => []MapInv
BY MapInitInv, MapNextInv, PTL DEF MapSpec

\* In a sound map the walk from the root finds the linked nodes.
LEMMA InIsLinked ==
    ASSUME TreeKept
    PROVE  In = Linked(tree)
<1>1. PICK sub : Shape(tree, Linked(tree), sub) /\ tree \in Tree
  BY DEF TreeKept, Sound
<1> QED BY <1>1, ReachAll DEF In

\* The map implements the set of its nodes, of which no two have the same key: every
\* insertion and erasure maps to one of the set, or to none for a duplicate.
THEOREM SetRefinement == MapSpec => ImplementsSet
<1>1. MapInit => Set!Init
  <2> SUFFICES ASSUME MapInit PROVE Set!Init
    OBVIOUS
  <2>1. TreeKept /\ SizeKept
    BY MapInitInv DEF MapInv
  <2>2. Linked(tree) = {} /\ count = 0
    BY NullOutside DEF MapInit, EmptyTree, Linked
  <2> QED BY <2>1, <2>2, InIsLinked DEF Set!Init
<1>2. MapInv /\ MapInv' /\ [MapNext]_mapVars => [Set!Next]_Set!vars
  <2> SUFFICES ASSUME MapInv, MapInv', [MapNext]_mapVars PROVE [Set!Next]_Set!vars
    OBVIOUS
  <2>1. TreeKept /\ In = Linked(tree)
    BY InIsLinked DEF MapInv
  <2>2. In' = Linked(tree')
    <3>1. PICK sub : Shape(tree', Linked(tree'), sub) /\ tree' \in Tree
      BY DEF MapInv, TreeKept, Sound
    <3> QED BY <3>1, ReachAll DEF In
  <2>3. CASE UNCHANGED mapVars
    BY <2>1, <2>2, <2>3 DEF mapVars, Set!vars
  <2>4. ASSUME NEW n \in Node, MapInsert(n) PROVE [Set!Next]_Set!vars
    <3>1. CASE Added(n)
      <4>1. Set!Insert(n)
        BY <3>1, <2>1, <2>2 DEF Added, Set!Insert
      <4> QED BY <4>1 DEF Set!Next
    <3> QED BY <3>1, <2>1, <2>3, <2>4, InsertAdds
  <2>5. ASSUME NEW n \in Node, MapErase(n) PROVE [Set!Next]_Set!vars
    <3>1. Removed(n)
      BY <2>1, <2>5, EraseRemoves
    <3>2. Set!Erase(n)
      BY <3>1, <2>1, <2>2 DEF Removed, Set!Erase
    <3> QED BY <3>2 DEF Set!Next
  <2> QED BY <2>3, <2>4, <2>5 DEF MapNext
<1> QED BY <1>1, <1>2, MapInvariance, PTL DEF MapSpec, ImplementsSet, Set!Spec

-----------------------------------------------------------------------------
(* The colors. *)

\* From a node up to the root there are as many black nodes as the root has below
\* it and the node has not.
LEMMA BlacksAboveIs ==
    ASSUME TreeKept, NEW sub, Shape(tree, Linked(tree), sub),
           NEW bh, Balanced(tree, Linked(tree), bh, NULL, "left")
    PROVE  \A n \in In : BlacksAbove[n] = bh[tree.root] - bh[n] + Own(tree, n)
<1> DEFINE M == Linked(tree)
           own(n) == IF IsRed(tree, n) THEN 0 ELSE 1
           g == [n \in In |-> bh[tree.root] - bh[n] + Own(tree, n)]
           black[n \in In] == own(n) + (IF n = tree.root THEN 0 ELSE black[tree.up[n]])
<1>0. tree \in Tree /\ M \subseteq Node /\ In = M
  BY InIsLinked DEF TreeKept, Sound, Shape
<1>1. \A n \in M : own(n) = Own(tree, n) /\ own(n) \in Int
  BY <1>0, NullOutside DEF IsRed, Own
<1>2. /\ \A n \in M : bh[n] \in Int
      /\ \A n \in M, d \in Side : bh[n] = bh[tree.kid[d][n]] + Own(tree, n)
  <2>1. \A n \in M : n \in Ref /\ n # NULL
    BY <1>0, NullOutside DEF Ref
  <2>2. ASSUME NEW n \in M, NEW d \in Side
        PROVE  bh[n] = bh[tree.kid[d][n]] + Own(tree, n)
    <3>1. bh[n] = bh[tree.kid[d][n]] + Own(tree, n) + 0
      BY <2>1 DEF Balanced
    <3>2. tree.kid[d][n] \in Ref /\ bh \in [Ref -> Nat] /\ Own(tree, n) \in Nat
      BY <1>0, TreeFields DEF Balanced, Own
    <3> QED BY <3>1, <3>2
  <2>3. bh \in [Ref -> Nat]
    BY DEF Balanced
  <2> QED BY <2>1, <2>2, <2>3
<1>3. \A n \in M : n # tree.root => /\ tree.up[n] \in M
                                    /\ bh[tree.up[n]] = bh[n] + Own(tree, tree.up[n])
  BY <1>2 DEF Shape
<1>4. M # {} => tree.root \in M
  BY DEF Shape
<1> HIDE DEF M, own
<1>5. \A n \in M : g[n] = own(n) + (IF n = tree.root THEN 0 ELSE g[tree.up[n]])
  <2> SUFFICES ASSUME NEW n \in M
               PROVE  g[n] = own(n) + (IF n = tree.root THEN 0 ELSE g[tree.up[n]])
    OBVIOUS
  <2>1. g[n] = bh[tree.root] - bh[n] + own(n) /\ bh[tree.root] \in Int /\ bh[n] \in Int
    BY <1>0, <1>1, <1>2, <1>4
  <2>2. CASE n = tree.root
    BY <2>1, <2>2, <1>1
  <2>3. CASE n # tree.root
    <3>1. tree.up[n] \in M /\ bh[tree.up[n]] = bh[n] + Own(tree, tree.up[n])
      BY <2>3, <1>3
    <3>2. /\ g[tree.up[n]] = bh[tree.root] - bh[tree.up[n]] + Own(tree, tree.up[n])
          /\ Own(tree, tree.up[n]) \in Int
      BY <3>1, <1>0, <1>1
    <3> HIDE DEF g
    <3> QED BY <2>1, <2>3, <3>1, <3>2, <1>1
  <2> QED BY <2>2, <2>3
<1>6. black = [n \in In |-> own(n) + (IF n = tree.root THEN 0 ELSE black[tree.up[n]])]
  <2>1. g = [n \in In |-> g[n]]
    OBVIOUS
  <2> HIDE DEF g
  <2>2. g = [n \in In |-> own(n) + (IF n = tree.root THEN 0 ELSE g[tree.up[n]])]
    BY <2>1, <1>0, <1>5
  <2>3. \E h : h = [n \in In |-> own(n) + (IF n = tree.root THEN 0 ELSE h[tree.up[n]])]
    BY <2>2
  <2> QED BY <2>3
<1>7. BlacksAbove = black
  BY DEF BlacksAbove, own
<1> HIDE DEF black
<1> DEFINE G == {n \in M : black[n] = g[n]}
<1>8. M # {} => tree.root \in G
  BY <1>0, <1>4, <1>5, <1>6
<1>9. ASSUME NEW n \in M, NEW s \in Side, n \in G, tree.kid[s][n] # NULL
      PROVE  tree.kid[s][n] \in G
  <2> DEFINE c == tree.kid[s][n]
  <2>1. c \in M /\ tree.up[c] = n /\ c # tree.root
    BY <1>0, <1>9, KidFacts DEF M
  <2> HIDE DEF c, g
  <2>2. black[c] = own(c) + black[n]
    BY <2>1, <1>0, <1>6
  <2>3. g[c] = own(c) + g[n]
    BY <2>1, <1>5
  <2>4. c \in G
    BY <2>1, <2>2, <2>3, <1>9
  <2> QED BY <2>4 DEF c
<1>10. M \subseteq G
  <2> HIDE DEF G
  <2> QED BY <1>0, <1>8, <1>9, TopDown DEF M
<1> QED BY <1>0, <1>7, <1>10

\* A sound tree is a red-black tree.
LEMMA RedBlackHolds ==
    ASSUME TreeKept
    PROVE  RedBlack
<1> DEFINE M == Linked(tree)
<1>1. PICK sub, bh : Shape(tree, M, sub) /\ Balanced(tree, M, bh, NULL, "left")
  BY DEF TreeKept, Sound
<1>2. /\ tree \in Tree /\ NoRedPair(tree, M, NULL) /\ ~IsRed(tree, tree.root)
      /\ In = M /\ M \subseteq Node
  BY <1>1, InIsLinked DEF TreeKept, Sound, Shape
<1>3. ASSUME NEW s \in Side, NEW n \in In, tree.kid[s][n] # NULL
      PROVE  /\ tree.up[tree.kid[s][n]] = n
             /\ ~(IsRed(tree, n) /\ IsRed(tree, tree.kid[s][n]))
  <2>1. tree.up[tree.kid[s][n]] = n
    BY <1>1, <1>2, <1>3 DEF Shape
  <2>2. ~(tree.color[n] = "red" /\ IsRed(tree, tree.kid[s][n]))
    BY <1>2, <1>3 DEF NoRedPair
  <2> QED BY <2>1, <2>2 DEF IsRed
<1>4. tree.root # NULL => tree.up[tree.root] = NULL
  BY <1>1 DEF Shape
<1>5. ASSUME NEW n \in Open PROVE BlacksAbove[n] = bh[tree.root]
  <2>1. PICK s \in Side : n \in M /\ tree.kid[s][n] = NULL
    BY <1>2 DEF Open
  <2>2. n # NULL /\ tree.root \in M /\ n \in Ref /\ tree.root \in Ref
    BY <2>1, <1>1, <1>2, NullOutside DEF Shape, Ref
  <2>3. /\ bh[n] = bh[tree.kid[s][n]] + Own(tree, n) + 0 /\ bh[NULL] = 0
        /\ bh[n] \in Nat /\ bh[tree.root] \in Nat /\ Own(tree, n) \in Nat
    BY <2>1, <2>2, <1>1 DEF Balanced, Own
  <2>4. bh[n] = Own(tree, n)
    BY <2>1, <2>3
  <2>5. BlacksAbove[n] = bh[tree.root] - bh[n] + Own(tree, n)
    BY <2>1, <1>1, <1>2, BlacksAboveIs
  <2> QED BY <2>3, <2>4, <2>5
<1> QED BY <1>2, <1>3, <1>4, <1>5 DEF RedBlack

-----------------------------------------------------------------------------
(* The queries. *)

\* The node at the end of S: the least one at the left, the greatest at the right.
EndIn(S, s) == IF s = "left" THEN Least(S) ELSE Greatest(S)

\* r is the node of S at that end, or NULL if S is empty.
IsEnd(S, s, r) ==
    IF r = NULL THEN S = {} ELSE r \in S /\ \A m \in S : m # r => Before(s, r, m)

\* There is only one such node.
LEMMA EndUnique ==
    ASSUME NEW M \in SUBSET Node, Distinctly(M), NEW S \in SUBSET M, NEW s \in Side,
           NEW r, IsEnd(S, s, r)
    PROVE  EndIn(S, s) = r
<1>1. CASE r = NULL
  BY <1>1 DEF IsEnd, EndIn, Least, Greatest
<1>2. CASE r # NULL
  <2>1. r \in S /\ \A m \in S : m # r => Before(s, r, m)
    BY <1>2 DEF IsEnd
  <2>2. \A m \in S : Key(m) \in Int /\ m \in M
    BY KeyInt
  <2>3. CASE s = "left"
    <3> DEFINE P(n) == \A m \in S : Key(n) <= Key(m)
    <3>1. P(r)
      BY <2>1, <2>2, <2>3 DEF Before
    <3>2. ASSUME NEW n \in S, P(n) PROVE n = r
      <4>1. Key(n) <= Key(r) /\ (n # r => Key(r) < Key(n))
        BY <2>1, <2>3, <3>2 DEF Before
      <4> QED BY <4>1, <2>1, <2>2
    <3> HIDE DEF P
    <3>3. (CHOOSE n \in S : P(n)) = r
      BY <2>1, <3>1, <3>2
    <3>4. Least(S) = CHOOSE n \in S : P(n)
      BY <2>1 DEF Least, P
    <3> QED BY <2>3, <3>3, <3>4 DEF EndIn
  <2>4. CASE s = "right"
    <3> DEFINE P(n) == \A m \in S : Key(n) >= Key(m)
    <3>1. P(r)
      BY <2>1, <2>2, <2>4 DEF Before
    <3>2. ASSUME NEW n \in S, P(n) PROVE n = r
      <4>1. Key(n) >= Key(r) /\ (n # r => Key(n) < Key(r))
        BY <2>1, <2>4, <3>2 DEF Before
      <4> QED BY <4>1, <2>1, <2>2
    <3> HIDE DEF P
    <3>3. (CHOOSE n \in S : P(n)) = r
      BY <2>1, <3>1, <3>2
    <3>4. Greatest(S) = CHOOSE n \in S : P(n)
      BY <2>1 DEF Greatest, P
    <3> QED BY <2>4, <3>3, <3>4 DEF EndIn
  <2> QED BY <2>3, <2>4 DEF Side
<1> QED BY <1>1, <1>2

\* The walk to one side ends at the end of the tree.
LEMMA ExtremeEnd ==
    ASSUME NEW t \in Tree, NEW M, NEW sub, Shape(t, M, sub), NEW s \in Side, t.root # NULL
    PROVE  IsEnd(M, s, Extreme(t, t.root, s))
<1>1. t.root \in M /\ sub[t.root] = M /\ M \subseteq Node
  BY DEF Shape
<1>2. EndOf(t, sub, t.root, s, Extreme(t, t.root, s))
  BY <1>1, ExtremeIs
<1> QED BY <1>1, <1>2, NullOutside DEF EndOf, IsEnd

\* The loop of eaf_map_low_next and eaf_map_low_prev that goes up.
LEMMA ClimbFunction ==
    ASSUME NEW t \in Tree, NEW s \in Side
    PROVE  \E f : /\ \A m \in Node : f[m] = IF t.up[m] # NULL /\ m = t.kid[s][t.up[m]]
                                            THEN f[t.up[m]] ELSE t.up[m]
                  /\ \A n : Climb(t, n, s) = f[n]
<1> DEFINE on(m) == t.up[m] # NULL /\ m = t.kid[s][t.up[m]]
           H == {m \in Node : ~on(m)}
           nx == [m \in Node |-> t.up[m]]
           climb[m \in Node] == LET p == t.up[m]
                                IN  IF p # NULL /\ m = t.kid[s][p] THEN climb[p] ELSE p
<1>1. \A m \in Node : m \notin H => nx[m] \in Node
  BY TreeFields DEF Ref
<1>2. \E f : IsLoop(f, Node, H, nx, nx)
  <2> HIDE DEF H, nx
  <2> QED BY <1>1, LoopExists
<1>3. PICK g : IsLoop(g, Node, H, nx, nx)
  BY <1>2
<1>4. \A m \in Node : (m \in H <=> ~on(m)) /\ nx[m] = t.up[m]
  OBVIOUS
<1> HIDE DEF H, nx, on
<1>5. \E f : f = [m \in Node |-> IF on(m) THEN f[t.up[m]] ELSE t.up[m]]
  <2>1. \A m \in Node : g[m] = IF on(m) THEN g[t.up[m]] ELSE t.up[m]
    BY <1>3, <1>4 DEF IsLoop
  <2>2. g = [m \in Node |-> g[m]]
    BY <1>3 DEF IsLoop
  <2>3. g = [m \in Node |-> IF on(m) THEN g[t.up[m]] ELSE t.up[m]]
    BY <2>1, <2>2, ZenonT(60)
  <2> QED BY <2>3
<1>6. climb = [m \in Node |-> IF on(m) THEN climb[t.up[m]] ELSE t.up[m]]
  BY <1>5 DEF on
<1>7. \A n : Climb(t, n, s) = climb[n]
  BY DEF Climb
<1> HIDE DEF climb
<1>8. \A m \in Node : climb[m] = IF on(m) THEN climb[t.up[m]] ELSE t.up[m]
  BY <1>6
<1> QED BY <1>7, <1>8 DEF on

\* What is outside the subtree of m and on side s of m.
Outside(M, sub, s, m) == {k \in M \ sub[m] : Before(s, k, m)}

\* r is the one of them next to m.
Climbed(M, sub, s, m, r) == IsEnd(Outside(M, sub, s, m), Other(s), r)

\* Going up from the child at side s loses no candidate.
LEMMA ClimbOneSide ==
    ASSUME NEW t \in Tree, NEW M, NEW sub, Shape(t, M, sub), NEW n \in M, NEW s \in Side,
           t.kid[s][n] # NULL
    PROVE  Outside(M, sub, s, t.kid[s][n]) = Outside(M, sub, s, n)
<1> DEFINE c == t.kid[s][n]
<1>1. /\ c \in M /\ sub[c] = Half(sub, s, n) /\ Before(s, c, n) /\ c \in sub[n]
      /\ n \in sub[n] /\ sub[c] \subseteq sub[n] /\ M \in SUBSET Node /\ Distinctly(M)
  BY KidFacts DEF Shape
<1> HIDE DEF c
<1>2. ASSUME NEW k \in M, k \notin sub[c], Before(s, k, c)
      PROVE  k \notin sub[n] /\ Before(s, k, n)
  <2>1. Before(s, k, n)
    BY <1>1, <1>2, BeforeFacts
  <2> QED BY <2>1, <1>1, <1>2 DEF Half
<1>3. ASSUME NEW k \in M, k \notin sub[n], Before(s, k, n)
      PROVE  k \notin sub[c] /\ Before(s, k, c)
  <2>1. k # c
    BY <1>1, <1>3
  <2>2. CASE Before(s, c, k)
    BY <2>2, <1>1, <1>3, Convex
  <2> QED BY <2>1, <2>2, <1>1, <1>3, BeforeFacts
<1>4. Outside(M, sub, s, c) = Outside(M, sub, s, n)
  BY <1>2, <1>3 DEF Outside
<1> QED BY <1>4 DEF c

\* Going up from the other child ends at the parent.
LEMMA ClimbOtherSide ==
    ASSUME NEW t \in Tree, NEW M, NEW sub, Shape(t, M, sub), NEW n \in M, NEW s \in Side,
           t.kid[Other(s)][n] # NULL
    PROVE  Climbed(M, sub, s, t.kid[Other(s)][n], n)
<1> DEFINE o == Other(s)
           c == t.kid[o][n]
<1>0. o \in Side /\ Other(o) = s
  BY SideFacts
<1>1. /\ c \in M /\ sub[c] = Half(sub, o, n) /\ Before(o, c, n) /\ c \in sub[n]
      /\ n \in sub[n] /\ n \notin sub[c] /\ M \in SUBSET Node /\ Distinctly(M)
  BY <1>0, KidFacts DEF Shape
<1> HIDE DEF c, o
<1>2. Before(s, n, c)
  BY <1>0, <1>1, BeforeFacts
<1>3. ASSUME NEW k \in M, k \notin sub[c], Before(s, k, c), k # n
      PROVE  Before(o, n, k)
  <2>1. CASE Before(s, n, k)
    <3>1. k \in sub[n]
      BY <2>1, <1>1, <1>3, Convex
    <3>2. Before(o, k, n)
      BY <2>1, <1>0, <1>1, BeforeFacts
    <3> QED BY <3>1, <3>2, <1>1, <1>3 DEF Half
  <2>2. CASE Before(s, k, n)
    BY <2>2, <1>0, <1>1, BeforeFacts
  <2> QED BY <2>1, <2>2, <1>1, <1>3, BeforeFacts
<1>4. n \in Outside(M, sub, s, c) /\ n # NULL
  BY <1>1, <1>2, NullOutside DEF Outside
<1>5. IsEnd(Outside(M, sub, s, c), o, n)
  BY <1>3, <1>4 DEF IsEnd, Outside
<1> QED BY <1>5 DEF Climbed, c, o

\* The loop that goes up ends at the nearest node outside the subtree.
LEMMA ClimbIs ==
    ASSUME NEW t \in Tree, NEW M, NEW sub, Shape(t, M, sub), NEW n \in M, NEW s \in Side
    PROVE  Climbed(M, sub, s, n, Climb(t, n, s))
<1>0. M \subseteq Node
  BY DEF Shape
<1>1. PICK f : /\ \A m \in Node : f[m] = IF t.up[m] # NULL /\ m = t.kid[s][t.up[m]]
                                         THEN f[t.up[m]] ELSE t.up[m]
               /\ \A m : Climb(t, m, s) = f[m]
  BY ClimbFunction
<1> DEFINE G == {m \in M : Climbed(M, sub, s, m, f[m])}
<1>2. M # {} => t.root \in G
  <2> SUFFICES ASSUME M # {} PROVE t.root \in G
    OBVIOUS
  <2>1. t.root \in M /\ sub[t.root] = M /\ t.up[t.root] = NULL
    BY DEF Shape
  <2>2. f[t.root] = NULL
    BY <2>1, <1>0, <1>1
  <2>3. Outside(M, sub, s, t.root) = {}
    BY <2>1 DEF Outside
  <2> QED BY <2>1, <2>2, <2>3 DEF Climbed, IsEnd
<1>3. ASSUME NEW m \in M, NEW d \in Side, m \in G, t.kid[d][m] # NULL
      PROVE  t.kid[d][m] \in G
  <2> DEFINE c == t.kid[d][m]
  <2>1. c \in M /\ c \in Node /\ t.up[c] = m /\ m # NULL
    BY <1>0, <1>3, KidFacts, NullOutside
  <2>2. CASE d = s
    <3>1. f[c] = f[m]
      BY <2>1, <2>2, <1>1
    <3>2. Outside(M, sub, s, c) = Outside(M, sub, s, m)
      BY <1>3, <2>2, ClimbOneSide
    <3>3. Climbed(M, sub, s, c, f[c])
      BY <3>1, <3>2, <1>3 DEF Climbed
    <3> QED BY <2>1, <3>3
  <2>3. CASE d = Other(s)
    <3>1. c # t.kid[s][m]
      <4>1. t.kid[Other(d)][m] # t.kid[d][m] /\ Other(d) = s
        BY <1>3, <2>3, KidsApart, SideFacts
      <4> QED BY <4>1
    <3>2. f[c] = m
      <4> HIDE DEF c
      <4> QED BY <2>1, <3>1, <1>1
    <3>3. Climbed(M, sub, s, c, m)
      BY <1>3, <2>3, ClimbOtherSide
    <3> QED BY <2>1, <3>2, <3>3
  <2> QED BY <2>2, <2>3, SideFacts
<1> HIDE DEF G
<1>4. M \subseteq G
  BY <1>2, <1>3, TopDown
<1> QED BY <1>1, <1>4 DEF G

\* The nodes on side s of n.
OnSide(M, s, n) == {m \in M : Before(s, m, n)}

\* One step to side s ends at the nearest node on that side.
LEMMA StepEnd ==
    ASSUME NEW t \in Tree, NEW M, NEW sub, Shape(t, M, sub), NEW n \in M, NEW s \in Side
    PROVE  IsEnd(OnSide(M, s, n), Other(s), Step(t, n, s))
<1> DEFINE o == Other(s)
           r == Step(t, n, s)
<1>0. /\ o \in Side /\ Other(o) = s /\ M \in SUBSET Node /\ Distinctly(M)
      /\ n \in sub[n] /\ sub[n] \subseteq M
  BY SideFacts DEF Shape
<1>1. CASE t.kid[s][n] # NULL
  <2> DEFINE c == t.kid[s][n]
  <2>1. c \in M /\ sub[c] = Half(sub, s, n)
    BY <1>1, KidFacts
  <2>2. r = Extreme(t, c, o)
    BY <1>1 DEF Step
  <2> HIDE DEF c, r, o
  <2>3. EndOf(t, sub, c, o, r)
    BY <2>1, <2>2, <1>0, ExtremeIs
  <2>4. r \in sub[n] /\ Before(s, r, n) /\ r \in M /\ r # NULL
    BY <2>1, <2>3, <1>0, NullOutside DEF EndOf, Half
  <2>5. ASSUME NEW m \in M, Before(s, m, n), m # r PROVE Before(o, r, m)
    <3>1. CASE m \in sub[n]
      BY <3>1, <2>1, <2>3, <2>5 DEF EndOf, Half
    <3>2. CASE m \notin sub[n]
      <4>1. ~Before(s, r, m)
        BY <3>2, <2>4, <2>5, <1>0, Convex
      <4>2. Before(s, m, r)
        BY <4>1, <2>4, <2>5, <1>0, BeforeFacts
      <4> QED BY <4>2, <2>4, <1>0, BeforeFacts
    <3> QED BY <3>1, <3>2
  <2>6. r \in OnSide(M, s, n) /\ \A m \in OnSide(M, s, n) : m # r => Before(o, r, m)
    BY <2>4, <2>5 DEF OnSide
  <2> QED BY <2>4, <2>6 DEF IsEnd, r, o
<1>2. CASE t.kid[s][n] = NULL
  <2>1. r = Climb(t, n, s)
    BY <1>2 DEF Step
  <2>2. Half(sub, s, n) = {}
    BY <1>2 DEF Shape
  <2>3. Outside(M, sub, s, n) = OnSide(M, s, n)
    BY <2>2 DEF Outside, OnSide, Half
  <2>4. Climbed(M, sub, s, n, r)
    BY <2>1, ClimbIs
  <2> QED BY <2>3, <2>4 DEF Climbed
<1> QED BY <1>1, <1>2

\* A node on side s of key k, or at k.
NearKey(s, m, k) == IF s = "left" THEN Key(m) <= k ELSE k <= Key(m)

\* The answer of a descent for the nearest such node: b is the one from above.
Nearest(sub, s, k, m, b, r) ==
    \/ r = b /\ \A j \in sub[m] : ~NearKey(s, j, k)
    \/ /\ r \in sub[m] /\ NearKey(s, r, k)
       /\ \A j \in sub[m] : NearKey(s, j, k) /\ j # r => Before(s, j, r)

\* One step of the descent.
LEMMA NearestStep ==
    ASSUME NEW t \in Tree, NEW M, NEW sub, Shape(t, M, sub), NEW m \in M, NEW s \in Side,
           NEW k \in Int, NEW b, NEW r, NEW c, t.kid[Toward(k, m)][m] = c,
           \/ Key(m) = k /\ r = m
           \/ /\ Key(m) # k
              /\ c = NULL => r = IF NearKey(s, m, k) THEN m ELSE b
              /\ c # NULL => Nearest(sub, s, k, c, IF NearKey(s, m, k) THEN m ELSE b, r)
    PROVE  Nearest(sub, s, k, m, b, r)
<1> DEFINE d == Toward(k, m)
<1>0. /\ d \in Side /\ Key(m) \in Int /\ M \in SUBSET Node /\ Distinctly(M)
      /\ m \in sub[m] /\ sub[m] \subseteq M
      /\ \A j \in M : Key(j) \in Int
  BY KeyInt DEF Toward, Side, Shape
<1>1. CASE Key(m) = k /\ r = m
  <2>1. NearKey(s, m, k)
    BY <1>0, <1>1 DEF NearKey
  <2>2. ASSUME NEW j \in sub[m], NearKey(s, j, k), j # m PROVE Before(s, j, m)
    <3>1. Key(j) # Key(m) /\ Key(j) \in Int
      BY <2>2, <1>0 DEF Distinctly
    <3> QED BY <3>1, <2>2, <1>0, <1>1 DEF NearKey, Before
  <2> QED BY <1>0, <1>1, <2>1, <2>2 DEF Nearest
<1>2. CASE Key(m) # k
  <2>1. c = NULL => Half(sub, d, m) = {}
    BY <1>0 DEF Shape
  <2>2. c # NULL => sub[c] = Half(sub, d, m)
    BY <1>0, KidFacts
  <2>3. CASE NearKey(s, m, k)
    \* m is the answer unless there is a nearer one beyond it
    <3>1. Half(sub, d, m) = {j \in sub[m] : Before(s, m, j)}
      <4>1. \A j \in sub[m] : Before(d, j, m) <=> Before(s, m, j)
        BY <1>0, <1>2, <2>3 DEF NearKey, Before, Toward, Side
      <4> QED BY <4>1 DEF Half
    <3>2. ASSUME NEW j \in sub[m], j # m, j \notin Half(sub, d, m) PROVE Before(s, j, m)
      BY <3>1, <3>2, <1>0, BeforeFacts
    <3>3. CASE c = NULL
      <4>1. r = m
        BY <1>2, <2>3, <3>3
      <4> QED BY <4>1, <2>1, <2>3, <3>2, <3>3, <1>0 DEF Nearest
    <3>4. CASE c # NULL
      <4>1. Nearest(sub, s, k, c, m, r)
        BY <1>2, <2>3, <3>4
      <4>2. sub[c] = Half(sub, d, m)
        BY <2>2, <3>4
      <4> HIDE DEF d
      <4>3. CASE r = m /\ \A j \in sub[c] : ~NearKey(s, j, k)
        BY <4>2, <4>3, <3>2, <2>3, <1>0 DEF Nearest
      <4>4. CASE /\ r \in sub[c] /\ NearKey(s, r, k)
                 /\ \A j \in sub[c] : NearKey(s, j, k) /\ j # r => Before(s, j, r)
        <5>1. r \in sub[m] /\ Before(s, m, r) /\ r \in M
          BY <4>2, <4>4, <3>1, <1>0
        <5>2. ASSUME NEW j \in sub[m], j \notin sub[c], j # r PROVE Before(s, j, r)
          <6>1. j = m \/ Before(s, j, m)
            BY <5>2, <4>2, <3>2
          <6> QED BY <6>1, <5>1, <1>0, BeforeFacts
        <5> QED BY <4>4, <5>1, <5>2 DEF Nearest
      <4> QED BY <4>1, <4>3, <4>4 DEF Nearest
    <3> QED BY <3>3, <3>4
  <2>4. CASE ~NearKey(s, m, k)
    \* all that are near are on the other side of m
    <3>1. ASSUME NEW j \in sub[m], NearKey(s, j, k) PROVE j \in Half(sub, d, m)
      <4>1. Before(d, j, m)
        BY <3>1, <1>0, <1>2, <2>4 DEF NearKey, Before, Toward, Side
      <4> QED BY <4>1 DEF Half
    <3>2. Half(sub, d, m) \subseteq sub[m]
      BY DEF Half
    <3>3. CASE c = NULL
      <4>1. r = b
        BY <1>2, <2>4, <3>3
      <4> QED BY <4>1, <2>1, <3>1, <3>3 DEF Nearest
    <3>4. CASE c # NULL
      <4>1. Nearest(sub, s, k, c, b, r)
        BY <1>2, <2>4, <3>4
      <4>2. sub[c] = Half(sub, d, m)
        BY <2>2, <3>4
      <4> HIDE DEF d
      <4> QED BY <4>1, <4>2, <3>1, <3>2 DEF Nearest
    <3> QED BY <3>3, <3>4
  <2> QED BY <2>3, <2>4
<1> QED BY <1>1, <1>2

\* What the two loops have in common; the key of a node met is left to each.
IsSearch(f, t, s, k) ==
    /\ \A b \in Ref : f[<<NULL, b>>] = b
    /\ \A m \in Node, b \in Ref : Key(m) # k =>
          f[<<m, b>>] = f[<<t.kid[Toward(k, m)][m], IF NearKey(s, m, k) THEN m ELSE b>>]

\* The descent ends at the nearest node.
LEMMA SearchIs ==
    ASSUME NEW t \in Tree, NEW M, NEW sub, Shape(t, M, sub), NEW s \in Side, NEW k \in Int,
           NEW f, IsSearch(f, t, s, k),
           \A m \in M, b \in Ref : Key(m) = k => f[<<m, b>>] = m,
           t.root # NULL
    PROVE  IsEnd({m \in M : NearKey(s, m, k)}, Other(s), f[<<t.root, NULL>>])
<1> DEFINE Ok(m) == \A b \in Ref : Nearest(sub, s, k, m, b, f[<<m, b>>])
           G == {m \in M : Ok(m)}
<1>0. M \subseteq Node /\ M \in SUBSET Node /\ Distinctly(M) /\ t.root \in M /\ sub[t.root] = M
  BY DEF Shape
<1>1. ASSUME NEW m \in M, \A d \in Side : t.kid[d][m] # NULL => t.kid[d][m] \in G
      PROVE  m \in G
  <2> SUFFICES ASSUME NEW b \in Ref PROVE Nearest(sub, s, k, m, b, f[<<m, b>>])
    OBVIOUS
  <2> DEFINE c == t.kid[Toward(k, m)][m]
             b2 == IF NearKey(s, m, k) THEN m ELSE b
             r == f[<<m, b>>]
  <2>1. b2 \in Ref /\ m \in Node
    BY <1>0 DEF Ref
  <2>2. c # NULL => c \in G
    BY <1>1 DEF Toward, Side
  <2>3. Key(m) = k => r = m
    OBVIOUS
  <2>4. Key(m) # k => r = f[<<c, b2>>]
    BY <2>1 DEF IsSearch
  <2>5. f[<<NULL, b2>>] = b2
    BY <2>1 DEF IsSearch
  <2>6. t.kid[Toward(k, m)][m] = c
    OBVIOUS
  <2>7. c # NULL => Nearest(sub, s, k, c, b2, f[<<c, b2>>])
    BY <2>1, <2>2
  <2> HIDE DEF c, r
  <2>8. \/ Key(m) = k /\ r = m
        \/ /\ Key(m) # k
           /\ c = NULL => r = b2
           /\ c # NULL => Nearest(sub, s, k, c, b2, r)
    <3> HIDE DEF b2
    <3> QED BY <2>3, <2>4, <2>5, <2>7
  <2>9. Nearest(sub, s, k, m, b, r)
    BY <2>6, <2>8, NearestStep
  <2> QED BY <2>9 DEF r
<1> HIDE DEF G
<1>2. M \subseteq G
  BY <1>1, BottomUp
<1> DEFINE S == {m \in M : NearKey(s, m, k)}
           r == f[<<t.root, NULL>>]
<1>3. Nearest(sub, s, k, t.root, NULL, r)
  BY <1>0, <1>2 DEF G, Ref
<1> HIDE DEF r
<1>4. CASE r = NULL
  <2>1. r \notin sub[t.root]
    BY <1>0, <1>4, NullOutside
  <2>2. S = {}
    BY <1>0, <1>3, <2>1 DEF Nearest
  <2> QED BY <1>4, <2>2 DEF IsEnd, r
<1>5. CASE r # NULL
  <2>1. r \in S /\ \A j \in S : j # r => Before(s, j, r)
    BY <1>0, <1>3, <1>5 DEF Nearest
  <2>2. \A j \in S : j # r => Before(Other(s), r, j)
    <3> HIDE DEF S
    <3>1. S \subseteq M
      BY DEF S
    <3> QED BY <2>1, <3>1, <1>0, BeforeFacts
  <2> HIDE DEF S
  <2> QED BY <1>5, <2>1, <2>2 DEF IsEnd, r, S
<1> QED BY <1>4, <1>5

\* The loop of eaf_map_find_lower as a function.
LEMMA LowerFunction ==
    ASSUME NEW t \in Tree, NEW k \in Int
    PROVE  \E f : /\ IsSearch(f, t, "left", k)
                  /\ \A m \in Node, b \in Ref : Key(m) = k => f[<<m, b>>] = m
                  /\ \A n : FindLower(t, k, n) = f[<<n, NULL>>]
<1> DEFINE next(x) == <<t.kid[Toward(k, x[1])][x[1]], IF k > Key(x[1]) THEN x[1] ELSE x[2]>>
           H == {x \in Place : x[1] = NULL \/ k = Key(x[1])}
           nx == [x \in Place |-> next(x)]
           out == [x \in Place |-> IF x[1] = NULL THEN x[2] ELSE x[1]]
           down[x \in Place] ==
              LET m == x[1]
                  c == t.kid[Toward(k, m)][m]
              IN  IF m = NULL THEN x[2]
                  ELSE IF k = Key(m) THEN m
                  ELSE down[<<c, IF k > Key(m) THEN m ELSE x[2]>>]
<1>0. Place = Ref \X Ref /\ \A m \in Node : Key(m) \in Int
  BY KeyInt DEF Place, Ref
<1>1. ASSUME NEW x \in Place, x \notin H PROVE nx[x] \in Place
  <2>1. x[1] \in Node /\ x[2] \in Ref
    BY <1>0, <1>1 DEF Ref
  <2>2. t.kid[Toward(k, x[1])][x[1]] \in Ref
    BY <2>1, TreeFields DEF Toward, Side
  <2>3. (IF k > Key(x[1]) THEN x[1] ELSE x[2]) \in Ref
    BY <2>1 DEF Ref
  <2>4. next(x) \in Place
    BY <2>2, <2>3, <1>0
  <2> QED BY <2>4
<1>2. \E f : IsLoop(f, Place, H, nx, out)
  <2> HIDE DEF H, nx, out
  <2> QED BY <1>1, LoopExists
<1>3. PICK g : IsLoop(g, Place, H, nx, out)
  BY <1>2
<1>4. \A x \in Place : /\ x \in H <=> x[1] = NULL \/ k = Key(x[1])
                       /\ nx[x] = next(x) /\ out[x] = IF x[1] = NULL THEN x[2] ELSE x[1]
  OBVIOUS
<1> HIDE DEF H, nx, out, next
<1>5. \E f : f = [x \in Place |-> IF x[1] = NULL THEN x[2]
                                  ELSE IF k = Key(x[1]) THEN x[1] ELSE f[next(x)]]
  <2> DEFINE h(x) == IF x[1] = NULL THEN x[2]
                     ELSE IF k = Key(x[1]) THEN x[1] ELSE g[next(x)]
  <2>1. \A x \in Place : g[x] = h(x)
    BY <1>3, <1>4 DEF IsLoop
  <2>2. g = [x \in Place |-> g[x]]
    BY <1>3 DEF IsLoop
  <2> HIDE DEF h
  <2>3. g = [x \in Place |-> h(x)]
    BY <2>1, <2>2, SMTT(60)
  <2> QED BY <2>3 DEF h
<1>6. down = [x \in Place |-> IF x[1] = NULL THEN x[2]
                              ELSE IF k = Key(x[1]) THEN x[1] ELSE down[next(x)]]
  BY <1>5 DEF next
<1>7. \A n : FindLower(t, k, n) = down[<<n, NULL>>]
  BY DEF FindLower
<1> HIDE DEF down
<1>8. \A x \in Place : down[x] = IF x[1] = NULL THEN x[2]
                                 ELSE IF k = Key(x[1]) THEN x[1] ELSE down[next(x)]
  BY <1>6
<1>9. \A m \in Ref, b \in Ref :
         /\ <<m, b>> \in Place /\ <<m, b>>[1] = m /\ <<m, b>>[2] = b
         /\ next(<<m, b>>) = <<t.kid[Toward(k, m)][m], IF k > Key(m) THEN m ELSE b>>
  BY <1>0 DEF next
<1>10. \A m \in Ref, b \in Ref :
          down[<<m, b>>] = IF m = NULL THEN b ELSE IF k = Key(m) THEN m
                           ELSE down[<<t.kid[Toward(k, m)][m], IF k > Key(m) THEN m ELSE b>>]
  BY <1>8, <1>9, ZenonT(60)
<1>11. \A m \in Node : m # NULL /\ m \in Ref /\ (k = Key(m) <=> Key(m) = k)
                       /\ (Key(m) # k => (k > Key(m) <=> NearKey("left", m, k)))
  <2>1. \A m \in Node : m # NULL /\ m \in Ref
    BY NullOutside DEF Ref
  <2>2. \A m \in Node : Key(m) # k => (k > Key(m) <=> Key(m) <= k)
    BY <1>0
  <2>3. \A m : NearKey("left", m, k) <=> Key(m) <= k
    BY DEF NearKey
  <2> QED BY <2>1, <2>2, <2>3, Zenon
<1>12. IsSearch(down, t, "left", k)
  <2>1. \A b \in Ref : down[<<NULL, b>>] = b
    BY <1>10 DEF Ref
  <2>2. ASSUME NEW m \in Node, NEW b \in Ref, Key(m) # k
        PROVE  down[<<m, b>>] = down[<<t.kid[Toward(k, m)][m], IF NearKey("left", m, k) THEN m ELSE b>>]
    BY <2>2, <1>10, <1>11
  <2> QED BY <2>1, <2>2 DEF IsSearch
<1>13. \A m \in Node, b \in Ref : Key(m) = k => down[<<m, b>>] = m
  BY <1>10, <1>11
<1> QED BY <1>7, <1>12, <1>13

\* The loop of eaf_map_find_upper as a function.
LEMMA UpperFunction ==
    ASSUME NEW t \in Tree, NEW k \in Int
    PROVE  \E f : /\ IsSearch(f, t, "right", k)
                  /\ \A n : FindUpper(t, k, n) = f[<<n, NULL>>]
<1> DEFINE next(x) == <<t.kid[Toward(k, x[1])][x[1]], IF k < Key(x[1]) THEN x[1] ELSE x[2]>>
           last(x) == IF x[2] = NULL THEN t.kid["right"][x[1]] ELSE x[2]
           H == {x \in Place : x[1] = NULL \/ k = Key(x[1])}
           nx == [x \in Place |-> next(x)]
           out == [x \in Place |-> IF x[1] = NULL THEN x[2] ELSE last(x)]
           down[x \in Place] ==
              LET m == x[1]
                  c == t.kid[Toward(k, m)][m]
              IN  IF m = NULL THEN x[2]
                  ELSE IF k = Key(m) THEN (IF x[2] = NULL THEN t.kid["right"][m] ELSE x[2])
                  ELSE down[<<c, IF k < Key(m) THEN m ELSE x[2]>>]
<1>0. Place = Ref \X Ref /\ \A m \in Node : Key(m) \in Int
  BY KeyInt DEF Place, Ref
<1>1. ASSUME NEW x \in Place, x \notin H PROVE nx[x] \in Place
  <2>1. x[1] \in Node /\ x[2] \in Ref
    BY <1>0, <1>1 DEF Ref
  <2>2. t.kid[Toward(k, x[1])][x[1]] \in Ref
    BY <2>1, TreeFields DEF Toward, Side
  <2>3. (IF k < Key(x[1]) THEN x[1] ELSE x[2]) \in Ref
    BY <2>1 DEF Ref
  <2>4. next(x) \in Place
    BY <2>2, <2>3, <1>0
  <2> QED BY <2>4
<1>2. \E f : IsLoop(f, Place, H, nx, out)
  <2> HIDE DEF H, nx, out
  <2> QED BY <1>1, LoopExists
<1>3. PICK g : IsLoop(g, Place, H, nx, out)
  BY <1>2
<1>4. \A x \in Place : /\ x \in H <=> x[1] = NULL \/ k = Key(x[1])
                       /\ nx[x] = next(x) /\ out[x] = IF x[1] = NULL THEN x[2] ELSE last(x)
  OBVIOUS
<1> HIDE DEF H, nx, out, next, last
<1>5. \E f : f = [x \in Place |-> IF x[1] = NULL THEN x[2]
                                  ELSE IF k = Key(x[1]) THEN last(x) ELSE f[next(x)]]
  <2> DEFINE h(x) == IF x[1] = NULL THEN x[2]
                     ELSE IF k = Key(x[1]) THEN last(x) ELSE g[next(x)]
  <2>1. \A x \in Place : g[x] = h(x)
    BY <1>3, <1>4 DEF IsLoop
  <2>2. g = [x \in Place |-> g[x]]
    BY <1>3 DEF IsLoop
  <2> HIDE DEF h
  <2>3. g = [x \in Place |-> h(x)]
    BY <2>1, <2>2
  <2> QED BY <2>3 DEF h
<1>6. down = [x \in Place |-> IF x[1] = NULL THEN x[2]
                              ELSE IF k = Key(x[1]) THEN last(x) ELSE down[next(x)]]
  BY <1>5, Zenon DEF next, last
<1>7. \A n : FindUpper(t, k, n) = down[<<n, NULL>>]
  BY DEF FindUpper
<1> HIDE DEF down
<1>8. \A x \in Place : down[x] = IF x[1] = NULL THEN x[2]
                                 ELSE IF k = Key(x[1]) THEN last(x) ELSE down[next(x)]
  BY <1>6
<1>9. \A m \in Ref, b \in Ref :
         /\ <<m, b>> \in Place /\ <<m, b>>[1] = m /\ <<m, b>>[2] = b
         /\ next(<<m, b>>) = <<t.kid[Toward(k, m)][m], IF k < Key(m) THEN m ELSE b>>
  BY <1>0 DEF next
<1>10. \A m \in Ref, b \in Ref :
          m = NULL \/ k # Key(m) =>
            down[<<m, b>>] = IF m = NULL THEN b
                             ELSE down[<<t.kid[Toward(k, m)][m], IF k < Key(m) THEN m ELSE b>>]
  BY <1>8, <1>9
<1>11. \A m \in Node : m # NULL /\ m \in Ref /\ (k = Key(m) <=> Key(m) = k)
                       /\ (Key(m) # k => (k < Key(m) <=> NearKey("right", m, k)))
  <2>1. \A m \in Node : m # NULL /\ m \in Ref
    BY NullOutside DEF Ref
  <2>2. \A m \in Node : Key(m) # k => (k < Key(m) <=> k <= Key(m))
    BY <1>0
  <2>3. \A m : NearKey("right", m, k) <=> k <= Key(m)
    BY DEF NearKey
  <2> QED BY <2>1, <2>2, <2>3, Zenon
<1>12. IsSearch(down, t, "right", k)
  <2>1. \A b \in Ref : down[<<NULL, b>>] = b
    BY <1>10 DEF Ref
  <2>2. ASSUME NEW m \in Node, NEW b \in Ref, Key(m) # k
        PROVE  down[<<m, b>>] = down[<<t.kid[Toward(k, m)][m], IF NearKey("right", m, k) THEN m ELSE b>>]
    BY <2>2, <1>10, <1>11
  <2> QED BY <2>1, <2>2 DEF IsSearch
<1> QED BY <1>7, <1>12

\* In an empty map nothing is found.
LEMMA EmptyAnswers ==
    ASSUME TreeKept, tree.root = NULL, NEW k \in Int
    PROVE  MapFind(tree, k) = NULL /\ MapFindLower(k) = NULL /\ MapFindUpper(k) = NULL
<1>1. MapFind(tree, k) = NULL
  BY DEF MapFind
<1>2. tree \in Tree /\ NULL \in Ref
  BY DEF TreeKept, Sound, Ref
<1>3. PICK f : IsSearch(f, tree, "left", k) /\ \A n : FindLower(tree, k, n) = f[<<n, NULL>>]
  BY <1>2, LowerFunction
<1>4. PICK g : IsSearch(g, tree, "right", k) /\ \A n : FindUpper(tree, k, n) = g[<<n, NULL>>]
  BY <1>2, UpperFunction
<1> QED BY <1>1, <1>2, <1>3, <1>4 DEF IsSearch, MapFindLower, MapFindUpper

\* The three lookups of a key, present or absent.
LEMMA LookupsAgree ==
    ASSUME TreeKept, NEW k \in Int
    PROVE  /\ MapFind(tree, k) = Least(With(k))
           /\ MapFindLower(k) = Greatest({n \in In : Key(n) <= k})
           /\ With(k) = {} => MapFindUpper(k) = Least({n \in In : Key(n) > k})
<1> DEFINE M == Linked(tree)
           L == {n \in M : Key(n) <= k}
           U == {n \in M : Key(n) > k}
           W == {n \in M : Key(n) = k}
<1>0. PICK sub : Shape(tree, M, sub)
  BY DEF TreeKept, Sound
<1>1. /\ tree \in Tree /\ In = M /\ M \in SUBSET Node /\ Distinctly(M)
      /\ L \in SUBSET M /\ U \in SUBSET M /\ W \in SUBSET M /\ With(k) = W
      /\ \A n \in M : Key(n) \in Int
  BY <1>0, InIsLinked, KeyInt DEF TreeKept, Sound, Shape, With
<1>2. "left" \in Side /\ "right" \in Side /\ Other("left") = "right" /\ Other("right") = "left"
  BY DEF Side, Other
<1>3. ASSUME IsEnd(W, "left", MapFind(tree, k)), IsEnd(L, "right", MapFindLower(k)),
             W = {} => IsEnd(U, "left", MapFindUpper(k))
      PROVE  /\ MapFind(tree, k) = Least(With(k))
             /\ MapFindLower(k) = Greatest({n \in In : Key(n) <= k})
             /\ With(k) = {} => MapFindUpper(k) = Least({n \in In : Key(n) > k})
  <2> HIDE DEF M, L, U, W
  <2>1. EndIn(W, "left") = MapFind(tree, k) /\ EndIn(L, "right") = MapFindLower(k)
    BY <1>1, <1>2, <1>3, EndUnique
  <2>2. W = {} => EndIn(U, "left") = MapFindUpper(k)
    BY <1>1, <1>2, <1>3, EndUnique
  <2>3. \A S : EndIn(S, "left") = Least(S) /\ EndIn(S, "right") = Greatest(S)
    BY DEF EndIn
  <2>4. {n \in In : Key(n) <= k} = L /\ {n \in In : Key(n) > k} = U
    BY <1>1 DEF L, U
  <2> QED BY <2>1, <2>2, <2>3, <2>4, <1>1
<1>4. CASE tree.root = NULL
  <2>1. M = {}
    BY <1>0, <1>4, NullOutside DEF Shape
  <2>2. L = {} /\ U = {} /\ W = {}
    BY <2>1
  <2>3. MapFind(tree, k) = NULL /\ MapFindLower(k) = NULL /\ MapFindUpper(k) = NULL
    BY <1>4, EmptyAnswers
  <2> HIDE DEF M, L, U, W
  <2> QED BY <2>2, <2>3, <1>3 DEF IsEnd
<1>5. CASE tree.root # NULL
  <2>1. tree.root \in M /\ sub[tree.root] = M
    BY <1>0, <1>5 DEF Shape
  <2>2. IsEnd(W, "left", MapFind(tree, k))
    <3> DEFINE r == Descend(tree, k, tree.root)
    <3>1. Found(tree, sub, k, tree.root, r)
      BY <1>0, <1>1, <2>1, DescendIs
    <3>2. MapFind(tree, k) = IF Key(r) = k THEN r ELSE NULL
      BY <1>5 DEF MapFind
    <3> HIDE DEF r
    <3>3. r \in M /\ r # NULL
      BY <3>1, <2>1, <1>1, NullOutside DEF Found
    <3>4. CASE Key(r) = k
      <4>1. \A m \in W : m = r
        BY <3>3, <3>4, <1>1 DEF Distinctly
      <4>2. r \in W
        BY <3>3, <3>4
      <4> HIDE DEF W, M
      <4> QED BY <3>2, <3>3, <3>4, <4>1, <4>2 DEF IsEnd
    <3>5. CASE Key(r) # k
      <4>1. W = {}
        BY <3>1, <3>5, <2>1 DEF Found
      <4> HIDE DEF W, M
      <4> QED BY <3>2, <3>5, <4>1 DEF IsEnd
    <3> QED BY <3>4, <3>5
  <2>3. IsEnd(L, "right", MapFindLower(k))
    <3>1. PICK f : /\ IsSearch(f, tree, "left", k)
                   /\ \A m \in Node, b \in Ref : Key(m) = k => f[<<m, b>>] = m
                   /\ \A n : FindLower(tree, k, n) = f[<<n, NULL>>]
      BY <1>1, LowerFunction
    <3> DEFINE S == {m \in M : NearKey("left", m, k)}
               r == f[<<tree.root, NULL>>]
    <3>2. \A m \in M, b \in Ref : Key(m) = k => f[<<m, b>>] = m
      BY <3>1, <1>1
    <3>3. IsEnd(S, Other("left"), r)
      <4> HIDE DEF M
      <4> QED BY <1>0, <1>1, <1>2, <1>5, <3>1, <3>2, SearchIs
    <3>4. MapFindLower(k) = r
      BY <3>1 DEF MapFindLower
    <3>5. S = L
      BY DEF NearKey
    <3> HIDE DEF S, L, r
    <3> QED BY <3>3, <3>4, <3>5, <1>2
  <2>4. ASSUME W = {} PROVE IsEnd(U, "left", MapFindUpper(k))
    <3>1. PICK f : /\ IsSearch(f, tree, "right", k)
                   /\ \A n : FindUpper(tree, k, n) = f[<<n, NULL>>]
      BY <1>1, UpperFunction
    <3> DEFINE S == {m \in M : NearKey("right", m, k)}
               r == f[<<tree.root, NULL>>]
    <3>2. \A m \in M, b \in Ref : Key(m) = k => f[<<m, b>>] = m
      BY <2>4
    <3>3. IsEnd(S, Other("right"), r)
      <4> HIDE DEF M
      <4> QED BY <1>0, <1>1, <1>2, <1>5, <3>1, <3>2, SearchIs, ZenonT(60)
    <3>4. MapFindUpper(k) = r
      BY <3>1 DEF MapFindUpper
    <3>5. S = U
      <4>1. \A m \in M : Key(m) # k /\ Key(m) \in Int
        BY <2>4, <1>1
      <4>2. \A m \in M : NearKey("right", m, k) <=> k <= Key(m)
        BY DEF NearKey
      <4> HIDE DEF M
      <4> QED BY <4>1, <4>2
    <3> HIDE DEF S, U, r
    <3> QED BY <3>3, <3>4, <3>5, <1>2
  <2> HIDE DEF M, L, U, W
  <2> QED BY <2>2, <2>3, <2>4, <1>3
<1> QED BY <1>4, <1>5

\* Iteration in both directions.
LEMMA IterationAgrees ==
    ASSUME TreeKept
    PROVE  /\ FirstNode(tree) = Least(In) /\ LastNode(tree) = Greatest(In)
           /\ \A n \in In : /\ NextNode(tree, n) = Least({m \in In : Key(m) > Key(n)})
                            /\ PrevNode(tree, n) = Greatest({m \in In : Key(m) < Key(n)})
<1> DEFINE M == Linked(tree)
<1>0. PICK sub : Shape(tree, M, sub)
  BY DEF TreeKept, Sound
<1>1. /\ tree \in Tree /\ In = M /\ M \in SUBSET Node /\ Distinctly(M)
      /\ \A n \in M : Key(n) \in Int
  BY <1>0, InIsLinked, KeyInt DEF TreeKept, Sound, Shape
<1>2. "left" \in Side /\ "right" \in Side /\ Other("left") = "right" /\ Other("right") = "left"
  BY DEF Side, Other
<1>3. \A S : EndIn(S, "left") = Least(S) /\ EndIn(S, "right") = Greatest(S)
  BY DEF EndIn
<1> HIDE DEF M
<1>4. FirstNode(tree) = Least(M) /\ LastNode(tree) = Greatest(M)
  <2>1. CASE tree.root = NULL
    <3>1. M = {} /\ FirstNode(tree) = NULL /\ LastNode(tree) = NULL
      BY <2>1, <1>0, NullOutside DEF Shape, FirstNode, LastNode
    <3> QED BY <3>1 DEF Least, Greatest
  <2>2. CASE tree.root # NULL
    <3>1. /\ FirstNode(tree) = Extreme(tree, tree.root, "left")
          /\ LastNode(tree) = Extreme(tree, tree.root, "right")
      BY <2>2 DEF FirstNode, LastNode
    <3>2. \A s \in Side : IsEnd(M, s, Extreme(tree, tree.root, s))
      BY <2>2, <1>0, <1>1, ExtremeEnd
    <3>3. \A s \in Side : EndIn(M, s) = Extreme(tree, tree.root, s)
      BY <3>2, <1>1, EndUnique
    <3> QED BY <3>1, <3>3, <1>2, <1>3
  <2> QED BY <2>1, <2>2
<1>5. ASSUME NEW n \in M
      PROVE  /\ NextNode(tree, n) = Least({m \in M : Key(m) > Key(n)})
             /\ PrevNode(tree, n) = Greatest({m \in M : Key(m) < Key(n)})
  <2>1. \A s \in Side : IsEnd(OnSide(M, s, n), Other(s), Step(tree, n, s))
    BY <1>0, <1>1, StepEnd
  <2>2. \A s \in Side : OnSide(M, s, n) \in SUBSET M /\ Other(s) \in Side
    BY SideFacts DEF OnSide
  <2>3. \A s \in Side : EndIn(OnSide(M, s, n), Other(s)) = Step(tree, n, s)
    BY <2>1, <2>2, <1>1, EndUnique
  <2>4. /\ OnSide(M, "right", n) = {m \in M : Key(m) > Key(n)}
        /\ OnSide(M, "left", n) = {m \in M : Key(m) < Key(n)}
    <3>1. \A m \in M : /\ Before("right", m, n) <=> Key(m) > Key(n)
                       /\ Before("left", m, n) <=> Key(m) < Key(n)
      BY <1>1 DEF Before
    <3> QED BY <3>1 DEF OnSide
  <2>5. NextNode(tree, n) = Step(tree, n, "right") /\ PrevNode(tree, n) = Step(tree, n, "left")
    BY DEF NextNode, PrevNode
  <2> QED BY <2>3, <2>4, <2>5, <1>2, <1>3
<1> QED BY <1>1, <1>4, <1>5

\* Every query of a sound map agrees with the set of its nodes.
LEMMA QueriesAgreeAlways ==
    ASSUME TreeKept
    PROVE  QueriesAgree
BY IterationAgrees, LookupsAgree, ProbeInt DEF QueriesAgree

\* The tree stays a red-black tree and every query answers as QueriesAgree says, after
\* any sequence of insertions and erasures, for any nodes with integer keys and any
\* keys looked up.
THEOREM MapIsSound == MapSpec => []MapSound
<1>1. MapInv => MapSound
  BY RedBlackHolds, QueriesAgreeAlways DEF MapInv, MapSound
<1> QED BY <1>1, MapInvariance, PTL

-----------------------------------------------------------------------------
(* The watchdog. *)

\* What the fields of the records are functions of.
RecordShape ==
    /\ begin \in [Record -> Int] /\ end \in [Record -> Int] /\ cerrc \in [Record -> Int]
    /\ recent \in [Record -> Seq(BOOLEAN)]
    /\ running \in BOOLEAN /\ intact \in BOOLEAN

\* Without a watchdog no record is watched, and what busy_table holds is freed.
Stopped ==
    ~running =>
        /\ idle_stack = {} /\ busy_stack = {} /\ busy_table = freed
        /\ flight = [r \in Record |-> "none"] /\ timer = "off"

\* Of at most j + 1 values in w, the last c are t.
EndsIn(w, j, c, t) ==
    /\ Len(w) <= j + 1 /\ c \in 0 .. Len(w)
    /\ \A i \in 1 .. Len(w) : i > Len(w) - c => w[i] = t

\* cerrc counts the late answers at the end of the recent ones.
Counts == \A r \in Record : EndsIn(recent[r], Jitter[r], cerrc[r], TRUE)

\* Every record reported has run out of the late answers it may have in a row.
Reported == \A r \in reported : cerrc[r] = Jitter[r] + 1

WatchdogInv == RecordShape /\ OnePlace /\ Stopped /\ Counts /\ Reported

-----------------------------------------------------------------------------
\* A grace is no negative number, and so no deadline is after itself and a grace:
\* the scan of the expired records reports none (line 154).
LEMMA GraceNat == \A r \in Record : Grace(r) \in Nat
<1>1. \A a, b \in Nat : a * b \in Nat
  OBVIOUS
<1> QED BY <1>1, WatchdogAssumption DEF Grace

\* Another value x goes in at the end, and the oldest one goes when there are too
\* many; the count goes on when x is t, up to j + 1, and begins anew when it is not.
Pushed(w, x, j) == IF Len(Append(w, x)) > j + 1 THEN Tail(Append(w, x)) ELSE Append(w, x)
Counted(x, t, j, c) == IF x # t THEN 0 ELSE IF c > j THEN c ELSE c + 1

LEMMA Window ==
    ASSUME NEW S, NEW w \in Seq(S), NEW x \in S, NEW t, NEW j \in Nat, NEW c,
           EndsIn(w, j, c, t)
    PROVE  /\ Pushed(w, x, j) \in Seq(S)
           /\ EndsIn(Pushed(w, x, j), j, Counted(x, t, j, c), t)
<1> DEFINE v == Pushed(w, x, j)
           e == Counted(x, t, j, c)
<1>0. /\ Len(w) <= j + 1 /\ c \in Nat /\ c <= Len(w) /\ Len(w) \in Nat
      /\ \A i \in 1 .. Len(w) : i > Len(w) - c => w[i] = t
  BY DEF EndsIn
<1>e. e = IF x # t THEN 0 ELSE IF c > j THEN c ELSE c + 1
  BY DEF Counted
<1> DEFINE all == Append(w, x)
<1>1. /\ all \in Seq(S) /\ Len(all) = Len(w) + 1 /\ all[Len(w) + 1] = x
      /\ \A i \in 1 .. Len(w) : all[i] = w[i]
  BY AppendProperties
<1>p. v = IF Len(all) > j + 1 THEN Tail(all) ELSE all
  BY DEF Pushed
<1> HIDE DEF all, v, e
<1> DEFINE Goal == /\ v \in Seq(S) /\ Len(v) <= j + 1 /\ e \in 0 .. Len(v)
                   /\ \A i \in 1 .. Len(v) : i > Len(v) - e => v[i] = t
<1>2. ASSUME Len(all) > j + 1 PROVE Goal
  <2>1. /\ v \in Seq(S) /\ Len(v) = Len(w)
        /\ \A i \in 1 .. Len(w) : v[i] = all[i + 1]
    <3>1. v = Tail(all) /\ all # <<>>
      BY <1>1, <1>2, <1>p
    <3> QED BY <1>1, <3>1, HeadTailProperties
  <2>2. Len(w) = j + 1
    BY <1>0, <1>1, <1>2
  <2>3. \A i \in 1 .. Len(w) : v[i] = IF i = Len(w) THEN x ELSE w[i + 1]
    BY <1>1, <2>1
  <2>4. /\ e \in 0 .. j + 1 /\ (e = 0 \/ (x = t /\ e <= c + 1 /\ e <= j + 1))
    BY <1>0, <1>e, <2>2
  <2>5. ASSUME NEW i \in 1 .. Len(v), i > Len(v) - e PROVE v[i] = t
    <3>1. i \in 1 .. Len(w) /\ i > Len(w) - e
      BY <2>1, <2>5
    <3>2. Len(w) \in Nat /\ e # 0
      BY <3>1
    <3>3. x = t /\ e <= c + 1 /\ e \in Int
      BY <2>4, <3>2
    <3>4. i + 1 > Len(w) - c
      BY <1>0, <3>1, <3>2, <3>3
    <3>5. CASE i = Len(w)
      BY <2>3, <3>1, <3>3, <3>5
    <3>6. CASE i # Len(w)
      <4>1. i + 1 \in 1 .. Len(w)
        BY <3>1, <3>2, <3>6
      <4> QED BY <1>0, <2>3, <3>1, <3>4, <3>6, <4>1
    <3> QED BY <3>5, <3>6
  <2>6. Len(v) <= j + 1 /\ e <= Len(v)
    BY <2>1, <2>2, <2>4
  <2> QED BY <2>1, <2>4, <2>5, <2>6
<1>3. ASSUME ~(Len(all) > j + 1) PROVE Goal
  <2>1. v = all
    BY <1>3, <1>p
  <2> QED BY <1>0, <1>1, <1>3, <1>e, <2>1
<1>4. v \in Seq(S) /\ EndsIn(v, j, e, t)
  BY <1>0, <1>2, <1>3 DEF EndsIn
<1> QED BY <1>4 DEF v, e

-----------------------------------------------------------------------------
\* The initial state satisfies the invariant.
LEMMA InitWatchdogInv == Init => WatchdogInv
<1> SUFFICES ASSUME Init PROVE WatchdogInv
  OBVIOUS
<1>1. \A r \in Record : recent[r] = <<>> /\ recent[r] \in Seq(BOOLEAN) /\ Len(recent[r]) = 0
  BY DEF Init
<1>2. RecordShape
  <2>1. recent \in [Record -> Seq(BOOLEAN)]
    BY <1>1 DEF Init
  <2>2. running \in BOOLEAN /\ intact \in BOOLEAN
    BY Zenon DEF Init
  <2> QED BY <2>1, <2>2 DEF Init, RecordShape
<1>3. OnePlace
  BY GraceNat, WatchdogAssumption DEF Init, OnePlace, TypeOK, Past
<1>4. Counts
  BY <1>1, WatchdogAssumption DEF Init, Counts, EndsIn
<1> QED BY <1>2, <1>3, <1>4 DEF Init, WatchdogInv, Stopped, Reported

\* The request of a due record goes on its way, or the record is watched no more.
LEMMA TimerStep == ASSUME WatchdogInv, NEW R \in SUBSET MayRefuse, OnTimer(R) PROVE WatchdogInv'
<1> USE WatchdogAssumption, GraceNat
<1>1. running /\ intact /\ Due \subseteq idle_stack /\ Due \subseteq Record
  BY DEF WatchdogInv, Stopped, OnTimer, Due, OnePlace, TypeOK
<1>2. RecordShape'
  BY DEF WatchdogInv, RecordShape, OnTimer, CheckIdle, Touch
<1>3. TypeOK'
  <2>1. reported' \subseteq Record /\ busy_stack' \subseteq Record
    BY <1>1 DEF WatchdogInv, OnePlace, TypeOK, OnTimer, CheckIdle, CheckBusy
  <2>2. \A r \in Record : begin'[r] \in 0 .. Interval[r] /\ end'[r] \in Past(r) .. Timeout[r]
    BY DEF WatchdogInv, OnePlace, TypeOK, OnTimer, CheckIdle, Past
  <2>3. flight' \in [Record -> {"none", "sent", "queued"}]
    BY DEF WatchdogInv, OnePlace, TypeOK, OnTimer, CheckIdle
  <2> QED BY <1>1, <2>1, <2>2, <2>3 DEF WatchdogInv, OnePlace, TypeOK, OnTimer, CheckIdle
<1>4. OnePlace'
  <2>1. \A r \in Record : r \in busy_stack' <=> flight'[r] # "none"
    BY <1>1 DEF WatchdogInv, OnePlace, TypeOK, OnTimer, CheckIdle
  <2>2. idle_stack' \cap busy_stack' = {} /\ busy_table' = busy_stack' \cup freed'
    BY <1>1 DEF WatchdogInv, OnePlace, OnTimer, CheckIdle
  <2> QED BY <1>3, <2>1, <2>2 DEF OnePlace
<1>5. Counts'
  BY DEF WatchdogInv, Counts, OnTimer
<1>6. Reported'
  <2>1. CheckBusy' = {}
    BY <1>2, <1>4, GraceNat DEF CheckBusy, RecordShape, OnePlace, TypeOK, Grace
  <2> QED BY <2>1 DEF Reported, OnTimer
<1> QED BY <1>1, <1>2, <1>4, <1>5, <1>6 DEF WatchdogInv, Stopped, OnTimer

\* An answer moves its record from both busy maps to the idle one and counts.
LEMMA AnswerStep == ASSUME WatchdogInv, NEW r \in Record, OnHeartbeatRsp(r) PROVE WatchdogInv'
<1> USE WatchdogAssumption
<1> DEFINE v == Pushed(recent[r], Late(r), Jitter[r])
           e == Errors(r)
<1>1. running /\ intact
  BY DEF WatchdogInv, Stopped, OnHeartbeatRsp
<1>2. v \in Seq(BOOLEAN) /\ EndsIn(v, Jitter[r], e, TRUE)
  <2>1. /\ recent[r] \in Seq(BOOLEAN) /\ Late(r) \in BOOLEAN /\ Jitter[r] \in Nat
        /\ EndsIn(recent[r], Jitter[r], cerrc[r], TRUE)
    <3>1. Late(r) \in BOOLEAN
      BY DEF Late
    <3> QED BY <3>1 DEF WatchdogInv, RecordShape, Counts
  <2>2. e = Counted(Late(r), TRUE, Jitter[r], cerrc[r])
    BY <2>1, Zenon DEF Errors, Counted
  <2> QED BY <2>1, <2>2, Window, Zenon
<1>3. /\ recent' = [recent EXCEPT ![r] = v] /\ cerrc' = [cerrc EXCEPT ![r] = e]
      /\ reported' = IF e > Jitter[r] THEN {r} ELSE {}
      /\ e \in 0 .. Jitter[r] + 1
  <2>1. e \in 0 .. Jitter[r] + 1
    BY <1>2 DEF EndsIn
  <2> QED BY <2>1 DEF OnHeartbeatRsp, Pushed
<1> HIDE DEF v, e
<1>4. RecordShape'
  <2>1. recent' \in [Record -> Seq(BOOLEAN)]
    BY <1>2, <1>3 DEF WatchdogInv, RecordShape
  <2>2. begin' \in [Record -> Int] /\ end' \in [Record -> Int] /\ cerrc' \in [Record -> Int]
    <3>1. begin' = [begin EXCEPT ![r] = Interval[r]] /\ end' = end
      BY DEF OnHeartbeatRsp
    <3>2. Interval[r] \in Int /\ e \in Int
      BY <1>3
    <3> QED BY <1>3, <3>1, <3>2 DEF WatchdogInv, RecordShape
  <2>3. running' \in BOOLEAN /\ intact' \in BOOLEAN
    BY Zenon DEF WatchdogInv, RecordShape, OnHeartbeatRsp, Touch
  <2> QED BY <2>1, <2>2, <2>3 DEF RecordShape
<1>5. OnePlace'
  <2>1. TypeOK'
    <3>1. \A q \in Record : /\ begin'[q] \in 0 .. Interval[q] /\ end'[q] \in Past(q) .. Timeout[q]
                            /\ cerrc'[q] \in 0 .. Jitter[q] + 1
      <4> SUFFICES ASSUME NEW q \in Record
                   PROVE  /\ begin'[q] \in 0 .. Interval[q]
                          /\ end'[q] \in Past(q) .. Timeout[q]
                          /\ cerrc'[q] \in 0 .. Jitter[q] + 1
        OBVIOUS
      <4>1. end'[q] = end[q] /\ begin'[q] = IF q = r THEN Interval[r] ELSE begin[q]
        BY DEF WatchdogInv, RecordShape, OnHeartbeatRsp
      <4>2. cerrc'[q] = IF q = r THEN e ELSE cerrc[q]
        BY <1>3 DEF WatchdogInv, RecordShape
      <4> QED BY <1>3, <4>1, <4>2 DEF WatchdogInv, OnePlace, TypeOK
    <3> QED BY <1>3, <3>1 DEF WatchdogInv, OnePlace, TypeOK, OnHeartbeatRsp
  <2>2. ASSUME intact' PROVE freed = {}
    BY <2>2 DEF OnHeartbeatRsp, Touch
  <2> QED BY <1>1, <2>1, <2>2 DEF WatchdogInv, OnePlace, TypeOK, OnHeartbeatRsp
<1>6. Counts'
  <2> SUFFICES ASSUME NEW q \in Record
               PROVE  EndsIn(recent'[q], Jitter[q], cerrc'[q], TRUE)
    BY DEF Counts
  <2>1. CASE q = r
    <3>1. recent'[q] = v /\ cerrc'[q] = e
      BY <1>3, <2>1 DEF WatchdogInv, RecordShape
    <3> QED BY <1>2, <2>1, <3>1
  <2>2. CASE q # r
    <3>1. recent'[q] = recent[q] /\ cerrc'[q] = cerrc[q]
      BY <1>3, <2>2 DEF WatchdogInv, RecordShape
    <3> QED BY <3>1 DEF WatchdogInv, Counts
  <2> QED BY <2>1, <2>2
<1>7. Reported'
  BY <1>2, <1>3 DEF WatchdogInv, RecordShape, Reported
<1> QED BY <1>1, <1>4, <1>5, <1>6, <1>7 DEF WatchdogInv, Stopped, OnHeartbeatRsp

\* Time goes on: only the deadlines change, and none falls below what is followed.
LEMMA TickStep == ASSUME WatchdogInv, Tick PROVE WatchdogInv'
<1>1. \A r \in Record : begin'[r] \in 0 .. Interval[r] /\ end'[r] \in Past(r) .. Timeout[r]
  BY WatchdogAssumption, GraceNat DEF WatchdogInv, OnePlace, TypeOK, RecordShape, Tick, Capped, Past
<1>2. RecordShape'
  BY WatchdogAssumption, GraceNat
     DEF WatchdogInv, OnePlace, TypeOK, RecordShape, Tick, Capped, Past, ctxVars
<1>3. OnePlace'
  BY <1>1 DEF WatchdogInv, OnePlace, TypeOK, Tick, ctxVars, Past, Grace
<1> QED BY <1>2, <1>3 DEF WatchdogInv, Tick, Stopped, Counts, Reported, ctxVars

\* Every step of the watchdog, the watched services, the timer and the clock keeps
\* the invariant.
LEMMA NextWatchdogInv == WatchdogInv /\ [Next]_vars => WatchdogInv'
<1> SUFFICES ASSUME WatchdogInv, [Next]_vars PROVE WatchdogInv'
  OBVIOUS
<1> USE WatchdogAssumption
<1>1. CASE WatchdogInit
  <2>1. \A r \in Record : /\ recent'[r] = <<>> /\ recent'[r] \in Seq(BOOLEAN)
                          /\ Len(recent'[r]) = 0 /\ cerrc'[r] = 0
    BY <1>1 DEF WatchdogInit
  <2>2. RecordShape' /\ Counts'
    BY <1>1, <2>1 DEF WatchdogInv, RecordShape, Counts, EndsIn, WatchdogInit
  <2>3. TypeOK'
    BY <1>1, GraceNat DEF WatchdogInv, OnePlace, TypeOK, WatchdogInit, Past, Grace
  <2> QED BY <1>1, <2>2, <2>3 DEF WatchdogInv, OnePlace, TypeOK, Stopped, Reported, WatchdogInit
<1>2. CASE WatchdogExit
  <2>1. TypeOK'
    BY <1>2 DEF WatchdogInv, OnePlace, TypeOK, WatchdogExit, recordVars, Past, Grace
  <2>2. RecordShape' /\ Counts'
    BY <1>2 DEF WatchdogInv, RecordShape, Counts, WatchdogExit, recordVars
  <2> QED BY <1>2, <2>1, <2>2 DEF WatchdogInv, OnePlace, Stopped, Reported, WatchdogExit
<1>3. CASE \E R \in SUBSET MayRefuse : OnTimer(R)
  BY <1>3, TimerStep
<1>4. CASE \E r \in Record : OnHeartbeatRsp(r)
  BY <1>4, AnswerStep
<1>5. ASSUME NEW r \in Record, Answer(r) PROVE WatchdogInv'
  <2>1. running
    BY <1>5 DEF WatchdogInv, Stopped, Answer
  <2>2. TypeOK'
    BY <1>5 DEF WatchdogInv, OnePlace, TypeOK, Answer, ctxVars, recordVars, Past, Grace
  <2>3. \A q \in Record : flight'[q] # "none" <=> flight[q] # "none"
    BY <1>5 DEF WatchdogInv, OnePlace, TypeOK, Answer
  <2>4. RecordShape' /\ Counts'
    BY <1>5 DEF WatchdogInv, RecordShape, Counts, Answer, ctxVars, recordVars
  <2> QED BY <1>5, <2>1, <2>2, <2>3, <2>4
          DEF WatchdogInv, OnePlace, Stopped, Reported, Answer, ctxVars, recordVars
<1>6. CASE TimerFires
  <2>1. running
    BY <1>6 DEF WatchdogInv, Stopped, TimerFires
  <2>2. TypeOK'
    BY <1>6 DEF WatchdogInv, OnePlace, TypeOK, TimerFires, ctxVars, recordVars, Past, Grace
  <2>3. RecordShape' /\ Counts'
    BY <1>6 DEF WatchdogInv, RecordShape, Counts, TimerFires, ctxVars, recordVars
  <2> QED BY <1>6, <2>1, <2>2, <2>3
          DEF WatchdogInv, OnePlace, Stopped, Reported, TimerFires, ctxVars, recordVars
<1>7. CASE Tick
  BY <1>7, TickStep
<1>8. CASE UNCHANGED vars
  BY <1>8 DEF WatchdogInv, RecordShape, OnePlace, TypeOK, Stopped, Counts, Reported, vars, ctxVars,
              recordVars, Past, Grace
<1> QED BY <1>1, <1>2, <1>3, <1>4, <1>5, <1>6, <1>7, <1>8 DEF Next, Handler

-----------------------------------------------------------------------------
\* What the maps hold and what the counters count in every reachable state of the
\* watchdog (watchdog.c, its two handlers, init and exit).
THEOREM WatchdogInvariance == Spec => []WatchdogInv
BY InitWatchdogInv, NextWatchdogInv, PTL DEF Spec

\* A record is in one place, and a busy one has a request or an answer on its way
\* (_watchdog_check_idle and _watchdog_on_heartbeat_rsp).
THEOREM PlacesAreOne == Spec => []OnePlace
BY WatchdogInvariance, PTL DEF WatchdogInv

\* A service is reported only after more late answers in a row than its jitter
\* accepts (_watchdog_on_heartbeat_rsp and line 154).
THEOREM AlarmsAreTrue == Spec => []NoFalseAlarm
<1>1. WatchdogInv => NoFalseAlarm
  <2> SUFFICES ASSUME WatchdogInv, NEW r \in reported
               PROVE  /\ Len(recent[r]) = Jitter[r] + 1
                      /\ \A i \in DOMAIN recent[r] : recent[r][i]
    BY DEF NoFalseAlarm
  <2>1. r \in Record /\ Jitter[r] \in Nat /\ recent[r] \in Seq(BOOLEAN)
    BY WatchdogAssumption DEF WatchdogInv, RecordShape, OnePlace, TypeOK
  <2>2. Len(recent[r]) = Jitter[r] + 1 /\ cerrc[r] = Jitter[r] + 1
    BY <2>1 DEF WatchdogInv, Counts, EndsIn, Reported
  <2>3. \A i \in 1 .. Len(recent[r]) : recent[r][i] = TRUE
    BY <2>1, <2>2 DEF WatchdogInv, Counts, EndsIn
  <2> QED BY <2>1, <2>2, <2>3
<1> QED BY <1>1, WatchdogInvariance, PTL

==============================================================================
