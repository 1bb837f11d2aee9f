-------------------------- MODULE RingBufferProofs --------------------------
(***************************************************************************)
(* Proofs about the ring buffer: its structure is sound after every        *)
(* operation, and it implements RingLog.  Both rest on an invariant that   *)
(* names the order of the nodes in age; induction along that order, and    *)
(* along the run of nodes that an overwrite takes, is induction over a set *)
(* of natural numbers (Induct).                                            *)
(***************************************************************************)
EXTENDS RingBufferProperties, QueueLemmas, FiniteSetTheorems



-----------------------------------------------------------------------------
\* Natural numbers

\* What Min returns is in the set, and is the only such number.
LEMMA MinOf ==
    ASSUME NEW S \in SUBSET Nat, S # {}
    PROVE  Min(S) \in S /\ \A m \in S : Min(S) <= m
<1>1. \E n \in S : \A m \in S : n <= m
  BY LeastOf
<1> QED BY <1>1 DEF Min

\* A least element of the set is what Min returns.
LEMMA MinIs ==
    ASSUME NEW S \in SUBSET Nat, NEW n \in S, \A m \in S : n <= m
    PROVE  Min(S) = n
<1>1. PICK m : m = Min(S) /\ m \in S /\ \A x \in S : m <= x
  BY MinOf
<1>2. m \in Nat /\ n \in Nat /\ m <= n /\ n <= m
  BY <1>1
<1> QED BY <1>1, <1>2

-----------------------------------------------------------------------------
\* The invariant

\* b is the right neighbour of a among the nodes of S, which form a ring.
IsRight(S, a, b) ==
    \A c \in S : IF a < b THEN c <= a \/ c >= b ELSE b <= c /\ c <= a

\* F and its inverse B lead around the ring of the nodes D.
Circle(D, F, B) ==
    \A a \in D : /\ F[a] \in D /\ B[F[a]] = a
                 /\ B[a] \in D /\ F[B[a]] = a
                 /\ IsRight(D, a, F[a])

\* The nodes nd are functions with all the fields of a node.
Nodes(nd) == DOMAIN nd \subseteq Int /\ nd \in [DOMAIN nd -> Node(Int)]
Fwd(nd) == [a \in DOMAIN nd |-> nd[a].fwd]
Bwd(nd) == [a \in DOMAIN nd |-> nd[a].bwd]

\* No two nodes overlap.
Apart(nd) ==
    /\ \A a \in DOMAIN nd : a + nd[a].size <= Capacity
    /\ \A a, b \in DOMAIN nd : a < b => a + nd[a].size <= b

\* chain_pos is the ring of the nodes nd.
Ring(nd) ==
    /\ DOMAIN nd \subseteq Address /\ Nodes(nd)
    /\ Circle(DOMAIN nd, Fwd(nd), Bwd(nd))
    /\ Apart(nd)

\* The nodes nd, from the oldest to the newest, are s[1] .. s[len]; the first k of
\* them are being read.  h, t and o are HEAD, TAIL and oldest_reserve.
Order(nd, h, t, o, s, len, k) ==
    /\ len \in Nat /\ k \in 0 .. len
    /\ s \in [1 .. len -> DOMAIN nd]
    /\ \A a \in DOMAIN nd : \E i \in 1 .. len : s[i] = a
    /\ \A i, j \in 1 .. len : s[i] = s[j] => i = j
    /\ \A i \in 1 .. len : /\ nd[s[i]].newer = IF i < len THEN s[i + 1] ELSE Null
                           /\ nd[s[i]].older = IF i > 1 THEN s[i - 1] ELSE Null
                           /\ nd[s[i]].st = "reading" <=> i <= k
    /\ h = IF len = 0 THEN Null ELSE s[len]
    /\ t = IF len = 0 THEN Null ELSE s[1]
    /\ o = IF k < len THEN s[k + 1] ELSE Null

\* The counters are the numbers of nodes in each state.
Counted(nd, c) ==
    /\ c \in [State -> Int]
    /\ \A st \in State : c[st] = Cardinality({a \in DOMAIN nd : nd[a].st = st})

Ordered(s, len, k) == Order(node, HEAD, TAIL, oldest_reserve, s, len, k)

IInv ==
    /\ Live \subseteq Address
    /\ counter \in [State -> Int]
    /\ intact \in BOOLEAN
    /\ intact => /\ Ring(node)
                 /\ Counted(node, counter)
                 /\ \E len \in Nat : \E k \in 0 .. len : \E s \in [1 .. len -> Live] :
                       Ordered(s, len, k)

\* The buffer holds as many nodes as its order names.
LEMMA OrderCounts ==
    ASSUME NEW s, NEW len, NEW k, Ordered(s, len, k)
    PROVE  Cardinality(Live) = len
<1>1. s \in Bijection(1 .. len, Live)
  <2>1. /\ s \in [1 .. len -> Live]
        /\ \A a \in Live : \E i \in 1 .. len : s[i] = a
        /\ \A i, j \in 1 .. len : s[i] = s[j] => i = j
    BY DEF Ordered, Order, Live
  <2>2. IsInjective(s)
    BY <2>1 DEF IsInjective
  <2>3. s \in Injection(1 .. len, Live)
    BY <2>1, <2>2, Zenon DEF Injection
  <2>4. s \in Surjection(1 .. len, Live)
    BY <2>1, Zenon DEF Surjection
  <2> QED BY <2>3, <2>4 DEF Bijection
<1>2. ExistsBijection(1 .. len, Live)
  BY <1>1 DEF ExistsBijection
<1>3. IsFiniteSet(1 .. len) /\ Cardinality(1 .. len) = len
  BY FS_Interval DEF Ordered, Order
<1> QED BY <1>2, <1>3, FS_Bijection

\* ByAge, which follows the chain from TAIL on, is that order.
LEMMA ByAgeIs ==
    ASSUME NEW s, NEW len, NEW k, Ordered(s, len, k)
    PROVE  ByAge = s /\ DOMAIN ByAge = 1 .. len
<1>1. Cardinality(Live) = len
  BY OrderCounts
<1> DEFINE nth[i \in 1 .. len] == IF i = 1 THEN TAIL ELSE node[nth[i - 1]].newer
<1>2. ByAge = [i \in 1 .. len |-> nth[i]]
  BY <1>1 DEF ByAge
<1>3. s = [i \in 1 .. len |-> IF i = 1 THEN TAIL ELSE node[s[i - 1]].newer]
  BY DEF Ordered, Order
<1>4. nth = CHOOSE g : g = [i \in 1 .. len |-> IF i = 1 THEN TAIL ELSE node[g[i - 1]].newer]
  BY DEF nth
<1>5. nth = [i \in 1 .. len |-> IF i = 1 THEN TAIL ELSE node[nth[i - 1]].newer]
  BY <1>3, <1>4, Zenon
<1> HIDE DEF nth
<1> DEFINE S == {i \in Nat : i \in 1 .. len => nth[i] = s[i]}
<1>6. 0 \in S /\ len \in Nat
  BY DEF Ordered, Order
<1>7. \A i \in Nat : i \in S => i + 1 \in S
  <2> SUFFICES ASSUME NEW i \in Nat, i \in S, i + 1 \in 1 .. len PROVE nth[i + 1] = s[i + 1]
    OBVIOUS
  <2>1. CASE i = 0
    BY <1>3, <1>5, <2>1
  <2>2. CASE i # 0
    <3>1. i \in 1 .. len /\ nth[i] = s[i] /\ i + 1 # 1 /\ (i + 1) - 1 = i
      BY <1>6, <2>2
    <3>2. nth[i + 1] = node[nth[i]].newer
      BY <1>5, <3>1
    <3>3. s[i + 1] = node[s[i]].newer
      BY <3>1 DEF Ordered, Order
    <3> QED BY <3>1, <3>2, <3>3
  <2> QED BY <2>1, <2>2
<1> HIDE DEF S
<1>8. Nat \subseteq S
  BY <1>6, <1>7, Induct
<1>9. \A i \in 1 .. len : nth[i] = s[i]
  BY <1>6, <1>8 DEF S
<1> QED BY <1>2, <1>3, <1>9

\* chain_pos is the ring that PositionRing speaks of.
LEMMA RingIsSound ==
    ASSUME Ring(node)
    PROVE  NoOverlap /\ PositionRing
<1>1. NoOverlap
  BY DEF Ring, Apart, NoOverlap, Live, End
<1>2. ASSUME NEW a \in Live
      PROVE  node[a].fwd = RightOf(a) /\ node[RightOf(a)].bwd = a
  <2>1. PICK f \in Live : f = node[a].fwd /\ node[f].bwd = a /\ IsRight(Live, a, f)
    BY DEF Ring, Circle, Fwd, Bwd, Live
  <2>2. Live \subseteq Nat
    BY DEF Ring, Live, Address
  <2>3. CASE a < f
    <3>1. f \in {b \in Live : b > a} /\ \A m \in {b \in Live : b > a} : f <= m
      BY <2>1, <2>2, <2>3 DEF IsRight
    <3>2. Min({b \in Live : b > a}) = f
      BY <2>2, <3>1, MinIs
    <3> QED BY <2>1, <2>2, <2>3, <3>1, <3>2 DEF RightOf
  <2>4. CASE ~(a < f)
    <3>1. \A c \in Live : f <= c /\ ~(c > a)
      BY <2>1, <2>2, <2>4 DEF IsRight
    <3>2. Min(Live) = f
      BY <2>2, <3>1, MinIs
    <3> QED BY <2>1, <3>1, <3>2 DEF RightOf
  <2> QED BY <2>3, <2>4
<1> QED BY <1>1, <1>2 DEF PositionRing

\* chain_time is the chain that AgeChain and OldestIsExact speak of.
LEMMA OrderIsSound ==
    ASSUME IInv, NEW s, NEW len, NEW k, Ordered(s, len, k)
    PROVE  /\ AgeChain /\ OldestIsExact
           /\ {HEAD, TAIL, oldest_reserve} \subseteq Live \cup {Null}
           /\ \A a \in Live : {node[a].newer, node[a].older} \subseteq Live \cup {Null}
<1>1. /\ Cardinality(Live) = len /\ ByAge = s /\ DOMAIN ByAge = 1 .. len
  BY OrderCounts, ByAgeIs
<1>2. /\ len \in Nat /\ k \in 0 .. len /\ s \in [1 .. len -> Live]
      /\ \A a \in Live : \E i \in 1 .. len : s[i] = a
      /\ \A i, j \in 1 .. len : s[i] = s[j] => i = j
      /\ HEAD = IF len = 0 THEN Null ELSE s[len]
      /\ TAIL = IF len = 0 THEN Null ELSE s[1]
      /\ oldest_reserve = IF k < len THEN s[k + 1] ELSE Null
  BY DEF Ordered, Order, Live
<1>3. \A i \in 1 .. len : /\ node[s[i]].newer = IF i < len THEN s[i + 1] ELSE Null
                          /\ node[s[i]].older = IF i > 1 THEN s[i - 1] ELSE Null
                          /\ node[s[i]].st = "reading" <=> i <= k
  BY DEF Ordered, Order
<1>6. ASSUME NEW a \in Live PROVE {node[a].newer, node[a].older} \subseteq Live \cup {Null}
  <2>1. PICK i \in 1 .. len : s[i] = a
    BY <1>2
  <2>2. /\ i < len => s[i + 1] \in Live
        /\ i > 1 => s[i - 1] \in Live
    <3>1. /\ i < len => i + 1 \in 1 .. len
          /\ i > 1 => i - 1 \in 1 .. len
      BY <1>2
    <3> QED BY <1>2, <3>1
  <2>3. /\ node[a].newer = IF i < len THEN s[i + 1] ELSE Null
        /\ node[a].older = IF i > 1 THEN s[i - 1] ELSE Null
    BY <1>3, <2>1
  <2> QED BY <2>2, <2>3
<1>4. CASE len = 0
  <2>1. Live = {}
    BY <1>2, <1>4
  <2> QED BY <1>1, <1>2, <1>4, <1>6, <2>1 DEF AgeChain, OldestIsExact
<1>5. CASE len # 0
  <2>1. 1 \in 1 .. len /\ len \in 1 .. len /\ Live # {}
    BY <1>2, <1>5
  <2>2. {HEAD, TAIL, oldest_reserve} \subseteq Live \cup {Null}
    BY <1>2, <1>5, <2>1
  <2>3. OldestIsExact
    <3>1. ASSUME NEW i \in 1 .. len
          PROVE  i <= k <=> \/ oldest_reserve = Null
                            \/ \E j \in 1 .. len : j > i /\ s[j] = oldest_reserve
      <4>1. CASE k < len
        <5>1. k + 1 \in 1 .. len /\ oldest_reserve = s[k + 1]
          BY <1>2, <4>1
        <5>2. oldest_reserve # Null
          <6>1. oldest_reserve \in Live
            BY <1>2, <5>1
          <6> QED BY <6>1, NullAssumption DEF IInv, Address
        <5> QED BY <1>2, <5>1, <5>2
      <4>2. CASE k = len
        BY <1>2, <4>2
      <4> QED BY <1>2, <4>1, <4>2
    <3> QED BY <1>1, <1>3, <3>1 DEF OldestIsExact
  <2>4. AgeChain
    <3>1. {ByAge[i] : i \in DOMAIN ByAge} = Live
      BY <1>1, <1>2
    <3>2. ByAge[Cardinality(Live)] = HEAD
      BY <1>1, <1>2, <1>5
    <3>3. node[TAIL].older = Null /\ node[HEAD].newer = Null
      BY <1>2, <1>3, <1>5, <2>1
    <3>4. ASSUME NEW a \in Live \ {HEAD} PROVE node[node[a].newer].older = a
      <4>1. PICK i \in 1 .. len : s[i] = a
        BY <1>2
      <4>2. i < len /\ i + 1 \in 1 .. len /\ (i + 1) - 1 = i /\ i + 1 > 1
        BY <1>2, <1>5, <4>1
      <4> QED BY <1>3, <4>1, <4>2
    <3> QED BY <2>1, <3>1, <3>2, <3>3, <3>4 DEF AgeChain
  <2> QED BY <1>6, <2>2, <2>3, <2>4
<1> QED BY <1>4, <1>5

\* The invariant implies what the run checks.
LEMMA InvIsSound == IInv => StructureSound
<1> SUFFICES ASSUME IInv PROVE StructureSound
  OBVIOUS
<1>1. CASE intact
  <2>1. Ring(node) /\ Counted(node, counter)
    BY <1>1 DEF IInv
  <2>2. PICK len \in Nat : \E k \in 0 .. len : \E s \in [1 .. len -> Live] : Ordered(s, len, k)
    BY <1>1 DEF IInv
  <2>3. PICK k \in 0 .. len, s \in [1 .. len -> Live] : Ordered(s, len, k)
    BY <2>2
  <2>4. /\ AgeChain /\ OldestIsExact
        /\ {HEAD, TAIL, oldest_reserve} \subseteq Live \cup {Null}
        /\ \A a \in Live : {node[a].newer, node[a].older} \subseteq Live \cup {Null}
    BY <2>3, OrderIsSound
  <2>5. ChainsAgree
    BY <2>1, <2>4, RingIsSound DEF ChainsAgree
  <2>6. TypeOK
    <3>1. ASSUME NEW a \in Live PROVE node[a] \in Node(Live)
      <4>1. /\ node[a] \in Node(Int)
            /\ node[a].fwd \in Live /\ node[a].bwd \in Live
        BY <2>1 DEF Ring, Circle, Fwd, Bwd, Nodes, Live
      <4> QED BY <2>4, <4>1 DEF Node
    <3>2. node \in [Live -> Node(Live)]
      BY <2>1, <3>1 DEF Ring, Nodes, Live
    <3> QED BY <2>1, <2>4, <3>2 DEF IInv, TypeOK
  <2>7. CountersExact
    BY <2>1 DEF CountersExact, Counted, Live
  <2> QED BY <2>5, <2>6, <2>7 DEF StructureSound
<1>2. CASE ~intact
  BY <1>2 DEF IInv, StructureSound, TypeOK, ChainsAgree, CountersExact
<1> QED BY <1>1, <1>2

-----------------------------------------------------------------------------
\* What relinking does to the fields

\* b becomes the right neighbour of a, and nothing else changes.
Linked(nd, a, b, md) ==
    /\ Nodes(md) /\ DOMAIN md = DOMAIN nd
    /\ \A c \in DOMAIN nd :
          /\ md[c].fwd = IF c = a THEN b ELSE nd[c].fwd
          /\ md[c].bwd = IF c = b THEN a ELSE nd[c].bwd
          /\ md[c].newer = nd[c].newer /\ md[c].older = nd[c].older
          /\ md[c].st = nd[c].st /\ md[c].size = nd[c].size

\* Link changes the fields of the position chain.
LEMMA LinkFields ==
    ASSUME NEW nd, Nodes(nd), NEW a \in DOMAIN nd, NEW b \in DOMAIN nd
    PROVE  Linked(nd, a, b, Link(nd, a, b))
<1> DEFINE m == [nd EXCEPT ![a].fwd = b]
<1>1. /\ m \in [DOMAIN nd -> Node(Int)]
      /\ \A c \in DOMAIN nd : m[c] = IF c = a THEN [nd[c] EXCEPT !.fwd = b] ELSE nd[c]
  BY DEF Nodes, Node
<1>2. Link(nd, a, b) = [m EXCEPT ![b].bwd = a]
  BY DEF Link
<1>3. /\ Link(nd, a, b) \in [DOMAIN nd -> Node(Int)]
      /\ \A c \in DOMAIN nd :
            Link(nd, a, b)[c] = IF c = b THEN [m[c] EXCEPT !.bwd = a] ELSE m[c]
  <2> HIDE DEF m
  <2> QED BY <1>1, <1>2 DEF Nodes, Node
<1> HIDE DEF m
<1>4. DOMAIN Link(nd, a, b) = DOMAIN nd
  BY <1>3
<1>5. Nodes(Link(nd, a, b))
  BY <1>3, <1>4 DEF Nodes
<1>6. ASSUME NEW c \in DOMAIN nd
      PROVE  /\ Link(nd, a, b)[c].fwd = IF c = a THEN b ELSE nd[c].fwd
             /\ Link(nd, a, b)[c].bwd = IF c = b THEN a ELSE nd[c].bwd
             /\ Link(nd, a, b)[c].newer = nd[c].newer
             /\ Link(nd, a, b)[c].older = nd[c].older
             /\ Link(nd, a, b)[c].st = nd[c].st
             /\ Link(nd, a, b)[c].size = nd[c].size
  BY <1>1, <1>3 DEF Nodes, Node
<1> QED BY <1>4, <1>5, <1>6 DEF Linked

\* w becomes the successor of o in age, and nothing else changes.
Followed(nd, o, w, md) ==
    /\ Nodes(md) /\ DOMAIN md = DOMAIN nd
    /\ \A c \in DOMAIN nd :
          /\ md[c].newer = IF c = o THEN w ELSE nd[c].newer
          /\ md[c].older = IF c = w THEN o ELSE nd[c].older
          /\ md[c].fwd = nd[c].fwd /\ md[c].bwd = nd[c].bwd
          /\ md[c].st = nd[c].st /\ md[c].size = nd[c].size

\* Follow changes the fields of the age chain.
LEMMA FollowFields ==
    ASSUME NEW nd, Nodes(nd), NEW o \in Int \cup {Null}, NEW w \in Int \cup {Null}
    PROVE  Followed(nd, o, w, Follow(nd, o, w))
<1>1. DOMAIN Follow(nd, o, w) = DOMAIN nd
  BY DEF Follow
<1>2. ASSUME NEW c \in DOMAIN nd
      PROVE  /\ Follow(nd, o, w)[c] \in Node(Int)
             /\ Follow(nd, o, w)[c].newer = IF c = o THEN w ELSE nd[c].newer
             /\ Follow(nd, o, w)[c].older = IF c = w THEN o ELSE nd[c].older
             /\ Follow(nd, o, w)[c].fwd = nd[c].fwd
             /\ Follow(nd, o, w)[c].bwd = nd[c].bwd
             /\ Follow(nd, o, w)[c].st = nd[c].st
             /\ Follow(nd, o, w)[c].size = nd[c].size
  <2>1. Follow(nd, o, w)[c] = [nd[c] EXCEPT !.newer = IF c = o THEN w ELSE @,
                                            !.older = IF c = w THEN o ELSE @]
    BY DEF Follow
  <2>2. PICK r : r = nd[c] /\ r \in Node(Int)
    BY DEF Nodes
  <2>3. PICK x, y : /\ x = (IF c = o THEN w ELSE r.newer) /\ x \in Int \cup {Null}
                    /\ y = (IF c = w THEN o ELSE r.older) /\ y \in Int \cup {Null}
    BY <2>2 DEF Node
  <2>4. Follow(nd, o, w)[c] = [r EXCEPT !.newer = x, !.older = y]
    BY <2>1, <2>2, <2>3
  <2> QED BY <2>2, <2>3, <2>4 DEF Node
<1>3. Follow(nd, o, w) \in [DOMAIN nd -> Node(Int)]
  BY <1>1, <1>2 DEF Follow
<1> QED BY <1>1, <1>2, <1>3 DEF Nodes, Followed

\* A new node is writing and has no neighbours yet.
Joined(nd, p, size, md) ==
    /\ Nodes(md) /\ DOMAIN md = DOMAIN nd \cup {p}
    /\ md[p] = [fwd |-> p, bwd |-> p, newer |-> Null, older |-> Null,
                st |-> "writing", size |-> size]
    /\ \A c \in DOMAIN nd \ {p} : md[c] = nd[c]

\* With adds a new node.
LEMMA WithFields ==
    ASSUME NEW nd, Nodes(nd), NEW p \in Int, NEW size \in Size
    PROVE  Joined(nd, p, size, With(nd, p, size))
<1>1. DOMAIN With(nd, p, size) = DOMAIN nd \cup {p}
  BY DEF With
<1>2. With(nd, p, size) \in [DOMAIN nd \cup {p} -> Node(Int)]
  BY DEF With, Nodes, Node, State
<1> QED BY <1>1, <1>2 DEF With, Nodes, Joined

\* The nodes that are kept stay as they are.
Kept(nd, S, md) == Nodes(md) /\ DOMAIN md = S /\ \A c \in S : md[c] = nd[c]

\* Restrict keeps the nodes of a set.
LEMMA RestrictFields ==
    ASSUME NEW nd, Nodes(nd), NEW S \in SUBSET DOMAIN nd
    PROVE  Kept(nd, S, Restrict(nd, S))
<1>1. DOMAIN Restrict(nd, S) = S /\ \A c \in S : Restrict(nd, S)[c] = nd[c]
  BY DEF Restrict
<1>2. Restrict(nd, S) \in [S -> Node(Int)]
  BY DEF Restrict, Nodes
<1> QED BY <1>1, <1>2 DEF Nodes, Kept

-----------------------------------------------------------------------------
\* The ring of addresses

\* A node a leaves the ring: its neighbours become neighbours.
LEMMA CircleShrinks ==
    ASSUME NEW D \in SUBSET Int, NEW F, NEW B, Circle(D, F, B), NEW a \in D, F[a] # a,
           NEW G, NEW C,
           \A c \in D \ {a} : /\ G[c] = IF c = B[a] THEN F[a] ELSE F[c]
              /\ C[c] = IF c = F[a] THEN B[a] ELSE B[c]
    PROVE  Circle(D \ {a}, G, C)
<1>1. PICK E : E = D \ {a}
  OBVIOUS
<1>2. /\ \A c \in D : F[c] \in D /\ B[F[c]] = c /\ B[c] \in D /\ F[B[c]] = c
      /\ F[a] \in E /\ B[a] \in E
  BY <1>1 DEF Circle
<1>3. ASSUME NEW c \in E
      PROVE  G[c] \in E /\ C[G[c]] = c /\ C[c] \in E /\ G[C[c]] = c
  <2>1. G[c] \in E /\ C[G[c]] = c
    <3>1. CASE c = B[a]
      BY <1>1, <1>2, <3>1
    <3>2. CASE c # B[a]
      <4>1. F[c] \in E /\ F[c] # F[a] /\ G[c] = F[c]
        BY <1>1, <1>2, <3>2
      <4>2. C[F[c]] = B[F[c]]
        BY <1>1, <4>1
      <4> QED BY <1>1, <1>2, <4>1, <4>2
    <3> QED BY <3>1, <3>2
  <2>2. C[c] \in E /\ G[C[c]] = c
    <3>1. CASE c = F[a]
      BY <1>1, <1>2, <3>1
    <3>2. CASE c # F[a]
      <4>1. B[c] \in E /\ B[c] # B[a] /\ C[c] = B[c]
        BY <1>1, <1>2, <3>2
      <4>2. G[B[c]] = F[B[c]]
        BY <1>1, <4>1
      <4> QED BY <1>1, <1>2, <4>1, <4>2
    <3> QED BY <3>1, <3>2
  <2> QED BY <2>1, <2>2
<1>4. ASSUME NEW c \in E PROVE IsRight(E, c, G[c])
  <2>1. CASE c = B[a]
    <3>1. PICK f \in D : f = F[a] /\ f # a /\ G[c] = f
      BY <1>1, <2>1 DEF Circle
    <3>2. IsRight(D, c, a) /\ IsRight(D, a, f)
      BY <1>1, <2>1, <3>1 DEF Circle
    <3>3. IsRight(E, c, f)
      BY <1>1, <3>1, <3>2 DEF IsRight
    <3> QED BY <3>1, <3>3
  <2>2. CASE c # B[a]
    <3>1. G[c] = F[c] /\ IsRight(D, c, F[c])
      BY <1>1, <2>2 DEF Circle
    <3> QED BY <1>1, <3>1 DEF IsRight
  <2> QED BY <2>1, <2>2
<1> QED BY <1>1, <1>3, <1>4 DEF Circle

\* A node p enters the ring between left and right, where only nodes that are
\* not kept were before.
Enters(K, left, right, p, F, B, G, C) ==
    /\ G[p] = right /\ C[p] = left
    /\ \A c \in K : /\ G[c] = IF c = left THEN p ELSE F[c]
                    /\ C[c] = IF c = right THEN p ELSE B[c]
                    /\ c # left => F[c] \in K /\ F[c] # right
                    /\ c # right => B[c] \in K /\ B[c] # left
    /\ IsRight(K, left, right)
    /\ IF left < right THEN left < p /\ p < right ELSE left < p \/ p < right

\* A ring that is cut between left and right and closed again over p is a ring.
LEMMA CircleGrows ==
    ASSUME NEW D \in SUBSET Int, NEW F, NEW B, Circle(D, F, B), NEW K \in SUBSET D,
           NEW left \in K, NEW right \in K, NEW p \in Int \ K, NEW G, NEW C,
           Enters(K, left, right, p, F, B, G, C)
    PROVE  Circle(K \cup {p}, G, C)
<1> USE DEF Enters
<1>1. PICK E : E = K \cup {p}
  OBVIOUS
<1>2. ASSUME NEW c \in E
      PROVE  G[c] \in E /\ C[G[c]] = c /\ C[c] \in E /\ G[C[c]] = c
  <2>1. CASE c = p
    BY <1>1, <2>1 DEF Circle
  <2>2. CASE c \in K
    <3>1. F[c] \in D /\ B[F[c]] = c /\ B[c] \in D /\ F[B[c]] = c
      BY <2>2 DEF Circle
    <3>2. G[c] \in E /\ C[G[c]] = c
      BY <1>1, <2>2, <3>1
    <3>3. C[c] \in E /\ G[C[c]] = c
      BY <1>1, <2>2, <3>1
    <3> QED BY <3>2, <3>3
  <2> QED BY <1>1, <2>1, <2>2
<1>3. ASSUME NEW c \in E PROVE IsRight(E, c, G[c])
  <2>1. CASE c = p
    BY <1>1, <2>1 DEF IsRight
  <2>2. CASE c = left
    BY <1>1, <2>2 DEF IsRight
  <2>3. CASE c \in K /\ c # left
    <3>1. PICK f \in K : f = F[c] /\ G[c] = f /\ f # right
      BY <2>3
    <3>2. IsRight(D, c, f)
      BY <2>3, <3>1 DEF Circle
    <3>3. IF c < f THEN p <= c \/ p >= f ELSE f <= p /\ p <= c
      BY <2>3, <3>1, <3>2 DEF IsRight
    <3>4. \A d \in K : IF c < f THEN d <= c \/ d >= f ELSE f <= d /\ d <= c
      BY <3>2 DEF IsRight
    <3> QED BY <1>1, <3>1, <3>3, <3>4 DEF IsRight
  <2> QED BY <1>1, <2>1, <2>2, <2>3
<1> QED BY <1>1, <1>2, <1>3 DEF Circle

\* A step that moves no node keeps the ring.
LEMMA RingStays ==
    ASSUME NEW nd, Ring(nd), NEW md, Nodes(md), DOMAIN md = DOMAIN nd,
           \A c \in DOMAIN nd :
              md[c].fwd = nd[c].fwd /\ md[c].bwd = nd[c].bwd /\ md[c].size = nd[c].size
    PROVE  Ring(md)
<1>1. Fwd(md) = Fwd(nd) /\ Bwd(md) = Bwd(nd)
  BY DEF Fwd, Bwd
<1>2. Apart(md)
  BY DEF Ring, Apart
<1> QED BY <1>1, <1>2 DEF Ring

\* The only node of a buffer, at its start, is a ring.
LEMMA RingOfOne ==
    ASSUME NEW md, Nodes(md), DOMAIN md = {0}, md[0].fwd = 0, md[0].bwd = 0,
           md[0].size <= Capacity
    PROVE  Ring(md)
<1>1. md[0].size \in Nat \ {0} /\ Capacity \in Nat
  BY SizeAssumption, CapacityAssumption DEF Nodes, Node
<1>2. 0 \in Address
  BY <1>1 DEF Address
<1>3. Circle({0}, Fwd(md), Bwd(md))
  BY DEF Circle, Fwd, Bwd, IsRight
<1>4. Apart(md)
  BY <1>1 DEF Apart
<1> QED BY <1>2, <1>3, <1>4 DEF Ring

\* The nodes without a, which left both chains.
Unlinked(nd, a, md) ==
    /\ Nodes(md) /\ DOMAIN md = DOMAIN nd \ {a}
    /\ \A c \in DOMAIN md :
          /\ md[c].fwd = IF c = nd[a].bwd THEN nd[a].fwd ELSE nd[c].fwd
          /\ md[c].bwd = IF c = nd[a].fwd THEN nd[a].bwd ELSE nd[c].bwd
          /\ md[c].newer = IF c = nd[a].older THEN nd[a].newer ELSE nd[c].newer
          /\ md[c].older = IF c = nd[a].newer THEN nd[a].older ELSE nd[c].older
          /\ md[c].st = nd[c].st /\ md[c].size = nd[c].size

\* The ring without one of its nodes.
LEMMA RingShrinks ==
    ASSUME NEW nd, Ring(nd), NEW a \in DOMAIN nd, nd[a].fwd # a,
           NEW md, Unlinked(nd, a, md)
    PROVE  Ring(md)
<1>0. /\ Nodes(md) /\ DOMAIN md = DOMAIN nd \ {a}
      /\ \A c \in DOMAIN md :
            /\ md[c].fwd = IF c = nd[a].bwd THEN nd[a].fwd ELSE nd[c].fwd
            /\ md[c].bwd = IF c = nd[a].fwd THEN nd[a].bwd ELSE nd[c].bwd
            /\ md[c].size = nd[c].size
  BY DEF Unlinked
<1>1. PICK D, F, B, G, C : /\ D = DOMAIN nd /\ F = Fwd(nd) /\ B = Bwd(nd)
                          /\ G = Fwd(md) /\ C = Bwd(md)
  OBVIOUS
<1>2. D \in SUBSET Int /\ Circle(D, F, B)
  BY <1>1 DEF Ring, Nodes
<1>3. F[a] # a /\ \A c \in D \ {a} : /\ G[c] = IF c = B[a] THEN F[a] ELSE F[c]
                                    /\ C[c] = IF c = F[a] THEN B[a] ELSE B[c]
  BY <1>0, <1>1 DEF Fwd, Bwd
<1>4. Circle(D \ {a}, G, C)
  BY <1>1, <1>2, <1>3, CircleShrinks
<1>5. Apart(md)
  BY <1>0 DEF Ring, Apart
<1>6. DOMAIN md \subseteq Address
  BY <1>0 DEF Ring
<1> QED BY <1>0, <1>1, <1>4, <1>5, <1>6 DEF Ring

\* The nodes md: the nodes K of nd and a new one, p, between left and right.
Grows(nd, K, left, right, p, md) ==
    /\ K \in SUBSET DOMAIN nd /\ left \in K /\ right \in K /\ p \in Nat /\ p \notin K
    /\ Nodes(md) /\ DOMAIN md = K \cup {p} /\ md[p].fwd = right /\ md[p].bwd = left
    /\ \A c \in K : /\ md[c].fwd = IF c = left THEN p ELSE nd[c].fwd
                    /\ md[c].bwd = IF c = right THEN p ELSE nd[c].bwd
                    /\ md[c].size = nd[c].size
    /\ \A c \in K : /\ c # left => nd[c].fwd \in K /\ nd[c].fwd # right
                    /\ c # right => nd[c].bwd \in K /\ nd[c].bwd # left
    /\ \A c \in K : /\ c < p => c + nd[c].size <= p
                    /\ p < c => p + md[p].size <= c
    /\ IsRight(K, left, right)
    /\ IF left < right THEN left < p /\ p < right ELSE left < p \/ p < right
    /\ p + md[p].size <= Capacity

\* The kept nodes of a ring with a new one.
LEMMA RingGrows ==
    ASSUME NEW nd, Ring(nd), NEW K, NEW left, NEW right, NEW p, NEW md,
           Grows(nd, K, left, right, p, md)
    PROVE  Ring(md)
<1> USE DEF Grows
<1>0. Apart(nd)
  BY DEF Ring
<1>1. PICK D, F, B, G, C : /\ D = DOMAIN nd /\ F = Fwd(nd) /\ B = Bwd(nd)
                          /\ G = Fwd(md) /\ C = Bwd(md)
  OBVIOUS
<1>2. D \in SUBSET Int /\ Circle(D, F, B) /\ K \in SUBSET D
  BY <1>1 DEF Ring, Nodes
<1>3. G[p] = right /\ C[p] = left
  BY <1>1 DEF Fwd, Bwd
<1>4. \A c \in K : /\ G[c] = IF c = left THEN p ELSE F[c]
                   /\ C[c] = IF c = right THEN p ELSE B[c]
                   /\ c # left => F[c] \in K /\ F[c] # right
                   /\ c # right => B[c] \in K /\ B[c] # left
  BY <1>1 DEF Fwd, Bwd
<1>5. Circle(K \cup {p}, G, C)
  <2>1. p \in Int \ K
    OBVIOUS
  <2>2. Enters(K, left, right, p, F, B, G, C)
    BY <1>3, <1>4 DEF Enters
  <2> QED BY <1>2, <2>1, <2>2, CircleGrows
<1>6. md[p].size \in Nat \ {0} /\ Capacity \in Nat
  BY SizeAssumption, CapacityAssumption DEF Nodes, Node
<1>7. DOMAIN md \subseteq Address
  <2>1. p \in Address
    BY <1>6 DEF Address
  <2>2. K \subseteq Address
    BY DEF Ring
  <2> QED BY <2>1, <2>2
<1>8. Apart(md)
  <2>1. \A c \in K : c + nd[c].size <= Capacity /\ \A d \in K : c < d => c + nd[c].size <= d
    <3>1. ASSUME NEW c \in K PROVE c + nd[c].size <= Capacity
      BY <1>0, Zenon DEF Apart
    <3>2. ASSUME NEW c \in K, NEW d \in K, c < d PROVE c + nd[c].size <= d
      BY <1>0, <3>2, Zenon DEF Apart
    <3> QED BY <3>1, <3>2
  <2>2. \A c \in DOMAIN md : c + md[c].size <= Capacity
    BY <2>1
  <2>3. ASSUME NEW c \in DOMAIN md, NEW d \in DOMAIN md, c < d PROVE c + md[c].size <= d
    <3>1. ~(c = p /\ d = p)
      BY <1>2, <2>3
    <3> QED BY <2>1, <2>3, <3>1
  <2> QED BY <2>2, <2>3 DEF Apart
<1> QED BY <1>1, <1>5, <1>7, <1>8 DEF Ring

-----------------------------------------------------------------------------
\* Counters

\* The nodes of a ring are finitely many.
LEMMA RingFinite ==
    ASSUME NEW nd, Ring(nd)
    PROVE  IsFiniteSet(DOMAIN nd)
<1>1. IsFiniteSet(Address)
  BY FS_Interval, CapacityAssumption DEF Address
<1>2. DOMAIN nd \in SUBSET Address
  BY DEF Ring
<1> QED BY <1>1, <1>2, FS_Subset

\* The nodes of nd in one state.
In(nd, st) == {a \in DOMAIN nd : nd[a].st = st}

\* The nodes in one state are finitely many.
LEMMA InFinite ==
    ASSUME NEW nd, Ring(nd), NEW st
    PROVE  IsFiniteSet(In(nd, st)) /\ Cardinality(In(nd, st)) \in Nat
<1>1. In(nd, st) \in SUBSET DOMAIN nd
  BY DEF In
<1> QED BY <1>1, RingFinite, FS_Subset, FS_CardinalityType

\* The counters count the nodes in each state.
LEMMA CountedIn ==
    ASSUME NEW nd, NEW c
    PROVE  Counted(nd, c) <=> c \in [State -> Int] /\ \A st \in State : c[st] = Cardinality(In(nd, st))
BY DEF Counted, In

\* A new node is counted.
LEMMA CountNew ==
    ASSUME NEW nd, Ring(nd), NEW c, Counted(nd, c), NEW p, p \notin DOMAIN nd,
           NEW md, DOMAIN md = DOMAIN nd \cup {p}, md[p].st = "writing",
           \A a \in DOMAIN nd : md[a].st = nd[a].st,
           NEW d, d = [c EXCEPT !["writing"] = @ + 1]
    PROVE  Counted(md, d)
<1>1. In(md, "writing") = In(nd, "writing") \cup {p} /\ p \notin In(nd, "writing")
  BY DEF In
<1>2. Cardinality(In(md, "writing")) = Cardinality(In(nd, "writing")) + 1
  BY <1>1, InFinite, FS_AddElement
<1>3. \A st \in State : st # "writing" => In(md, st) = In(nd, st)
  BY DEF In
<1>4. c \in [State -> Int] /\ \A st \in State : c[st] = Cardinality(In(nd, st))
  BY CountedIn
<1>5. d \in [State -> Int]
  BY <1>4 DEF State
<1>6. \A st \in State : d[st] = Cardinality(In(md, st))
  BY <1>2, <1>3, <1>4
<1> QED BY <1>5, <1>6, CountedIn

\* Node a changes its state from old to new, and the counters with it.
Moved(nd, c, a, old, new, md, d) ==
    /\ a \in DOMAIN nd /\ old \in State /\ new \in State /\ old # new /\ nd[a].st = old
    /\ DOMAIN md = DOMAIN nd
    /\ \A b \in DOMAIN nd : md[b].st = IF b = a THEN new ELSE nd[b].st
    /\ d = [c EXCEPT ![old] = @ - 1, ![new] = @ + 1]

\* A node that changes its state is counted in the new one.
LEMMA CountMoved ==
    ASSUME NEW nd, Ring(nd), NEW c, Counted(nd, c), NEW a, NEW old, NEW new, NEW md, NEW d,
           Moved(nd, c, a, old, new, md, d)
    PROVE  Counted(md, d)
<1> USE DEF Moved
<1>1. In(md, new) = In(nd, new) \cup {a} /\ a \notin In(nd, new)
  BY DEF In
<1>2. In(md, old) = In(nd, old) \ {a} /\ a \in In(nd, old)
  BY DEF In
<1>3. Cardinality(In(md, new)) = Cardinality(In(nd, new)) + 1
  BY <1>1, InFinite, FS_AddElement
<1>4. Cardinality(In(md, old)) = Cardinality(In(nd, old)) - 1
  <2>1. IsFiniteSet(In(nd, old))
    BY InFinite
  <2> QED BY <1>2, <2>1, FS_RemoveElement
<1>5. \A st \in State : st # new /\ st # old => In(md, st) = In(nd, st)
  BY DEF In
<1>6. c \in [State -> Int] /\ \A st \in State : c[st] = Cardinality(In(nd, st))
  BY CountedIn
<1>8. /\ d \in [State -> Int] /\ d[old] = c[old] - 1 /\ d[new] = c[new] + 1
      /\ \A st \in State : st # new /\ st # old => d[st] = c[st]
  BY <1>6
<1>9. \A st \in State : d[st] = Cardinality(In(md, st))
  BY <1>3, <1>4, <1>5, <1>6, <1>8
<1> QED BY <1>8, <1>9, CountedIn

\* A node that leaves is not counted any more.
LEMMA CountLess ==
    ASSUME NEW nd, Ring(nd), NEW c, Counted(nd, c), NEW a \in DOMAIN nd,
           NEW old \in State, nd[a].st = old, NEW md, Unlinked(nd, a, md),
           NEW d, d = [c EXCEPT ![old] = @ - 1]
    PROVE  Counted(md, d)
<1>0. DOMAIN md = DOMAIN nd \ {a} /\ \A b \in DOMAIN md : md[b].st = nd[b].st
  BY DEF Unlinked
<1>1. In(md, old) = In(nd, old) \ {a} /\ a \in In(nd, old)
  BY <1>0 DEF In
<1>2. Cardinality(In(md, old)) = Cardinality(In(nd, old)) - 1
  <2>1. IsFiniteSet(In(nd, old))
    BY InFinite
  <2> QED BY <1>1, <2>1, FS_RemoveElement
<1>3. \A st \in State : st # old => In(md, st) = In(nd, st)
  BY <1>0 DEF In
<1>4. c \in [State -> Int] /\ \A st \in State : c[st] = Cardinality(In(nd, st))
  BY CountedIn
<1>6. d \in [State -> Int] /\ d[old] = c[old] - 1 /\ \A st \in State : st # old => d[st] = c[st]
  BY <1>4
<1>7. \A st \in State : d[st] = Cardinality(In(md, st))
  BY <1>2, <1>3, <1>4, <1>6
<1> QED BY <1>6, <1>7, CountedIn

\* Nodes in the state committed make room for a new node.
LEMMA CountReplaced ==
    ASSUME NEW nd, Ring(nd), NEW c, Counted(nd, c), NEW lost \in SUBSET DOMAIN nd,
           \A a \in lost : nd[a].st = "committed", NEW p, p \notin DOMAIN nd \ lost,
           NEW md, DOMAIN md = (DOMAIN nd \ lost) \cup {p}, md[p].st = "writing",
           \A a \in DOMAIN nd \ lost : md[a].st = nd[a].st,
           NEW d, d = [c EXCEPT !["committed"] = @ - Cardinality(lost), !["writing"] = @ + 1]
    PROVE  Counted(md, d)
<1>1. /\ In(md, "writing") = In(nd, "writing") \cup {p} /\ p \notin In(nd, "writing")
      /\ In(md, "committed") = In(nd, "committed") \ lost /\ lost \subseteq In(nd, "committed")
      /\ \A st \in State : st \notin {"writing", "committed"} => In(md, st) = In(nd, st)
  BY DEF In
<1>2. Cardinality(In(md, "writing")) = Cardinality(In(nd, "writing")) + 1
  BY <1>1, InFinite, FS_AddElement
<1>3. Cardinality(In(md, "committed")) = Cardinality(In(nd, "committed")) - Cardinality(lost)
  <2>1. IsFiniteSet(In(nd, "committed")) /\ IsFiniteSet(lost)
    BY RingFinite, InFinite, FS_Subset
  <2>2. In(nd, "committed") \cap lost = lost
    BY <1>1
  <2>3. PICK S : S = In(nd, "committed")
    OBVIOUS
  <2>4. Cardinality(S \ lost) = Cardinality(S) - Cardinality(S \cap lost)
    BY <2>1, <2>3, FS_Difference
  <2> QED BY <1>1, <2>2, <2>3, <2>4
<1>4. c \in [State -> Int] /\ \A st \in State : c[st] = Cardinality(In(nd, st))
  BY CountedIn
<1>5. Cardinality(lost) \in Int
  BY RingFinite, FS_Subset, FS_CardinalityType
<1>7. /\ d \in [State -> Int]
      /\ d["committed"] = c["committed"] - Cardinality(lost) /\ d["writing"] = c["writing"] + 1
      /\ \A st \in State : st \notin {"writing", "committed"} => d[st] = c[st]
  BY <1>4, <1>5 DEF State
<1>8. \A st \in State : d[st] = Cardinality(In(md, st))
  <2>1. "writing" \in State /\ "committed" \in State
    BY DEF State
  <2> QED BY <1>1, <1>2, <1>3, <1>4, <1>7, <2>1
<1> QED BY <1>7, <1>8, CountedIn


-----------------------------------------------------------------------------
\* The order in age

\* A step that only changes states: the first j nodes are being read then.
LEMMA OrderStays ==
    ASSUME NEW nd, NEW h, NEW t, NEW o, NEW s, NEW len, NEW k, Order(nd, h, t, o, s, len, k),
           NEW md, DOMAIN md = DOMAIN nd, NEW j \in 0 .. len,
           \A a \in DOMAIN nd : md[a].newer = nd[a].newer /\ md[a].older = nd[a].older,
           \A i \in 1 .. len : md[s[i]].st = "reading" <=> i <= j,
           NEW o2, o2 = (IF j < len THEN s[j + 1] ELSE Null)
    PROVE  Order(md, h, t, o2, s, len, j)
BY DEF Order

\* The numbers of the nodes, without the one of number j.
Removed(s, len, j) == [i \in 1 .. len - 1 |-> IF i < j THEN s[i] ELSE s[i + 1]]

\* HEAD, TAIL and oldest_reserve, without the node a.
EndsMove(nd, a, h, t, o, h2, t2, o2) ==
    /\ h2 = (IF nd[a].older # Null /\ nd[a].newer = Null THEN nd[a].older ELSE h)
    /\ t2 = (IF nd[a].older = Null THEN nd[a].newer ELSE t)
    /\ o2 = (IF o = a THEN nd[a].newer ELSE o)

\* A node leaves the chain: its neighbours in age become neighbours.
LEMMA OrderShrinks ==
    ASSUME NEW nd, NEW h, NEW t, NEW o, NEW s, NEW len, NEW k, Order(nd, h, t, o, s, len, k),
           Null \notin DOMAIN nd, len > 1, NEW j \in 1 .. len,
           NEW md, Unlinked(nd, s[j], md), NEW h2, NEW t2, NEW o2,
           EndsMove(nd, s[j], h, t, o, h2, t2, o2)
    PROVE  Order(md, h2, t2, o2, Removed(s, len, j), len - 1, IF j <= k THEN k - 1 ELSE k)
<1>0. /\ DOMAIN md = DOMAIN nd \ {s[j]}
      /\ \A a \in DOMAIN md :
            /\ md[a].newer = IF a = nd[s[j]].older THEN nd[s[j]].newer ELSE nd[a].newer
            /\ md[a].older = IF a = nd[s[j]].newer THEN nd[s[j]].older ELSE nd[a].older
            /\ md[a].st = nd[a].st
  BY DEF Unlinked
<1>e. /\ h2 = (IF nd[s[j]].older # Null /\ nd[s[j]].newer = Null THEN nd[s[j]].older ELSE h)
      /\ t2 = (IF nd[s[j]].older = Null THEN nd[s[j]].newer ELSE t)
      /\ o2 = (IF o = s[j] THEN nd[s[j]].newer ELSE o)
  BY DEF EndsMove
<1>1. PICK r : r = Removed(s, len, j)
  OBVIOUS
<1>2. /\ len \in Nat /\ k \in 0 .. len
      /\ \A i \in 1 .. len : s[i] \in DOMAIN nd /\ s[i] # Null
      /\ \A a \in DOMAIN nd : \E i \in 1 .. len : s[i] = a
      /\ \A i, l \in 1 .. len : s[i] = s[l] => i = l
  BY DEF Order
<1>3. \A i \in 1 .. len : /\ nd[s[i]].newer = IF i < len THEN s[i + 1] ELSE Null
                          /\ nd[s[i]].older = IF i > 1 THEN s[i - 1] ELSE Null
                          /\ nd[s[i]].st = "reading" <=> i <= k
  BY DEF Order
<1>4. \A i \in 1 .. len - 1 : r[i] = IF i < j THEN s[i] ELSE s[i + 1]
  BY <1>1 DEF Removed
<1>5. r \in [1 .. len - 1 -> DOMAIN md]
  <2>1. \A i \in 1 .. len - 1 : r[i] \in DOMAIN md
    BY <1>0, <1>2, <1>4
  <2> QED BY <1>1, <2>1 DEF Removed
<1>6. \A a \in DOMAIN md : \E i \in 1 .. len - 1 : r[i] = a
  <2> SUFFICES ASSUME NEW a \in DOMAIN md PROVE \E i \in 1 .. len - 1 : r[i] = a
    OBVIOUS
  <2>1. PICK i \in 1 .. len : s[i] = a /\ i # j
    BY <1>0, <1>2
  <2>2. CASE i < j
    BY <1>2, <1>4, <2>1, <2>2
  <2>3. CASE i > j
    <3>1. i - 1 \in 1 .. len - 1 /\ ~(i - 1 < j) /\ (i - 1) + 1 = i
      BY <1>2, <2>3
    <3> QED BY <1>4, <2>1, <3>1
  <2> QED BY <1>2, <2>1, <2>2, <2>3
<1>7. \A i, l \in 1 .. len - 1 : r[i] = r[l] => i = l
  BY <1>2, <1>4
<1>8. \A i \in 1 .. len - 1 : md[r[i]].st = "reading" <=> i <= IF j <= k THEN k - 1 ELSE k
  <2> SUFFICES ASSUME NEW i \in 1 .. len - 1
               PROVE  md[r[i]].st = "reading" <=> i <= IF j <= k THEN k - 1 ELSE k
    OBVIOUS
  <2>1. PICK l \in 1 .. len : r[i] = s[l] /\ l = (IF i < j THEN i ELSE i + 1)
    BY <1>2, <1>4
  <2>2. md[r[i]].st = nd[s[l]].st
    BY <1>0, <1>5, <2>1
  <2> QED BY <1>2, <1>3, <2>1, <2>2
<1>9. \A i \in 1 .. len - 1 : md[r[i]].newer = IF i < len - 1 THEN r[i + 1] ELSE Null
  <2> SUFFICES ASSUME NEW i \in 1 .. len - 1
               PROVE  md[r[i]].newer = IF i < len - 1 THEN r[i + 1] ELSE Null
    OBVIOUS
  <2>1. PICK l \in 1 .. len : r[i] = s[l] /\ l = (IF i < j THEN i ELSE i + 1)
    BY <1>2, <1>4
  <2>2. md[r[i]].newer = IF s[l] = nd[s[j]].older THEN nd[s[j]].newer ELSE nd[s[l]].newer
    BY <1>0, <1>5, <2>1
  <2>3. s[l] = nd[s[j]].older <=> l = j - 1
    <3>1. j > 1 => j - 1 \in 1 .. len
      BY <1>2
    <3> QED BY <1>2, <1>3, <3>1
  <2>4. i < len - 1 => r[i + 1] = IF i + 1 < j THEN s[i + 1] ELSE s[i + 2]
    BY <1>2, <1>4
  <2>5. CASE l = j - 1
    BY <1>2, <1>3, <2>1, <2>2, <2>3, <2>4, <2>5
  <2>6. CASE l # j - 1
    BY <1>2, <1>3, <2>1, <2>2, <2>3, <2>4, <2>6
  <2> QED BY <2>5, <2>6
<1>10. \A i \in 1 .. len - 1 : md[r[i]].older = IF i > 1 THEN r[i - 1] ELSE Null
  <2> SUFFICES ASSUME NEW i \in 1 .. len - 1
               PROVE  md[r[i]].older = IF i > 1 THEN r[i - 1] ELSE Null
    OBVIOUS
  <2>1. PICK l \in 1 .. len : r[i] = s[l] /\ l = (IF i < j THEN i ELSE i + 1)
    BY <1>2, <1>4
  <2>2. md[r[i]].older = IF s[l] = nd[s[j]].newer THEN nd[s[j]].older ELSE nd[s[l]].older
    BY <1>0, <1>5, <2>1
  <2>3. s[l] = nd[s[j]].newer <=> l = j + 1
    <3>1. j < len => j + 1 \in 1 .. len
      BY <1>2
    <3> QED BY <1>2, <1>3, <3>1
  <2>4. i > 1 => r[i - 1] = IF i - 1 < j THEN s[i - 1] ELSE s[i]
    BY <1>2, <1>4
  <2>5. CASE l = j + 1
    BY <1>2, <1>3, <2>1, <2>2, <2>3, <2>4, <2>5
  <2>6. CASE l # j + 1
    BY <1>2, <1>3, <2>1, <2>2, <2>3, <2>4, <2>6
  <2> QED BY <2>5, <2>6
<1>11. h2 = r[len - 1]
  <2>1. h = s[len] /\ len \in 1 .. len /\ len - 1 \in 1 .. len - 1
    BY <1>2 DEF Order
  <2>2. CASE j = len
    <3>1. j > 1 /\ j - 1 \in 1 .. len /\ r[len - 1] = s[j - 1]
      BY <1>2, <1>4, <2>1, <2>2
    <3> QED BY <1>2, <1>3, <1>e, <2>2, <3>1
  <2>3. CASE j # len
    <3>1. j < len /\ j + 1 \in 1 .. len /\ r[len - 1] = s[len]
      BY <1>2, <1>4, <2>1, <2>3
    <3> QED BY <1>2, <1>3, <1>e, <2>1, <3>1
  <2> QED BY <2>2, <2>3
<1>12. t2 = r[1]
  <2>1. t = s[1] /\ 1 \in 1 .. len - 1
    BY <1>2 DEF Order
  <2>2. CASE j = 1
    BY <1>2, <1>3, <1>4, <1>e, <2>1, <2>2
  <2>3. CASE j # 1
    <3>1. j > 1 /\ j - 1 \in 1 .. len /\ r[1] = s[1]
      BY <1>2, <1>4, <2>1, <2>3
    <3> QED BY <1>2, <1>3, <1>e, <2>1, <3>1
  <2> QED BY <2>2, <2>3
<1>13. PICK l : l = IF j <= k THEN k - 1 ELSE k
  OBVIOUS
<1>14. l \in 0 .. len - 1
  BY <1>2, <1>13
<1>15. o2 = IF l < len - 1 THEN r[l + 1] ELSE Null
  <2>1. o = IF k < len THEN s[k + 1] ELSE Null
    BY DEF Order
  <2>2. o = s[j] <=> j = k + 1
    <3>1. k < len => k + 1 \in 1 .. len
      BY <1>2
    <3> QED BY <1>2, <2>1, <3>1
  <2>3. CASE j = k + 1
    BY <1>2, <1>3, <1>4, <1>13, <1>e, <2>2, <2>3
  <2>4. CASE j # k + 1
    BY <1>2, <1>4, <1>13, <1>e, <2>1, <2>2, <2>4
  <2> QED BY <2>3, <2>4
<1> QED
  <2>1. len - 1 \in Nat /\ len - 1 # 0
    BY <1>2
  <2>2. \A i \in 1 .. len - 1 : md[r[i]].st = "reading" <=> i <= l
    BY <1>8, <1>13
  <2>3. PICK n : n = len - 1
    OBVIOUS
  <2>4. /\ h2 = (IF n = 0 THEN Null ELSE r[n])
        /\ t2 = (IF n = 0 THEN Null ELSE r[1])
        /\ o2 = (IF l < n THEN r[l + 1] ELSE Null)
    BY <1>11, <1>12, <1>15, <2>1, <2>3
  <2>5. Order(md, h2, t2, o2, r, n, l)
    <3>1. n \in Nat /\ l \in 0 .. n /\ r \in [1 .. n -> DOMAIN md]
      BY <1>5, <1>14, <2>1, <2>3
    <3>2. /\ \A a \in DOMAIN md : \E i \in 1 .. n : r[i] = a
          /\ \A i, q \in 1 .. n : r[i] = r[q] => i = q
      BY <1>6, <1>7, <2>3
    <3>3. \A i \in 1 .. n : /\ md[r[i]].newer = IF i < n THEN r[i + 1] ELSE Null
                            /\ md[r[i]].older = IF i > 1 THEN r[i - 1] ELSE Null
                            /\ md[r[i]].st = "reading" <=> i <= l
      BY <1>9, <1>10, <2>2, <2>3
    <3> QED BY <2>4, <3>1, <3>2, <3>3, Zenon DEF Order
  <2> QED BY <1>1, <1>13, <2>3, <2>5

\* The numbers of the nodes when x of them, after the first k, made room for p.
Appended(s, len, k, x, p) ==
    [i \in 1 .. len - x + 1 |-> IF i <= k THEN s[i] ELSE IF i <= len - x THEN s[i + x] ELSE p]

\* The nodes md: those of s without s[k + 1] .. s[k + x], and p as the newest one.
Grown(nd, s, len, k, x, p, md) ==
    /\ x \in Nat /\ (x = 0 \/ k + x < len)
    /\ p # Null /\ \A i \in 1 .. len : i <= k \/ i > k + x => s[i] # p
    /\ \A a : a \in DOMAIN md <=>
          a = p \/ \E i \in 1 .. len : (i <= k \/ i > k + x) /\ a = s[i]
    /\ md[p].newer = Null /\ md[p].older = s[len] /\ md[p].st = "writing"
    /\ \A i \in 1 .. len : i <= k \/ i > k + x =>
          /\ md[s[i]].newer = IF i = len THEN p ELSE IF i = k THEN s[k + x + 1] ELSE s[i + 1]
          /\ i = k + x + 1 => md[s[i]].older = IF k > 0 THEN s[k] ELSE Null
          /\ i # k + x + 1 => md[s[i]].older = IF i > 1 THEN s[i - 1] ELSE Null
          /\ md[s[i]].st = nd[s[i]].st

\* The x oldest nodes that are not being read leave the chain, and a new node p
\* becomes the newest one.
LEMMA OrderGrows ==
    ASSUME NEW nd, NEW h, NEW t, NEW o, NEW s, NEW len, NEW k, Order(nd, h, t, o, s, len, k),
           Null \notin DOMAIN nd, len > 0, NEW x, NEW p, NEW md,
           Grown(nd, s, len, k, x, p, md)
    PROVE  Order(md, p, Appended(s, len, k, x, p)[1], Appended(s, len, k, x, p)[k + 1],
                 Appended(s, len, k, x, p), len - x + 1, k)
<1> USE DEF Grown
<1>1. PICK r : r = Appended(s, len, k, x, p)
  OBVIOUS
<1>0. PICK n : n = len - x + 1
  OBVIOUS
<1>2. /\ len \in Nat /\ k \in 0 .. len /\ n \in Nat /\ k < n
      /\ \A i \in 1 .. len : s[i] \in DOMAIN nd /\ s[i] # Null
      /\ \A i, l \in 1 .. len : s[i] = s[l] => i = l
  BY <1>0 DEF Order
<1>3. \A i \in 1 .. len : nd[s[i]].st = "reading" <=> i <= k
  BY DEF Order
<1>4. \A i \in 1 .. n : r[i] = IF i <= k THEN s[i] ELSE IF i < n THEN s[i + x] ELSE p
  BY <1>0, <1>1, <1>2 DEF Appended
<1>x. ASSUME NEW i \in 1 .. n, i < n
      PROVE  \E l \in 1 .. len : /\ r[i] = s[l] /\ l = (IF i <= k THEN i ELSE i + x)
                                 /\ l <= k \/ l > k + x
  BY <1>0, <1>2, <1>4, <1>x
<1>y. r[n] = p
  BY <1>2, <1>4
<1>5. r \in [1 .. n -> DOMAIN md]
  <2>1. \A i \in 1 .. n : r[i] \in DOMAIN md
    <3> SUFFICES ASSUME NEW i \in 1 .. n PROVE r[i] \in DOMAIN md
      OBVIOUS
    <3>1. CASE i < n
      BY <1>x, <3>1
    <3>2. CASE i = n
      BY <1>y, <3>2
    <3> QED BY <1>2, <3>1, <3>2
  <2> QED BY <1>0, <1>1, <2>1 DEF Appended
<1>6. \A a \in DOMAIN md : \E i \in 1 .. n : r[i] = a
  <2> SUFFICES ASSUME NEW a \in DOMAIN md PROVE \E i \in 1 .. n : r[i] = a
    OBVIOUS
  <2>1. CASE a = p
    BY <1>2, <1>y, <2>1
  <2>2. CASE a # p
    <3>1. PICK l \in 1 .. len : (l <= k \/ l > k + x) /\ a = s[l]
      BY <2>2
    <3>2. CASE l <= k
      BY <1>2, <1>4, <3>1, <3>2
    <3>3. CASE l > k + x
      <4>1. l - x \in 1 .. n /\ ~(l - x <= k) /\ l - x < n /\ (l - x) + x = l
        BY <1>0, <1>2, <3>3
      <4> QED BY <1>4, <3>1, <4>1
    <3> QED BY <3>1, <3>2, <3>3
  <2> QED BY <2>1, <2>2
<1>7. \A i, l \in 1 .. n : r[i] = r[l] => i = l
  <2> SUFFICES ASSUME NEW i \in 1 .. n, NEW l \in 1 .. n, r[i] = r[l] PROVE i = l
    OBVIOUS
  <2>1. CASE i < n /\ l < n
    BY <1>0, <1>2, <1>4, <2>1
  <2>2. ASSUME NEW j \in 1 .. n, j < n PROVE r[j] # p
    <3>1. PICK q \in 1 .. len : r[j] = s[q] /\ (q <= k \/ q > k + x)
      BY <1>x, <2>2
    <3> QED BY <3>1
  <2> QED BY <1>2, <1>y, <2>1, <2>2
<1>8. \A i \in 1 .. n : md[r[i]].st = "reading" <=> i <= k
  <2> SUFFICES ASSUME NEW i \in 1 .. n PROVE md[r[i]].st = "reading" <=> i <= k
    OBVIOUS
  <2>1. CASE i = n
    BY <1>2, <1>y, <2>1
  <2>2. CASE i < n
    <3>1. PICK l \in 1 .. len : /\ r[i] = s[l] /\ l = (IF i <= k THEN i ELSE i + x)
                                /\ l <= k \/ l > k + x
      BY <1>x, <2>2
    <3>2. md[s[l]].st = nd[s[l]].st
      BY <3>1
    <3> QED BY <1>2, <1>3, <3>1, <3>2
  <2> QED BY <1>2, <2>1, <2>2
<1>9. \A i \in 1 .. n : md[r[i]].newer = IF i < n THEN r[i + 1] ELSE Null
  <2> SUFFICES ASSUME NEW i \in 1 .. n
               PROVE  md[r[i]].newer = IF i < n THEN r[i + 1] ELSE Null
    OBVIOUS
  <2>1. CASE i = n
    BY <1>2, <1>y, <2>1
  <2>2. CASE i < n
    <3>1. PICK l \in 1 .. len : /\ r[i] = s[l] /\ l = (IF i <= k THEN i ELSE i + x)
                                /\ l <= k \/ l > k + x
      BY <1>x, <2>2
    <3>2. md[s[l]].newer = IF l = len THEN p ELSE IF l = k THEN s[k + x + 1] ELSE s[l + 1]
      BY <3>1
    <3>3. r[i + 1] = IF i + 1 <= k THEN s[i + 1] ELSE IF i + 1 < n THEN s[i + 1 + x] ELSE p
      BY <1>2, <1>4, <2>2
    <3>4. CASE i < k
      BY <1>0, <1>2, <2>2, <3>1, <3>2, <3>3, <3>4
    <3>5. CASE i = k
      BY <1>0, <1>2, <2>2, <3>1, <3>2, <3>3, <3>5
    <3>6. CASE i > k
      BY <1>0, <1>2, <2>2, <3>1, <3>2, <3>3, <3>6
    <3> QED BY <1>2, <3>4, <3>5, <3>6
  <2> QED BY <1>2, <2>1, <2>2
<1>10. \A i \in 1 .. n : md[r[i]].older = IF i > 1 THEN r[i - 1] ELSE Null
  <2> SUFFICES ASSUME NEW i \in 1 .. n
               PROVE  md[r[i]].older = IF i > 1 THEN r[i - 1] ELSE Null
    OBVIOUS
  <2>3. i > 1 => r[i - 1] = IF i - 1 <= k THEN s[i - 1] ELSE s[i - 1 + x]
    BY <1>2, <1>4
  <2>1. CASE i = n
    <3>1. i > 1 /\ r[i - 1] = s[len]
      BY <1>0, <1>2, <2>1, <2>3
    <3> QED BY <1>y, <2>1, <3>1
  <2>2. CASE i < n
    <3>1. PICK l \in 1 .. len : /\ r[i] = s[l] /\ l = (IF i <= k THEN i ELSE i + x)
                                /\ l <= k \/ l > k + x
      BY <1>x, <2>2
    <3>2. /\ l = k + x + 1 => md[s[l]].older = IF k > 0 THEN s[k] ELSE Null
          /\ l # k + x + 1 => md[s[l]].older = IF l > 1 THEN s[l - 1] ELSE Null
      BY <3>1
    <3>4. CASE i <= k
      BY <1>0, <1>2, <2>2, <2>3, <3>1, <3>2, <3>4
    <3>5. CASE i = k + 1
      BY <1>0, <1>2, <2>2, <2>3, <3>1, <3>2, <3>5
    <3>6. CASE i > k + 1
      <4>1. l = i + x /\ l > k + x + 1 /\ i > 1 /\ ~(i - 1 <= k) /\ l - 1 = i - 1 + x
        BY <1>2, <3>1, <3>6
      <4>2. r[i - 1] = s[l - 1]
        <5>1. r[i - 1] = s[i - 1 + x]
          BY <2>3, <4>1
        <5> QED BY <4>1, <5>1, Zenon
      <4>3. md[s[l]].older = s[l - 1]
        <5>1. l # k + x + 1 /\ l > 1
          BY <1>2, <4>1
        <5> QED BY <3>2, <5>1
      <4> QED BY <3>1, <4>1, <4>2, <4>3
    <3> QED BY <1>2, <3>4, <3>5, <3>6
  <2> QED BY <1>2, <2>1, <2>2
<1> QED
  <2>1. n # 0 /\ n \in Nat /\ k \in 0 .. n /\ k < n
    BY <1>2
  <2>3. \A i \in 1 .. n : /\ md[r[i]].newer = IF i < n THEN r[i + 1] ELSE Null
                          /\ md[r[i]].older = IF i > 1 THEN r[i - 1] ELSE Null
                          /\ md[r[i]].st = "reading" <=> i <= k
    BY <1>8, <1>9, <1>10, Zenon
  <2>4. /\ p = (IF n = 0 THEN Null ELSE r[n])
        /\ r[1] = (IF n = 0 THEN Null ELSE r[1])
        /\ r[k + 1] = (IF k < n THEN r[k + 1] ELSE Null)
    BY <1>y, <2>1
  <2>2. Order(md, p, r[1], r[k + 1], r, n, k)
    <3>1. r \in [1 .. n -> DOMAIN md]
      BY <1>5
    <3>2. /\ \A a \in DOMAIN md : \E i \in 1 .. n : r[i] = a
          /\ \A i, j \in 1 .. n : r[i] = r[j] => i = j
      BY <1>6, <1>7
    <3> QED BY <2>1, <2>3, <2>4, <3>1, <3>2, Zenon DEF Order
  <2> QED BY <1>0, <1>1, <2>2

-----------------------------------------------------------------------------
\* Where a new node goes

\* The nodes D, of the sizes z, do not overlap; size is that of a new one.
Fitting(D, z, size) ==
    /\ size \in Nat /\ size > 0 /\ Capacity \in Nat
    /\ \A c \in D : z[c] \in Nat /\ z[c] > 0 /\ c + z[c] <= Capacity
    /\ \A c, d \in D : c < d => c + z[c] <= d

\* A new node at p is between left and right and overlaps none of the nodes K.
Placed(K, z, size, left, right, p) ==
    /\ p \in Nat /\ p \notin K /\ p + size <= Capacity
    /\ \A c \in K : (c < p => c + z[c] <= p) /\ (p < c => p + size <= c)
    /\ IsRight(K, left, right)
    /\ IF left < right THEN left < p /\ p < right ELSE left < p \/ p < right

\* Right of the node left, or at the start of the array, in a gap of the ring.
LEMMA TightPlace ==
    ASSUME NEW D \in SUBSET Nat, NEW z, NEW size, Fitting(D, z, size),
           NEW left \in D, NEW right \in D, IsRight(D, left, right), NEW p,
           IF right > left THEN p = left + z[left] /\ size <= right - p
           ELSE \/ p = left + z[left] /\ size <= Capacity - p
                \/ p = 0 /\ size <= right
    PROVE  Placed(D, z, size, left, right, p)
<1>2. size \in Nat /\ size > 0 /\ Capacity \in Nat
  BY DEF Fitting
<1>3. \A c \in D : z[c] \in Nat /\ z[c] > 0 /\ c + z[c] <= Capacity
  BY DEF Fitting
<1>4. \A c, d \in D : c < d => c + z[c] <= d
  BY DEF Fitting
<1>5. z[left] \in Nat /\ z[left] > 0 /\ left + z[left] <= Capacity
  BY <1>3
<1>6. CASE right > left
  <2>1. p \in Nat /\ left < p /\ p < right /\ p + size <= right
    BY <1>2, <1>5, <1>6
  <2>2. \A c \in D : c <= left \/ c >= right
    BY <1>6 DEF IsRight
  <2>3. p \notin D
    BY <2>1, <2>2
  <2>4. p + size <= Capacity
    <3>1. right <= Capacity
      <4>1. right \in Nat /\ z[right] \in Nat /\ right + z[right] <= Capacity
        BY <1>3
      <4> QED BY <1>2, <4>1
    <3> QED BY <1>2, <2>1, <3>1
  <2>5. ASSUME NEW c \in D PROVE (c < p => c + z[c] <= p) /\ (p < c => p + size <= c)
    <3>1. CASE c < left
      <4>1. c + z[c] <= left /\ c + z[c] \in Nat
        BY <1>3, <1>4, <3>1
      <4> QED BY <2>1, <3>1, <4>1
    <3>2. CASE c = left
      BY <1>6, <2>1, <3>2
    <3>3. CASE c >= right
      BY <1>2, <2>1, <3>3
    <3> QED BY <2>2, <3>1, <3>2, <3>3
  <2> QED BY <1>6, <2>1, <2>3, <2>4, <2>5 DEF Placed
<1>7. CASE ~(right > left)
  <2>1. \A c \in D : right <= c /\ c <= left
    BY <1>7 DEF IsRight
  <2>2. CASE p = left + z[left] /\ size <= Capacity - p
    <3>1. p \in Nat /\ left < p /\ p + size <= Capacity
      BY <1>2, <1>5, <2>2
    <3>2. p \notin D
      BY <2>1, <3>1
    <3>3. ASSUME NEW c \in D PROVE (c < p => c + z[c] <= p) /\ (p < c => p + size <= c)
      <4>1. CASE c < left
        <5>1. c + z[c] <= left /\ c + z[c] \in Nat
          BY <1>3, <1>4, <4>1
        <5> QED BY <3>1, <4>1, <5>1
      <4>2. CASE c = left
        BY <2>2, <3>1, <4>2
      <4> QED BY <2>1, <4>1, <4>2
    <3> QED BY <1>7, <3>1, <3>2, <3>3 DEF Placed
  <2>3. CASE p = 0 /\ size <= right
    <3>1. p \in Nat /\ p < right /\ p + size <= right
      BY <1>2, <2>3
    <3>2. p \notin D
      BY <2>1, <3>1
    <3>3. p + size <= Capacity
      <4>1. right \in Nat /\ z[right] \in Nat /\ right + z[right] <= Capacity
        BY <1>3
      <4> QED BY <1>2, <3>1, <4>1
    <3>4. \A c \in D : ~(c < p) /\ p + size <= c
      BY <1>2, <2>1, <3>1
    <3> QED BY <1>7, <3>1, <3>2, <3>3, <3>4 DEF Placed
  <2> QED BY <1>7, <2>2, <2>3
<1> QED BY <1>6, <1>7

\* The gap that the nodes first .. last leave, with the one before it.
LEMMA OverwritePlace ==
    ASSUME NEW D \in SUBSET Nat, NEW z, NEW size, Fitting(D, z, size),
           NEW first \in D, NEW last \in D, first <= last, NEW K, K = D \ (first .. last),
           NEW left \in K, NEW right \in K, IsRight(D, left, first), IsRight(D, last, right),
           NEW p, p = (IF left < first THEN left + z[left] ELSE 0),
           p + size <= last + z[last]
    PROVE  Placed(K, z, size, left, right, p)
<1>1. \A c \in K : c \in Nat /\ c \in D /\ (c < first \/ c > last)
  OBVIOUS
<1>2. size \in Nat /\ size > 0 /\ Capacity \in Nat
  BY DEF Fitting
<1>3. \A c \in D : z[c] \in Nat /\ z[c] > 0 /\ c + z[c] <= Capacity
  BY DEF Fitting
<1>4. \A c, d \in D : c < d => c + z[c] <= d
  BY DEF Fitting
<1>5. /\ z[left] \in Nat /\ z[left] > 0 /\ left \in Nat /\ left \in D
      /\ z[last] \in Nat /\ last + z[last] <= Capacity /\ right \in Nat /\ right \in D
  BY <1>1, <1>3
<1>6. ASSUME NEW c \in K, c > last PROVE c >= last + z[last]
  BY <1>1, <1>4, <1>6
<1>7. CASE left < first
  <2>1. p \in Nat /\ left < p
    BY <1>5, <1>7
  <2>2. p <= first
    BY <1>4, <1>5, <1>7
  <2>3. \A c \in D : c <= left \/ c >= first
    BY <1>7 DEF IsRight
  <2>4. p \notin K
    BY <1>1, <1>5, <2>1, <2>2, <2>3
  <2>5. p + size <= Capacity
    BY <1>2, <1>5, <2>1
  <2>6. ASSUME NEW c \in K PROVE (c < p => c + z[c] <= p) /\ (p < c => p + size <= c)
    <3>0. c \in Nat /\ z[c] \in Nat /\ (c < first \/ c > last) /\ (c <= left \/ c >= first)
      BY <1>1, <1>3, <2>3
    <3>1. CASE c < left
      <4>1. c + z[c] <= left
        BY <1>1, <1>4, <1>5, <3>1
      <4> QED BY <1>5, <2>1, <3>0, <3>1, <4>1
    <3>2. CASE c = left
      BY <1>7, <2>1, <3>2
    <3>3. CASE c > last
      <4>1. c >= last + z[last]
        BY <1>6, <3>3
      <4> QED BY <1>2, <1>5, <2>1, <2>2, <3>0, <3>3, <4>1
    <3> QED BY <1>5, <3>0, <3>1, <3>2, <3>3
  <2>7. CASE last < right
    <3>1. \A c \in D : c <= last \/ c >= right
      BY <2>7 DEF IsRight
    <3>2. left < right /\ p < right
      BY <1>5, <1>7, <2>1, <2>2, <2>7
    <3>3. ASSUME NEW c \in K PROVE c <= left \/ c >= right
      <4>1. c \in Nat /\ (c < first \/ c > last) /\ (c <= left \/ c >= first) /\ (c <= last \/ c >= right)
        BY <1>1, <2>3, <3>1
      <4> QED BY <1>5, <4>1
    <3>4. IsRight(K, left, right)
      BY <3>2, <3>3 DEF IsRight
    <3> QED BY <2>1, <2>4, <2>5, <2>6, <3>2, <3>4 DEF Placed
  <2>8. CASE ~(last < right)
    <3>1. \A c \in D : right <= c /\ c <= last
      BY <2>8 DEF IsRight
    <3>2. ASSUME NEW c \in K PROVE right <= c /\ c <= left
      <4>1. c \in Nat /\ right <= c /\ c <= last /\ (c < first \/ c > last) /\ (c <= left \/ c >= first)
        BY <1>1, <2>3, <3>1
      <4> QED BY <1>5, <4>1
    <3>3. ~(left < right)
      BY <1>5, <3>2
    <3>4. IsRight(K, left, right)
      BY <3>2, <3>3 DEF IsRight
    <3> QED BY <2>1, <2>4, <2>5, <2>6, <3>3, <3>4 DEF Placed
  <2> QED BY <2>7, <2>8
<1>8. CASE ~(left < first)
  <2>1. \A c \in D : first <= c /\ c <= left
    BY <1>8 DEF IsRight
  <2>2. \A c \in K : c > last
    BY <1>1, <2>1
  <2>3. last < right
    BY <2>2
  <2>4. \A c \in D : c <= last \/ c >= right
    BY <2>3 DEF IsRight
  <2>5. ASSUME NEW c \in K PROVE right <= c /\ c <= left
    <3>1. c \in Nat /\ c <= left /\ c > last /\ (c <= last \/ c >= right)
      BY <1>1, <2>1, <2>2, <2>4
    <3> QED BY <1>5, <3>1
  <2>6. ~(left < right)
    BY <1>5, <2>5
  <2>7. IsRight(K, left, right)
    BY <2>5, <2>6 DEF IsRight
  <2>8. p = 0 /\ p \in Nat /\ p < right
    BY <1>5, <1>8, <2>3
  <2>9. p \notin K
    BY <2>2, <2>8
  <2>10. p + size <= Capacity
    BY <1>2, <1>5, <2>8
  <2>11. ASSUME NEW c \in K PROVE ~(c < p) /\ p + size <= c
    <3>1. c \in Nat /\ c >= last + z[last]
      BY <1>1, <1>6, <2>2
    <3> QED BY <1>2, <1>5, <2>8, <3>1
  <2> QED BY <2>6, <2>7, <2>8, <2>9, <2>10, <2>11 DEF Placed
<1> QED BY <1>7, <1>8

-----------------------------------------------------------------------------
\* The run of an overwrite

\* The nodes from the address s[k + 1] to s[m] are s[k + 1] .. s[m], linked by F
\* and in C.
Taken(s, F, C, len, k, m) ==
    /\ m \in k + 1 .. len
    /\ \A i \in 1 .. len : s[k + 1] <= s[i] /\ s[i] <= s[m] <=> k + 1 <= i /\ i <= m
    /\ \A i \in k + 1 .. m : s[i] \in C
    /\ \A i \in k + 1 .. m - 1 : F[s[i]] = s[i + 1]

\* Up to the node e the right neighbour is the next node in age, and committed.
Adjacent(s, F, C, len, k, e) ==
    \A i \in 1 .. len : s[k + 1] <= s[i] /\ s[i] < e =>
       i < len /\ F[s[i]] = s[i + 1] /\ F[s[i]] > s[i] /\ s[i + 1] \in C

\* Going right from s[k + 1] on, as long as the right neighbour is the next node
\* in age, one meets the nodes in the order of their age.
LEMMA RunIsTaken ==
    ASSUME NEW len \in Nat, NEW k \in 0 .. len - 1, NEW D \in SUBSET Int,
           NEW s \in [1 .. len -> D], NEW F, NEW C,
           \A i, j \in 1 .. len : s[i] = s[j] => i = j,
           \A a \in D : IsRight(D, a, F[a]),
           NEW e \in D, s[k + 1] <= e, s[k + 1] \in C, Adjacent(s, F, C, len, k, e)
    PROVE  \E m \in 1 .. len : s[m] = e /\ Taken(s, F, C, len, k, m)
<1> DEFINE Found(n) == \E m \in 1 .. n : s[m] = e /\ Taken(s, F, C, len, k, m)
           Met(n) == s[n] < e /\ Taken(s, F, C, len, k, n)
           S == {n \in Nat : n \in k + 1 .. len => Found(n) \/ Met(n)}
<1>0. len \in Nat /\ k \in Nat /\ k + 1 \in 1 .. len
  OBVIOUS
<1>1. ASSUME NEW n \in k + 1 .. len, Met(n) PROVE n + 1 \in k + 1 .. len /\ (Found(n + 1) \/ Met(n + 1))
  <2>1. /\ n \in 1 .. len /\ s[n] < e /\ s[k + 1] <= s[n]
    BY <1>0, <1>1 DEF Taken
  <2>2. n < len /\ F[s[n]] = s[n + 1] /\ s[n + 1] > s[n] /\ s[n + 1] \in C
    BY <2>1 DEF Adjacent
  <2>3. n + 1 \in 1 .. len
    BY <2>1, <2>2
  <2>4. IsRight(D, s[n], s[n + 1])
    BY <2>1, <2>2
  <2>5. \A c \in D : c <= s[n] \/ c >= s[n + 1]
    BY <2>2, <2>4 DEF IsRight
  <2>6. s[n + 1] <= e
    <3>1. /\ s[n] \in Int /\ s[n + 1] \in Int /\ e \in Int
          /\ e <= s[n] \/ e >= s[n + 1]
      BY <2>1, <2>3, <2>5
    <3> QED BY <2>1, <3>1
  <2>7. Taken(s, F, C, len, k, n + 1)
    <3>1. n + 1 \in k + 1 .. len
      BY <1>0, <2>2
    <3>2. ASSUME NEW i \in 1 .. len
          PROVE  (s[k + 1] <= s[i] /\ s[i] <= s[n + 1]) <=> (k + 1 <= i /\ i <= n + 1)
      <4>1. s[k + 1] <= s[i] /\ s[i] <= s[n] <=> k + 1 <= i /\ i <= n
        BY <1>1 DEF Taken
      <4>2. s[i] <= s[n] \/ s[i] >= s[n + 1]
        BY <2>5
      <4>3. s[i] = s[n + 1] <=> i = n + 1
        BY <2>3
      <4>4. s[i] \in Int /\ s[n] \in Int /\ s[n + 1] \in Int /\ s[k + 1] \in Int
        BY <1>0, <2>1, <2>3
      <4>5. CASE i = n + 1
        <5>1. s[i] = s[n + 1] /\ s[k + 1] <= s[n + 1] /\ k + 1 <= n + 1
          BY <1>0, <2>1, <2>2, <4>4, <4>5
        <5> QED BY <4>4, <4>5, <5>1
      <4>6. CASE i # n + 1
        <5>1. s[i] <= s[n + 1] <=> s[i] <= s[n]
          BY <2>2, <4>2, <4>3, <4>4, <4>6
        <5>2. i <= n + 1 <=> i <= n
          BY <2>1, <4>6
        <5> QED BY <4>1, <5>1, <5>2
      <4> QED BY <4>5, <4>6
    <3>3. \A i \in k + 1 .. n + 1 : s[i] \in C
      <4>1. \A i \in k + 1 .. n : s[i] \in C
        BY <1>1 DEF Taken
      <4> QED BY <1>0, <2>2, <4>1
    <3>4. \A i \in k + 1 .. (n + 1) - 1 : F[s[i]] = s[i + 1]
      <4>1. \A i \in k + 1 .. n - 1 : F[s[i]] = s[i + 1]
        BY <1>1 DEF Taken
      <4>2. ASSUME NEW i \in k + 1 .. (n + 1) - 1 PROVE i = n \/ i \in k + 1 .. n - 1
        BY <1>0, <2>1
      <4> QED BY <2>2, <4>1, <4>2
    <3> QED BY <3>1, <3>2, <3>3, <3>4 DEF Taken
  <2>8. s[n + 1] \in Int /\ e \in Int
    BY <2>3
  <2>9. CASE s[n + 1] = e
    BY <1>0, <2>1, <2>3, <2>7, <2>9
  <2>10. CASE s[n + 1] < e
    BY <1>0, <2>1, <2>3, <2>7, <2>10
  <2> QED BY <2>6, <2>8, <2>9, <2>10
<1>2. 0 \in S
  BY <1>0
<1>3. \A n \in Nat : n \in S => n + 1 \in S
  <2> SUFFICES ASSUME NEW n \in Nat, n \in S, n + 1 \in k + 1 .. len
               PROVE  Found(n + 1) \/ Met(n + 1)
    OBVIOUS
  <2>1. CASE n = k
    <3>1. Taken(s, F, C, len, k, k + 1)
      <4>1. k + 1 \in k + 1 .. len
        BY <1>0
      <4>2. ASSUME NEW i \in 1 .. len
            PROVE  s[k + 1] <= s[i] /\ s[i] <= s[k + 1] <=> k + 1 <= i /\ i <= k + 1
        <5>1. s[i] \in Int /\ s[k + 1] \in Int /\ (s[i] = s[k + 1] <=> i = k + 1)
          BY <1>0
        <5>2. s[k + 1] <= s[i] /\ s[i] <= s[k + 1] <=> s[i] = s[k + 1]
          BY <5>1
        <5>3. k + 1 <= i /\ i <= k + 1 <=> i = k + 1
          BY <1>0
        <5> QED BY <5>1, <5>2, <5>3
      <4>3. \A i \in k + 1 .. k + 1 : s[i] \in C
        BY <1>0
      <4>4. \A i \in k + 1 .. (k + 1) - 1 : F[s[i]] = s[i + 1]
        BY <1>0
      <4> QED BY <4>1, <4>2, <4>3, <4>4 DEF Taken
    <3>2. s[k + 1] = e \/ s[k + 1] < e
      <4>1. s[k + 1] \in Int /\ e \in Int /\ s[k + 1] <= e
        BY <1>0
      <4> QED BY <4>1
    <3> QED BY <1>0, <2>1, <3>1, <3>2
  <2>2. CASE n # k
    <3>1. n \in k + 1 .. len
      BY <1>0, <2>2
    <3>2. CASE Found(n)
      <4>1. 1 .. n \subseteq 1 .. n + 1
        BY <3>1
      <4> QED BY <3>2, <4>1
    <3>3. CASE Met(n)
      <4> HIDE DEF Found, Met
      <4> QED BY <1>1, <3>1, <3>3
    <3> QED BY <3>1, <3>2, <3>3
  <2> QED BY <2>1, <2>2
<1> HIDE DEF S
<1>4. len \in S
  BY <1>0, <1>2, <1>3, Induct
<1>5. len \in k + 1 .. len
  BY <1>0
<1>6. Found(len) \/ Met(len)
  <2> HIDE DEF Found, Met
  <2> QED BY <1>4, <1>5 DEF S
<1>7. ~Met(len)
  <2>1. len + 1 \notin k + 1 .. len
    BY <1>0
  <2> HIDE DEF Found, Met
  <2> QED BY <1>1, <1>5, <2>1
<1> QED BY <1>6, <1>7

-----------------------------------------------------------------------------
\* What each operation does to the order of the nodes

Shape(nd, c, h, t, o, s, len, k) ==
    Ring(nd) /\ Counted(nd, c) /\ Order(nd, h, t, o, s, len, k)
Shaped(s, len, k) == Shape(node, counter, HEAD, TAIL, oldest_reserve, s, len, k)

\* Node s[j] changes its state to st, and no node its size.
Changes(nd, md, s, len, j, st) ==
    \A i \in 1 .. len : /\ md[s[i]].st = IF i = j THEN st ELSE nd[s[i]].st
                        /\ md[s[i]].size = nd[s[i]].size

\* The first l nodes are being read when s[j] is in state st.
ReadUpTo(nd, s, len, j, st, l) ==
    \A i \in 1 .. len : (IF i = j THEN st ELSE nd[s[i]].st) = "reading" <=> i <= l

\* Node s[j] goes from the state old to new; then the first l nodes are being read.
ChangesTo(nd, c, s, len, j, old, new, l, md, d, o) ==
    /\ j \in 1 .. len /\ l \in 0 .. len
    /\ old \in State /\ new \in State /\ old # new /\ nd[s[j]].st = old
    /\ ReadUpTo(nd, s, len, j, new, l)
    /\ md = [nd EXCEPT ![s[j]].st = new]
    /\ d = [c EXCEPT ![old] = @ - 1, ![new] = @ + 1]
    /\ o = IF l < len THEN s[l + 1] ELSE Null

\* A change of state keeps the chains, and the counters follow it.
LEMMA ChangeShape ==
    ASSUME NEW nd, NEW c, NEW h, NEW t, NEW o, NEW s, NEW len, NEW k,
           Shape(nd, c, h, t, o, s, len, k), NEW j, NEW old, NEW new, NEW l,
           NEW md, NEW d, NEW o2, ChangesTo(nd, c, s, len, j, old, new, l, md, d, o2)
    PROVE  Shape(md, d, h, t, o2, s, len, l) /\ Changes(nd, md, s, len, j, new)
<1>0. /\ j \in 1 .. len /\ l \in 0 .. len
      /\ old \in State /\ new \in State /\ old # new /\ nd[s[j]].st = old
      /\ ReadUpTo(nd, s, len, j, new, l)
      /\ md = [nd EXCEPT ![s[j]].st = new]
      /\ d = [c EXCEPT ![old] = @ - 1, ![new] = @ + 1]
      /\ o2 = IF l < len THEN s[l + 1] ELSE Null
  BY DEF ChangesTo
<1>1. Ring(nd) /\ Counted(nd, c) /\ Order(nd, h, t, o, s, len, k)
  BY DEF Shape
<1>2. Nodes(nd)
  BY <1>1 DEF Ring
<1>3. PICK a : a = s[j] /\ a \in DOMAIN nd
  BY <1>0, <1>1 DEF Order
<1>4. DOMAIN md = DOMAIN nd /\ Nodes(md)
  BY <1>0, <1>2, <1>3 DEF Nodes, Node
<1>5. ASSUME NEW b \in DOMAIN nd
      PROVE  /\ md[b].fwd = nd[b].fwd /\ md[b].bwd = nd[b].bwd /\ md[b].size = nd[b].size
             /\ md[b].newer = nd[b].newer /\ md[b].older = nd[b].older
             /\ md[b].st = IF b = a THEN new ELSE nd[b].st
  BY <1>0, <1>2, <1>3 DEF Nodes, Node
<1>6. Ring(md)
  BY <1>1, <1>4, <1>5, RingStays
<1>7. Counted(md, d)
  <2>1. Moved(nd, c, a, old, new, md, d)
    BY <1>0, <1>3, <1>4, <1>5 DEF Moved
  <2> QED BY <1>1, <2>1, CountMoved, Zenon
<1>8. ASSUME NEW i \in 1 .. len
      PROVE  /\ md[s[i]].st = IF i = j THEN new ELSE nd[s[i]].st
             /\ md[s[i]].size = nd[s[i]].size
  <2>1. s[i] \in DOMAIN nd /\ (s[i] = a <=> i = j)
    BY <1>0, <1>1, <1>3 DEF Order
  <2> QED BY <1>5, <2>1
<1>9. Order(md, h, t, o2, s, len, l)
  <2>1. \A i \in 1 .. len : md[s[i]].st = "reading" <=> i <= l
    BY <1>0, <1>8 DEF ReadUpTo
  <2>2. \A b \in DOMAIN nd : md[b].newer = nd[b].newer /\ md[b].older = nd[b].older
    BY <1>5
  <2> QED BY <1>0, <1>1, <1>4, <2>1, <2>2, OrderStays
<1> QED BY <1>6, <1>7, <1>8, <1>9 DEF Shape, Changes

\* eaf_ringbuffer_consume takes the oldest node that is not being read.
LEMMA ConsumeShape ==
    ASSUME NEW s, NEW len, NEW k, Shaped(s, len, k), Null \notin Live, Consume
    PROVE  /\ Shaped(s, len, k + 1)' /\ k < len /\ node[s[k + 1]].st = "committed"
           /\ Changes(node, node', s, len, k + 1, "reading")
<1>1. Order(node, HEAD, TAIL, oldest_reserve, s, len, k)
  BY DEF Shaped, Shape
<1>2. /\ len \in Nat /\ k \in 0 .. len /\ k < len /\ k + 1 \in 1 .. len
      /\ oldest_reserve = s[k + 1]
  BY <1>1 DEF Order, Consume
<1>3. /\ node[s[k + 1]].st = "committed" /\ node' = [node EXCEPT ![s[k + 1]].st = "reading"]
      /\ counter' = [counter EXCEPT !["committed"] = @ - 1, !["reading"] = @ + 1]
      /\ oldest_reserve' = node[s[k + 1]].newer /\ HEAD' = HEAD /\ TAIL' = TAIL
  BY <1>2 DEF Consume
<1>4. oldest_reserve' = IF k + 1 < len THEN s[(k + 1) + 1] ELSE Null
  BY <1>1, <1>2, <1>3 DEF Order
<1>5. ReadUpTo(node, s, len, k + 1, "reading", k + 1)
  <2>1. \A i \in 1 .. len : node[s[i]].st = "reading" <=> i <= k
    BY <1>1 DEF Order
  <2> QED BY <1>2, <2>1 DEF ReadUpTo
<1>6. k + 1 \in 0 .. len /\ "committed" \in State /\ "reading" \in State
  BY <1>2 DEF State
<1>7. /\ Shape(node', counter', HEAD', TAIL', oldest_reserve', s, len, k + 1)
      /\ Changes(node, node', s, len, k + 1, "reading")
  <2>1. Shape(node, counter, HEAD, TAIL, oldest_reserve, s, len, k)
    BY DEF Shaped
  <2>2. ChangesTo(node, counter, s, len, k + 1, "committed", "reading", k + 1,
                  node', counter', oldest_reserve')
    BY <1>2, <1>3, <1>4, <1>5, <1>6 DEF ChangesTo
  <2> QED BY <1>3, <2>1, <2>2, ChangeShape
<1> QED BY <1>2, <1>3, <1>7 DEF Shaped

\* eaf_ringbuffer_commit of a node being written.
LEMMA CommitShape ==
    ASSUME NEW s, NEW len, NEW k, Shaped(s, len, k), NEW a \in Live, CommitWrite(a)
    PROVE  /\ Shaped(s, len, k)'
           /\ \E j \in 1 .. len : /\ node[s[j]].st = "writing"
                                  /\ Changes(node, node', s, len, j, "committed")
<1>1. Order(node, HEAD, TAIL, oldest_reserve, s, len, k)
  BY DEF Shaped, Shape
<1>2. PICK j \in 1 .. len : s[j] = a
  BY <1>1 DEF Order, Live
<1>3. /\ node[s[j]].st = "writing" /\ node' = [node EXCEPT ![s[j]].st = "committed"]
      /\ counter' = [counter EXCEPT !["writing"] = @ - 1, !["committed"] = @ + 1]
      /\ oldest_reserve' = oldest_reserve /\ HEAD' = HEAD /\ TAIL' = TAIL
  BY <1>2 DEF CommitWrite
<1>4. oldest_reserve' = (IF k < len THEN s[k + 1] ELSE Null) /\ k \in 0 .. len
  BY <1>1, <1>3 DEF Order
<1>5. ReadUpTo(node, s, len, j, "committed", k)
  <2>1. \A i \in 1 .. len : node[s[i]].st = "reading" <=> i <= k
    BY <1>1 DEF Order
  <2> QED BY <1>3, <2>1 DEF ReadUpTo
<1>6. "committed" \in State /\ "writing" \in State
  BY DEF State
<1>7. /\ Shape(node', counter', HEAD', TAIL', oldest_reserve', s, len, k)
      /\ Changes(node, node', s, len, j, "committed")
  <2>1. Shape(node, counter, HEAD, TAIL, oldest_reserve, s, len, k)
    BY DEF Shaped
  <2>2. ChangesTo(node, counter, s, len, j, "writing", "committed", k,
                  node', counter', oldest_reserve')
    BY <1>2, <1>3, <1>4, <1>5, <1>6 DEF ChangesTo
  <2> QED BY <1>3, <2>1, <2>2, ChangeShape
<1> QED BY <1>3, <1>7 DEF Shaped

\* eaf_ringbuffer_commit gives back a node, the newest one being read.
LEMMA GiveBackShape ==
    ASSUME NEW s, NEW len, NEW k, Shaped(s, len, k), Null \notin Live,
           NEW a \in Live, DiscardRead(a)
    PROVE  /\ Shaped(s, len, k - 1)' /\ k > 0
           /\ Changes(node, node', s, len, k, "committed")
<1>1. Order(node, HEAD, TAIL, oldest_reserve, s, len, k)
  BY DEF Shaped, Shape
<1>2. PICK j \in 1 .. len : s[j] = a
  BY <1>1 DEF Order, Live
<1>0. /\ len \in Nat /\ k \in 0 .. len
      /\ \A i \in 1 .. len : s[i] # Null /\ s[i] \in Live
      /\ \A i, l \in 1 .. len : s[i] = s[l] => i = l
  BY <1>1 DEF Order, Live
<1>3. \A i \in 1 .. len : /\ node[s[i]].newer = IF i < len THEN s[i + 1] ELSE Null
                          /\ node[s[i]].older = IF i > 1 THEN s[i - 1] ELSE Null
                          /\ node[s[i]].st = "reading" <=> i <= k
  BY <1>1 DEF Order
<1>4. j = k
  <2>1. j <= k
    BY <1>2, <1>3 DEF DiscardRead
  <2>2. ASSUME j < k PROVE FALSE
    <3>1. j < len /\ j + 1 \in 1 .. len /\ j + 1 <= k
      BY <1>0, <2>2
    <3>2. node[s[j]].newer = s[j + 1] /\ s[j + 1] # Null /\ node[s[j + 1]].st = "reading"
      BY <1>0, <1>3, <3>1
    <3> QED BY <1>2, <3>2 DEF DiscardRead, MayGiveBack
  <2> QED BY <1>0, <2>1, <2>2
<1>5. /\ node[s[k]].st = "reading" /\ node' = [node EXCEPT ![s[k]].st = "committed"]
      /\ counter' = [counter EXCEPT !["reading"] = @ - 1, !["committed"] = @ + 1]
      /\ oldest_reserve' = (IF \/ node[s[k]].newer = Null
                               \/ oldest_reserve # Null /\ node[oldest_reserve].older = s[k]
                            THEN s[k] ELSE oldest_reserve)
      /\ HEAD' = HEAD /\ TAIL' = TAIL
  BY <1>2, <1>4 DEF DiscardRead
<1>6. k \in 1 .. len /\ k - 1 \in 0 .. len /\ k - 1 < len /\ (k - 1) + 1 = k
  BY <1>0, <1>4
<1>7. oldest_reserve' = IF k - 1 < len THEN s[(k - 1) + 1] ELSE Null
  <2>1. oldest_reserve = IF k < len THEN s[k + 1] ELSE Null
    BY <1>1 DEF Order
  <2>2. CASE k = len
    BY <1>3, <1>5, <1>6, <2>2
  <2>3. CASE k < len
    <3>1. k + 1 \in 1 .. len /\ k + 1 > 1 /\ (k + 1) - 1 = k
      BY <1>0, <1>6, <2>3
    <3>2. oldest_reserve # Null /\ node[oldest_reserve].older = s[k]
      BY <1>0, <1>3, <2>1, <2>3, <3>1
    <3> QED BY <1>5, <1>6, <3>2
  <2> QED BY <1>0, <2>2, <2>3
<1>8. ReadUpTo(node, s, len, k, "committed", k - 1)
  BY <1>0, <1>3 DEF ReadUpTo
<1>9. "committed" \in State /\ "reading" \in State
  BY DEF State
<1>10. /\ Shape(node', counter', HEAD', TAIL', oldest_reserve', s, len, k - 1)
       /\ Changes(node, node', s, len, k, "committed")
  <2>1. Shape(node, counter, HEAD, TAIL, oldest_reserve, s, len, k)
    BY DEF Shaped
  <2>2. ChangesTo(node, counter, s, len, k, "reading", "committed", k - 1,
                  node', counter', oldest_reserve')
    BY <1>5, <1>6, <1>7, <1>8, <1>9 DEF ChangesTo
  <2> QED BY <1>5, <2>1, <2>2, ChangeShape
<1> QED BY <1>6, <1>10 DEF Shaped

\* Every node of s but s[j] keeps its state and size.
Keeps(nd, md, s, len, j) ==
    \A i \in 1 .. len : i # j => md[s[i]].st = nd[s[i]].st /\ md[s[i]].size = nd[s[i]].size

\* The fields of the nodes when a is taken out of both chains.
LEMMA DeleteFields ==
    ASSUME NEW nd, Ring(nd), NEW a \in DOMAIN nd, NEW md,
           md = Restrict(Follow(Link(nd, nd[a].bwd, nd[a].fwd), nd[a].older, nd[a].newer),
                         DOMAIN nd \ {a})
    PROVE  Unlinked(nd, a, md)
<1>1. PICK l, r, o, w : l = nd[a].bwd /\ r = nd[a].fwd /\ o = nd[a].older /\ w = nd[a].newer
  OBVIOUS
<1>2. /\ Nodes(nd) /\ l \in DOMAIN nd /\ r \in DOMAIN nd
      /\ o \in Int \cup {Null} /\ w \in Int \cup {Null}
  BY <1>1 DEF Ring, Circle, Fwd, Bwd, Nodes, Node
<1>3. PICK m1 : m1 = Link(nd, l, r)
  OBVIOUS
<1>4. /\ Nodes(m1) /\ DOMAIN m1 = DOMAIN nd
      /\ \A c \in DOMAIN nd : /\ m1[c].fwd = IF c = l THEN r ELSE nd[c].fwd
                              /\ m1[c].bwd = IF c = r THEN l ELSE nd[c].bwd
                              /\ m1[c].newer = nd[c].newer /\ m1[c].older = nd[c].older
                              /\ m1[c].st = nd[c].st /\ m1[c].size = nd[c].size
  <2>1. Linked(nd, l, r, m1)
    BY <1>2, <1>3, LinkFields
  <2> QED BY <2>1 DEF Linked
<1>5. PICK m2 : m2 = Follow(m1, o, w)
  OBVIOUS
<1>6. /\ Nodes(m2) /\ DOMAIN m2 = DOMAIN nd
      /\ \A c \in DOMAIN nd : /\ m2[c].newer = IF c = o THEN w ELSE m1[c].newer
                              /\ m2[c].older = IF c = w THEN o ELSE m1[c].older
                              /\ m2[c].fwd = m1[c].fwd /\ m2[c].bwd = m1[c].bwd
                              /\ m2[c].st = m1[c].st /\ m2[c].size = m1[c].size
  <2>1. Followed(m1, o, w, m2)
    BY <1>2, <1>4, <1>5, FollowFields
  <2> QED BY <1>4, <2>1 DEF Followed
<1>7. PICK S : S = DOMAIN nd \ {a}
  OBVIOUS
<1>8. md = Restrict(m2, S)
  BY <1>1, <1>3, <1>5, <1>7
<1>9. Nodes(md) /\ DOMAIN md = S /\ \A c \in S : md[c] = m2[c]
  <2>1. S \in SUBSET DOMAIN m2
    BY <1>6, <1>7
  <2>2. Kept(m2, S, md)
    BY <1>6, <1>8, <2>1, RestrictFields
  <2> QED BY <2>2 DEF Kept
<1>10. ASSUME NEW c \in S
       PROVE  /\ md[c].fwd = IF c = l THEN r ELSE nd[c].fwd
              /\ md[c].bwd = IF c = r THEN l ELSE nd[c].bwd
              /\ md[c].newer = IF c = o THEN w ELSE nd[c].newer
              /\ md[c].older = IF c = w THEN o ELSE nd[c].older
              /\ md[c].st = nd[c].st /\ md[c].size = nd[c].size
  <2>1. c \in DOMAIN nd /\ md[c] = m2[c]
    BY <1>7, <1>9
  <2> QED BY <1>4, <1>6, <2>1
<1> QED BY <1>1, <1>7, <1>9, <1>10 DEF Unlinked

\* _ring_buffer_delete_node takes one node out of both chains and of the counters.
LEMMA DeleteShape ==
    ASSUME NEW s, NEW len, NEW k, Shaped(s, len, k), Null \notin Live, NEW a \in Live,
           NEW old \in State, node[a].st = old,
           NEW count, count = [counter EXCEPT ![old] = @ - 1], DeleteNode(a, count)
    PROVE  \E j \in 1 .. len :
              /\ s[j] = a
              /\ Shaped(Removed(s, len, j), len - 1, IF j <= k THEN k - 1 ELSE k)'
              /\ Keeps(node, node', s, len, j)
<1>1. /\ Ring(node) /\ Counted(node, counter)
      /\ Order(node, HEAD, TAIL, oldest_reserve, s, len, k)
  BY DEF Shaped, Shape
<1>2. PICK j \in 1 .. len : s[j] = a
  BY <1>1 DEF Order, Live
<1>3. /\ len \in Nat /\ k \in 0 .. len
      /\ \A i \in 1 .. len : s[i] \in Live
      /\ \A i, l \in 1 .. len : s[i] = s[l] => i = l
  BY <1>1 DEF Order, Live
<1>4. CASE node[a].fwd = a
  <2>1. /\ node' = << >> /\ HEAD' = Null /\ TAIL' = Null /\ oldest_reserve' = Null
        /\ counter' = NoCount
    BY <1>4 DEF DeleteNode
  <2>2. IsRight(Live, a, a) /\ Live \subseteq Int
    BY <1>1, <1>4 DEF Ring, Circle, Fwd, Live, Nodes
  <2>3. \A c \in Live : c = a
    BY <2>2 DEF IsRight
  <2>4. len = 1 /\ j = 1
    <3>1. \A i \in 1 .. len : i = j
      BY <1>2, <1>3, <2>3
    <3>2. 1 \in 1 .. len /\ len \in 1 .. len
      BY <1>2, <1>3
    <3> QED BY <3>1, <3>2
  <2>5. DOMAIN node' = {}
    BY <2>1
  <2>6. Ring(node')
    <3>1. node' \in [DOMAIN node' -> Node(Int)]
      BY <2>1
    <3> QED BY <2>5, <3>1 DEF Ring, Nodes, Circle, Apart
  <2>7. Counted(node', counter')
    <3>1. \A st \in State : {b \in DOMAIN node' : node'[b].st = st} = {}
      BY <2>5
    <3>2. Cardinality({}) = 0
      BY FS_EmptySet
    <3>3. counter' \in [State -> Int] /\ \A st \in State : counter'[st] = 0
      BY <2>1 DEF NoCount
    <3> QED BY <3>1, <3>2, <3>3 DEF Counted
  <2>8. Order(node', HEAD', TAIL', oldest_reserve', Removed(s, len, j), 0, 0)
    <3>1. PICK r : r = Removed(s, len, j)
      OBVIOUS
    <3>2. r \in [1 .. 0 -> DOMAIN node'] /\ \A i \in 1 .. 0 : FALSE
      BY <2>4, <3>1 DEF Removed
    <3>3. Order(node', HEAD', TAIL', oldest_reserve', r, 0, 0)
      BY <2>1, <2>5, <3>2 DEF Order
    <3> QED BY <3>1, <3>3
  <2>9. len - 1 = 0 /\ (IF j <= k THEN k - 1 ELSE k) = 0
    BY <1>3, <2>4
  <2>10. Shaped(Removed(s, len, j), len - 1, IF j <= k THEN k - 1 ELSE k)'
    BY <2>6, <2>7, <2>8, <2>9 DEF Shaped, Shape
  <2>11. Keeps(node, node', s, len, j)
    BY <2>4 DEF Keeps
  <2> QED BY <1>2, <2>10, <2>11
<1>5. CASE node[a].fwd # a
  <2>1. /\ node' = Restrict(Follow(Link(node, node[a].bwd, node[a].fwd),
                                   node[a].older, node[a].newer), DOMAIN node \ {a})
        /\ HEAD' = (IF node[a].older # Null /\ node[a].newer = Null THEN node[a].older ELSE HEAD)
        /\ TAIL' = (IF node[a].older = Null THEN node[a].newer ELSE TAIL)
        /\ oldest_reserve' = (IF oldest_reserve = a THEN node[a].newer ELSE oldest_reserve)
        /\ counter' = [counter EXCEPT ![old] = @ - 1]
    BY <1>5 DEF DeleteNode, HeadAfter, Live
  <2>2. PICK md : md = node'
    OBVIOUS
  <2>3. Unlinked(node, a, md)
    <3>1. a \in DOMAIN node
      BY DEF Live
    <3> QED BY <1>1, <2>1, <2>2, <3>1, DeleteFields
  <2>4. Ring(md)
    <3>1. a \in DOMAIN node
      BY DEF Live
    <3> QED BY <1>1, <1>5, <2>3, <3>1, RingShrinks
  <2>5. Counted(md, counter')
    <3>1. a \in DOMAIN node
      BY DEF Live
    <3> QED BY <1>1, <2>1, <2>3, <3>1, CountLess
  <2>6. len > 1
    <3>1. node[a].fwd \in Live
      BY <1>1 DEF Ring, Circle, Fwd, Live
    <3>2. PICK i \in 1 .. len : s[i] = node[a].fwd
      BY <1>1, <3>1 DEF Order, Live
    <3>3. i # j
      BY <1>2, <1>5, <3>2
    <3> QED BY <1>3, <3>3
  <2>7. Order(md, HEAD', TAIL', oldest_reserve', Removed(s, len, j), len - 1,
              IF j <= k THEN k - 1 ELSE k)
    <3>1. Unlinked(node, s[j], md) /\ Null \notin DOMAIN node
      BY <1>2, <2>3 DEF Live
    <3>2. EndsMove(node, s[j], HEAD, TAIL, oldest_reserve, HEAD', TAIL', oldest_reserve')
      BY <1>2, <2>1 DEF EndsMove
    <3> QED BY <1>1, <2>6, <3>1, <3>2, OrderShrinks
  <2>8. Shaped(Removed(s, len, j), len - 1, IF j <= k THEN k - 1 ELSE k)'
    BY <2>2, <2>4, <2>5, <2>7 DEF Shaped, Shape
  <2>9. Keeps(node, node', s, len, j)
    <3>1. DOMAIN md = Live \ {a}
      BY <2>3 DEF Unlinked, Live
    <3>2. ASSUME NEW i \in 1 .. len, i # j PROVE s[i] \in DOMAIN md
      BY <1>2, <1>3, <3>1, <3>2
    <3> QED BY <2>2, <2>3, <3>2 DEF Keeps, Unlinked
  <2> QED BY <1>2, <2>8, <2>9
<1> QED BY <1>4, <1>5

\* The buffer with a single node.
LEMMA OnlyShape ==
    ASSUME NEW size \in Size, NEW count \in [State -> Int], OnlyNode(size, count),
           \A st \in State : count[st] = 0
    PROVE  /\ Shaped([i \in 1 .. 1 |-> 0], 1, 0)' /\ 0 \in Address
           /\ node'[0].st = "writing" /\ node'[0].size = size
<1>1. /\ size <= Capacity /\ HEAD' = 0 /\ TAIL' = 0 /\ oldest_reserve' = 0
      /\ counter' = [count EXCEPT !["writing"] = @ + 1]
  BY DEF OnlyNode
<1>2. PICK md : md = node'
  OBVIOUS
<1>3. /\ Nodes(md) /\ DOMAIN md = {0}
      /\ md[0] = [fwd |-> 0, bwd |-> 0, newer |-> Null, older |-> Null,
                  st |-> "writing", size |-> size]
  <2>1. PICK nd : nd = << >>
    OBVIOUS
  <2>2. DOMAIN nd = {} /\ Nodes(nd)
    <3>1. DOMAIN nd = {}
      BY <2>1
    <3>2. nd \in [DOMAIN nd -> Node(Int)]
      BY <2>1
    <3> QED BY <3>1, <3>2 DEF Nodes
  <2>3. md = With(nd, 0, size)
    BY <1>2, <2>1 DEF OnlyNode
  <2>4. Joined(nd, 0, size, md)
    BY <2>2, <2>3, WithFields
  <2> QED BY <2>2, <2>4 DEF Joined
<1>4. /\ md[0].fwd = 0 /\ md[0].bwd = 0 /\ md[0].newer = Null /\ md[0].older = Null
      /\ md[0].st = "writing" /\ md[0].size = size
  BY <1>3
<1>5. Ring(md)
  BY <1>1, <1>3, <1>4, RingOfOne
<1>6. Counted(md, counter')
  <2>1. In(md, "writing") = {0} /\ \A st \in State : st # "writing" => In(md, st) = {}
    BY <1>3, <1>4 DEF In
  <2>2. Cardinality({0}) = 1 /\ Cardinality({}) = 0
    BY FS_Singleton, FS_EmptySet
  <2>3. /\ counter' \in [State -> Int] /\ counter'["writing"] = 1
        /\ \A st \in State : st # "writing" => counter'[st] = 0
    BY <1>1 DEF State
  <2>4. \A st \in State : counter'[st] = Cardinality(In(md, st))
    BY <2>1, <2>2, <2>3
  <2> QED BY <2>3, <2>4, CountedIn
<1>7. Order(md, HEAD', TAIL', oldest_reserve', [i \in 1 .. 1 |-> 0], 1, 0)
  <2>1. PICK r : r = [i \in 1 .. 1 |-> 0]
    OBVIOUS
  <2>2. r[1] = 0 /\ r \in [1 .. 1 -> DOMAIN md] /\ \A i \in 1 .. 1 : i = 1
    BY <1>3, <2>1
  <2>3. Order(md, HEAD', TAIL', oldest_reserve', r, 1, 0)
    BY <1>1, <1>3, <1>4, <2>2 DEF Order
  <2> QED BY <2>1, <2>3
<1>8. 0 \in Address
  BY <1>3, <1>5 DEF Ring
<1> QED BY <1>2, <1>4, <1>5, <1>6, <1>7, <1>8 DEF Shaped, Shape

-----------------------------------------------------------------------------
\* A new node

\* The nodes K of nd and a new node p, between left and right in the ring, after
\* the newest node h in age; w becomes the successor of o.
Inserted(nd, K, left, right, p, size, o, w, h, md) ==
    /\ Nodes(md) /\ DOMAIN md = K \cup {p}
    /\ md[p].fwd = right /\ md[p].bwd = left /\ md[p].newer = Null /\ md[p].older = h
    /\ md[p].st = "writing" /\ md[p].size = size
    /\ \A c \in K :
          /\ md[c].fwd = IF c = left THEN p ELSE nd[c].fwd
          /\ md[c].bwd = IF c = right THEN p ELSE nd[c].bwd
          /\ md[c].newer = IF c = h THEN p ELSE IF c = o THEN w ELSE nd[c].newer
          /\ md[c].older = IF c = w THEN o ELSE nd[c].older
          /\ md[c].st = nd[c].st /\ md[c].size = nd[c].size

\* The nodes K of nd and a new node p, which is linked by position only.
Woven(nd, K, left, right, p, size, md) ==
    /\ Nodes(md) /\ DOMAIN md = K \cup {p}
    /\ md[p].fwd = right /\ md[p].bwd = left /\ md[p].newer = Null /\ md[p].older = Null
    /\ md[p].st = "writing" /\ md[p].size = size
    /\ \A c \in K :
          /\ md[c].fwd = IF c = left THEN p ELSE nd[c].fwd
          /\ md[c].bwd = IF c = right THEN p ELSE nd[c].bwd
          /\ md[c].newer = nd[c].newer /\ md[c].older = nd[c].older
          /\ md[c].st = nd[c].st /\ md[c].size = nd[c].size

\* The nodes K of nd as they are, and a new one.
Beside(nd, K, p, size, md) ==
    /\ Nodes(md) /\ DOMAIN md = K \cup {p}
    /\ md[p] = [fwd |-> p, bwd |-> p, newer |-> Null, older |-> Null,
                st |-> "writing", size |-> size]
    /\ \A c \in K : md[c] = nd[c]

\* Two links weave the new node into the ring.
LEMMA WeaveFields ==
    ASSUME NEW nd, NEW K, NEW left \in K, NEW right \in K, NEW p, p \notin K, NEW size,
           NEW n0, Beside(nd, K, p, size, n0)
    PROVE  Woven(nd, K, left, right, p, size, Link(Link(n0, p, right), left, p))
<1>1. /\ Nodes(n0) /\ DOMAIN n0 = K \cup {p}
      /\ n0[p].newer = Null /\ n0[p].older = Null /\ n0[p].st = "writing" /\ n0[p].size = size
      /\ \A c \in K : n0[c] = nd[c]
  BY DEF Beside
<1>2. p \in DOMAIN n0 /\ left \in DOMAIN n0 /\ right \in DOMAIN n0
  BY <1>1
<1>3. PICK m1 : m1 = Link(n0, p, right)
  OBVIOUS
<1>4. Linked(n0, p, right, m1)
  BY <1>1, <1>2, <1>3, LinkFields
<1>5. Nodes(m1) /\ DOMAIN m1 = DOMAIN n0
  BY <1>4 DEF Linked
<1>6. PICK m2 : m2 = Link(m1, left, p)
  OBVIOUS
<1>7. Linked(m1, left, p, m2)
  BY <1>2, <1>5, <1>6, LinkFields
<1>8. m2[p].fwd = right /\ m2[p].bwd = left /\ m2[p].newer = Null /\ m2[p].older = Null
      /\ m2[p].st = "writing" /\ m2[p].size = size
  BY <1>1, <1>2, <1>4, <1>5, <1>7 DEF Linked
<1>9. ASSUME NEW c \in K
      PROVE  /\ m2[c].fwd = IF c = left THEN p ELSE nd[c].fwd
             /\ m2[c].bwd = IF c = right THEN p ELSE nd[c].bwd
             /\ m2[c].newer = nd[c].newer /\ m2[c].older = nd[c].older
             /\ m2[c].st = nd[c].st /\ m2[c].size = nd[c].size
  <2>1. c \in DOMAIN n0 /\ c # p /\ n0[c] = nd[c]
    BY <1>1
  <2>2. /\ m1[c].fwd = nd[c].fwd /\ m1[c].bwd = IF c = right THEN p ELSE nd[c].bwd
        /\ m1[c].newer = nd[c].newer /\ m1[c].older = nd[c].older
        /\ m1[c].st = nd[c].st /\ m1[c].size = nd[c].size
    BY <1>4, <2>1 DEF Linked
  <2>3. /\ m2[c].fwd = IF c = left THEN p ELSE m1[c].fwd
        /\ m2[c].bwd = m1[c].bwd
        /\ m2[c].newer = m1[c].newer /\ m2[c].older = m1[c].older
        /\ m2[c].st = m1[c].st /\ m2[c].size = m1[c].size
    BY <1>5, <1>7, <2>1 DEF Linked
  <2> QED BY <2>2, <2>3
<1>10. Nodes(m2) /\ DOMAIN m2 = K \cup {p}
  BY <1>1, <1>5, <1>7 DEF Linked
<1> QED BY <1>3, <1>6, <1>8, <1>9, <1>10 DEF Woven

\* What _ring_buffer_insert_new_node and _ring_buffer_update_time_for_new_node do.
LEMMA AppendFields ==
    ASSUME NEW nd, Nodes(nd), NEW left \in DOMAIN nd, NEW right \in DOMAIN nd,
           NEW p \in Nat, p \notin DOMAIN nd, NEW size \in Size
    PROVE  Inserted(nd, DOMAIN nd, left, right, p, size, Null, p, left,
                    Follow(Link(Link(With(nd, p, size), p, right), left, p), left, p))
<1>1. PICK n0 : n0 = With(nd, p, size)
  OBVIOUS
<1>2. Beside(nd, DOMAIN nd, p, size, n0)
  <2>1. p \in Int
    OBVIOUS
  <2>2. Joined(nd, p, size, n0)
    BY <1>1, <2>1, WithFields
  <2> QED BY <2>2 DEF Joined, Beside
<1>3. PICK m2 : m2 = Link(Link(n0, p, right), left, p)
  OBVIOUS
<1>4. Woven(nd, DOMAIN nd, left, right, p, size, m2)
  BY <1>2, <1>3, WeaveFields
<1>5. PICK md : md = Follow(m2, left, p)
  OBVIOUS
<1>6. DOMAIN nd \subseteq Int
  BY DEF Nodes
<1>7. Followed(m2, left, p, md)
  <2>1. left \in Int \cup {Null} /\ p \in Int \cup {Null}
    BY <1>6
  <2>2. Nodes(m2)
    BY <1>4 DEF Woven
  <2> QED BY <1>5, <2>1, <2>2, FollowFields
<1>8. Inserted(nd, DOMAIN nd, left, right, p, size, Null, p, left, md)
  <2>1. Nodes(md) /\ DOMAIN md = DOMAIN nd \cup {p}
    BY <1>4, <1>7 DEF Woven, Followed
  <2>2. /\ md[p].fwd = right /\ md[p].bwd = left /\ md[p].newer = Null /\ md[p].older = left
        /\ md[p].st = "writing" /\ md[p].size = size
    <3>1. p \in DOMAIN m2 /\ p # left
      BY <1>4 DEF Woven
    <3>2. m2[p].fwd = right /\ m2[p].bwd = left /\ m2[p].newer = Null
          /\ m2[p].st = "writing" /\ m2[p].size = size
      BY <1>4 DEF Woven
    <3> QED BY <1>7, <3>1, <3>2 DEF Followed
  <2>3. ASSUME NEW c \in DOMAIN nd
        PROVE  /\ md[c].fwd = IF c = left THEN p ELSE nd[c].fwd
               /\ md[c].bwd = IF c = right THEN p ELSE nd[c].bwd
               /\ md[c].newer = IF c = left THEN p ELSE IF c = Null THEN p ELSE nd[c].newer
               /\ md[c].older = IF c = p THEN Null ELSE nd[c].older
               /\ md[c].st = nd[c].st /\ md[c].size = nd[c].size
    <3>1. c \in DOMAIN m2 /\ c # p /\ c # Null
      BY <1>4, <1>6, NullAssumption DEF Woven
    <3>2. /\ m2[c].fwd = IF c = left THEN p ELSE nd[c].fwd
          /\ m2[c].bwd = IF c = right THEN p ELSE nd[c].bwd
          /\ m2[c].newer = nd[c].newer /\ m2[c].older = nd[c].older
          /\ m2[c].st = nd[c].st /\ m2[c].size = nd[c].size
      BY <1>4 DEF Woven
    <3> QED BY <1>7, <3>1, <3>2 DEF Followed
  <2> QED BY <2>1, <2>2, <2>3, Zenon DEF Inserted
<1> QED BY <1>1, <1>3, <1>5, <1>8

\* What _ring_buffer_perform_overwrite does, with the nodes K that are kept.
LEMMA ReplaceFields ==
    ASSUME NEW nd, Nodes(nd), NEW K \in SUBSET DOMAIN nd, NEW left \in K, NEW right \in K,
           NEW p \in Nat, p \notin K, NEW size \in Size, NEW o \in K \cup {Null},
           NEW w \in K, NEW h \in K
    PROVE  Inserted(nd, K, left, right, p, size, o, w, h,
                    Follow(Follow(Link(Link(Restrict(With(nd, p, size), {p} \cup K),
                                            p, right), left, p), o, w), h, p))
<1>1. PICK n1, n0 : n1 = With(nd, p, size) /\ n0 = Restrict(n1, {p} \cup K)
  OBVIOUS
<1>2. Beside(nd, K, p, size, n0)
  <2>1. p \in Int
    OBVIOUS
  <2>2. Joined(nd, p, size, n1)
    BY <1>1, <2>1, WithFields
  <2>3. PICK S : S = {p} \cup K
    OBVIOUS
  <2>4. Nodes(n1) /\ S \in SUBSET DOMAIN n1
    BY <2>2, <2>3 DEF Joined
  <2>5. Kept(n1, S, n0)
    BY <1>1, <2>3, <2>4, RestrictFields
  <2> QED BY <2>2, <2>3, <2>5 DEF Joined, Kept, Beside
<1>3. PICK m2 : m2 = Link(Link(n0, p, right), left, p)
  OBVIOUS
<1>4. Woven(nd, K, left, right, p, size, m2)
  BY <1>2, <1>3, WeaveFields
<1>5. PICK m3, md : m3 = Follow(m2, o, w) /\ md = Follow(m3, h, p)
  OBVIOUS
<1>6. K \subseteq Int
  BY DEF Nodes
<1>7. Followed(m2, o, w, m3)
  <2>1. o \in Int \cup {Null} /\ w \in Int \cup {Null}
    BY <1>6
  <2>2. Nodes(m2)
    BY <1>4 DEF Woven
  <2> QED BY <1>5, <2>1, <2>2, FollowFields
<1>8. Followed(m3, h, p, md)
  <2>1. h \in Int \cup {Null} /\ p \in Int \cup {Null}
    BY <1>6
  <2>2. Nodes(m3)
    BY <1>7 DEF Followed
  <2> QED BY <1>5, <2>1, <2>2, FollowFields
<1>9. Inserted(nd, K, left, right, p, size, o, w, h, md)
  <2>0. DOMAIN m2 = K \cup {p} /\ DOMAIN m3 = K \cup {p}
    BY <1>4, <1>7 DEF Woven, Followed
  <2>1. Nodes(md) /\ DOMAIN md = K \cup {p}
    BY <1>8, <2>0 DEF Followed
  <2>2. /\ md[p].fwd = right /\ md[p].bwd = left /\ md[p].newer = Null /\ md[p].older = h
        /\ md[p].st = "writing" /\ md[p].size = size
    <3>1. p \in DOMAIN m2 /\ p \in DOMAIN m3 /\ p # h /\ p # o /\ p # w
      BY <2>0, NullAssumption
    <3>2. m2[p].fwd = right /\ m2[p].bwd = left /\ m2[p].newer = Null
          /\ m2[p].st = "writing" /\ m2[p].size = size
      BY <1>4 DEF Woven
    <3>3. m3[p].fwd = right /\ m3[p].bwd = left /\ m3[p].newer = Null
          /\ m3[p].st = "writing" /\ m3[p].size = size
      BY <1>7, <3>1, <3>2 DEF Followed
    <3> QED BY <1>8, <3>1, <3>3 DEF Followed
  <2>3. ASSUME NEW c \in K
        PROVE  /\ md[c].fwd = IF c = left THEN p ELSE nd[c].fwd
               /\ md[c].bwd = IF c = right THEN p ELSE nd[c].bwd
               /\ md[c].newer = IF c = h THEN p ELSE IF c = o THEN w ELSE nd[c].newer
               /\ md[c].older = IF c = w THEN o ELSE nd[c].older
               /\ md[c].st = nd[c].st /\ md[c].size = nd[c].size
    <3>1. c \in DOMAIN m2 /\ c \in DOMAIN m3 /\ c # p
      BY <2>0
    <3>2. /\ m2[c].fwd = IF c = left THEN p ELSE nd[c].fwd
          /\ m2[c].bwd = IF c = right THEN p ELSE nd[c].bwd
          /\ m2[c].newer = nd[c].newer /\ m2[c].older = nd[c].older
          /\ m2[c].st = nd[c].st /\ m2[c].size = nd[c].size
      BY <1>4 DEF Woven
    <3>3. /\ m3[c].newer = IF c = o THEN w ELSE m2[c].newer
          /\ m3[c].older = IF c = w THEN o ELSE m2[c].older
          /\ m3[c].fwd = m2[c].fwd /\ m3[c].bwd = m2[c].bwd
          /\ m3[c].st = m2[c].st /\ m3[c].size = m2[c].size
      BY <1>7, <3>1 DEF Followed
    <3>4. /\ md[c].newer = IF c = h THEN p ELSE m3[c].newer
          /\ md[c].older = m3[c].older
          /\ md[c].fwd = m3[c].fwd /\ md[c].bwd = m3[c].bwd
          /\ md[c].st = m3[c].st /\ md[c].size = m3[c].size
      BY <1>8, <3>1 DEF Followed
    <3> QED BY <3>2, <3>3, <3>4
  <2> QED BY <2>1, <2>2, <2>3, Zenon DEF Inserted
<1> QED BY <1>1, <1>3, <1>5, <1>9

\* The gap between left and right, where only nodes that are not kept were.
Gap(nd, K, left, right) ==
    \A c \in K : /\ c # left => nd[c].fwd \in K /\ nd[c].fwd # right
                 /\ c # right => nd[c].bwd \in K /\ nd[c].bwd # left
Sizes(nd) == [c \in DOMAIN nd |-> nd[c].size]

\* The ring with a new node.
LEMMA InsertRing ==
    ASSUME NEW nd, Ring(nd), NEW K \in SUBSET DOMAIN nd, NEW left \in K, NEW right \in K,
           NEW p, NEW size \in Size, Placed(K, Sizes(nd), size, left, right, p),
           Gap(nd, K, left, right), NEW o, NEW w, NEW h, NEW md,
           Inserted(nd, K, left, right, p, size, o, w, h, md)
    PROVE  Ring(md)
<1>1. /\ p \in Nat /\ p \notin K /\ p + size <= Capacity /\ IsRight(K, left, right)
      /\ IF left < right THEN left < p /\ p < right ELSE left < p \/ p < right
  BY DEF Placed
<1>2. /\ Nodes(md) /\ DOMAIN md = K \cup {p} /\ md[p].fwd = right /\ md[p].bwd = left
      /\ md[p].size = size
  BY DEF Inserted
<1>3. \A c \in K : /\ md[c].fwd = IF c = left THEN p ELSE nd[c].fwd
                   /\ md[c].bwd = IF c = right THEN p ELSE nd[c].bwd
                   /\ md[c].size = nd[c].size
  BY DEF Inserted
<1>4. \A c \in K : /\ c # left => nd[c].fwd \in K /\ nd[c].fwd # right
                   /\ c # right => nd[c].bwd \in K /\ nd[c].bwd # left
  BY DEF Gap
<1>5. \A c \in K : /\ c < p => c + nd[c].size <= p
                   /\ p < c => p + md[p].size <= c
  <2>1. \A c \in K : Sizes(nd)[c] = nd[c].size
    BY DEF Sizes
  <2>2. \A c \in K : /\ c < p => c + Sizes(nd)[c] <= p
                     /\ p < c => p + size <= c
    BY DEF Placed
  <2> QED BY <1>2, <2>1, <2>2
<1>6. p + md[p].size <= Capacity
  BY <1>1, <1>2
<1>7. Grows(nd, K, left, right, p, md)
  BY <1>1, <1>2, <1>3, <1>4, <1>5, <1>6 DEF Grows
<1> QED BY <1>7, RingGrows

\* The nodes of a ring fit next to each other.
LEMMA RingFits ==
    ASSUME NEW nd, Ring(nd), NEW size \in Size
    PROVE  /\ DOMAIN nd \in SUBSET Nat /\ Fitting(DOMAIN nd, Sizes(nd), size)
           /\ Capacity \in Nat
<1>1. DOMAIN nd \in SUBSET Nat
  BY DEF Ring, Address
<1>2. \A c \in DOMAIN nd : Sizes(nd)[c] = nd[c].size /\ nd[c].size \in Size
  BY DEF Sizes, Ring, Nodes, Node
<1>3. size \in Nat /\ size > 0 /\ Capacity \in Nat
  BY SizeAssumption, CapacityAssumption
<1>4. \A c \in DOMAIN nd : c + nd[c].size <= Capacity
  BY DEF Ring, Apart
<1>5. \A c, d \in DOMAIN nd : c < d => c + nd[c].size <= d
  BY DEF Ring, Apart
<1>6. \A c \in DOMAIN nd : nd[c].size \in Nat /\ nd[c].size > 0
  BY <1>2, SizeAssumption
<1>7. PICK z : z = Sizes(nd)
  OBVIOUS
<1>8. \A c \in DOMAIN nd : z[c] \in Nat /\ z[c] > 0 /\ c + z[c] <= Capacity
  BY <1>2, <1>4, <1>6, <1>7
<1>9. \A c, d \in DOMAIN nd : c < d => c + z[c] <= d
  BY <1>2, <1>5, <1>7
<1> QED BY <1>1, <1>3, <1>7, <1>8, <1>9, Zenon DEF Fitting

\* The nodes of s that stay when s[k + 1] .. s[k + x] are lost.
Rest(s, len, k, x, K) ==
    \A a : a \in K <=> \E i \in 1 .. len : (i <= k \/ i > k + x) /\ a = s[i]

\* The order with a new node: appended, when nothing is lost.
LEMMA AppendGrown ==
    ASSUME NEW nd, NEW h, NEW t, NEW o, NEW s, NEW len, NEW k, Order(nd, h, t, o, s, len, k),
           Null \notin DOMAIN nd, len > 0, NEW left, NEW right, NEW p, p # Null,
           p \notin DOMAIN nd, NEW size, NEW md,
           Inserted(nd, DOMAIN nd, left, right, p, size, Null, p, s[len], md)
    PROVE  Grown(nd, s, len, k, 0, p, md)
<1>1. /\ len \in Nat /\ k \in 0 .. len /\ len \in 1 .. len
      /\ \A i \in 1 .. len : s[i] \in DOMAIN nd /\ s[i] # Null /\ s[i] # p
      /\ \A a \in DOMAIN nd : \E i \in 1 .. len : s[i] = a
      /\ \A i, j \in 1 .. len : s[i] = s[j] => i = j
  BY DEF Order
<1>2. \A i \in 1 .. len : /\ nd[s[i]].newer = IF i < len THEN s[i + 1] ELSE Null
                          /\ nd[s[i]].older = IF i > 1 THEN s[i - 1] ELSE Null
  BY DEF Order
<1>3. /\ DOMAIN md = DOMAIN nd \cup {p}
      /\ md[p].newer = Null /\ md[p].older = s[len] /\ md[p].st = "writing"
      /\ \A c \in DOMAIN nd :
            /\ md[c].newer = IF c = s[len] THEN p ELSE IF c = Null THEN p ELSE nd[c].newer
            /\ md[c].older = IF c = p THEN Null ELSE nd[c].older
            /\ md[c].st = nd[c].st
  BY DEF Inserted
<1>4. \A a : a \in DOMAIN md <=> a = p \/ \E i \in 1 .. len : (i <= k \/ i > k + 0) /\ a = s[i]
  BY <1>1, <1>3
<1>5. ASSUME NEW i \in 1 .. len
      PROVE  /\ md[s[i]].newer = IF i = len THEN p ELSE s[i + 1]
             /\ md[s[i]].older = IF i > 1 THEN s[i - 1] ELSE Null
             /\ md[s[i]].st = nd[s[i]].st
  <2>1. /\ s[i] \in DOMAIN nd /\ s[i] # Null /\ s[i] # p /\ (s[i] = s[len] <=> i = len)
        /\ (i < len <=> i # len)
    BY <1>1
  <2> QED BY <1>2, <1>3, <2>1
<1>6. ASSUME NEW i \in 1 .. len
      PROVE  /\ md[s[i]].newer = IF i = len THEN p ELSE IF i = k THEN s[k + 0 + 1] ELSE s[i + 1]
             /\ i = k + 0 + 1 => md[s[i]].older = IF k > 0 THEN s[k] ELSE Null
             /\ i # k + 0 + 1 => md[s[i]].older = IF i > 1 THEN s[i - 1] ELSE Null
             /\ md[s[i]].st = nd[s[i]].st
  <2>1. k + 0 + 1 = k + 1 /\ (i = k + 1 => i - 1 = k /\ (i > 1 <=> k > 0))
    BY <1>1
  <2> QED BY <1>5, <2>1
<1> QED BY <1>1, <1>3, <1>4, <1>6 DEF Grown

\* ... and in the place of the nodes that are lost.
LEMMA ReplaceGrown ==
    ASSUME NEW nd, NEW h, NEW t, NEW o, NEW s, NEW len, NEW k, Order(nd, h, t, o, s, len, k),
           Null \notin DOMAIN nd, NEW x \in Nat, x > 0, k + x < len, NEW K,
           Rest(s, len, k, x, K), NEW left, NEW right, NEW p, p # Null, p \notin K, NEW size,
           NEW md, Inserted(nd, K, left, right, p, size, nd[s[k + 1]].older, s[k + x + 1],
                            s[len], md)
    PROVE  Grown(nd, s, len, k, x, p, md)
<1>0. len \in Nat /\ k \in 0 .. len /\ s \in [1 .. len -> DOMAIN nd]
  BY DEF Order
<1>1. /\ len \in Nat /\ k \in 0 .. len /\ len \in 1 .. len
      /\ k + 1 \in 1 .. len /\ k + x + 1 \in 1 .. len
      /\ \A i \in 1 .. len : s[i] \in DOMAIN nd /\ s[i] # Null
      /\ \A i, j \in 1 .. len : s[i] = s[j] => i = j
  <2>1. len \in 1 .. len /\ k + 1 \in 1 .. len /\ k + x + 1 \in 1 .. len
    BY <1>0
  <2>2. \A i \in 1 .. len : s[i] \in DOMAIN nd /\ s[i] # Null
    BY <1>0
  <2>3. \A i, j \in 1 .. len : s[i] = s[j] => i = j
    BY DEF Order
  <2> QED BY <1>0, <2>1, <2>2, <2>3
<1>2. \A i \in 1 .. len : /\ nd[s[i]].newer = IF i < len THEN s[i + 1] ELSE Null
                          /\ nd[s[i]].older = IF i > 1 THEN s[i - 1] ELSE Null
  BY DEF Order
<1>3. PICK v : v = (IF k > 0 THEN s[k] ELSE Null) /\ nd[s[k + 1]].older = v
  <2>1. (k + 1 > 1 <=> k > 0) /\ (k + 1) - 1 = k
    BY <1>1
  <2> QED BY <1>1, <1>2, <2>1
<1>4. /\ DOMAIN md = K \cup {p}
      /\ md[p].newer = Null /\ md[p].older = s[len] /\ md[p].st = "writing"
      /\ \A c \in K :
            /\ md[c].newer = IF c = s[len] THEN p ELSE IF c = v THEN s[k + x + 1] ELSE nd[c].newer
            /\ md[c].older = IF c = s[k + x + 1] THEN v ELSE nd[c].older
            /\ md[c].st = nd[c].st
  BY <1>3 DEF Inserted
<1>5. ASSUME NEW i \in 1 .. len, i <= k \/ i > k + x PROVE s[i] \in K /\ s[i] # p
  BY <1>5 DEF Rest
<1>6. \A a : a \in DOMAIN md <=> a = p \/ \E i \in 1 .. len : (i <= k \/ i > k + x) /\ a = s[i]
  BY <1>4 DEF Rest
<1>7. ASSUME NEW i \in 1 .. len, i <= k \/ i > k + x
      PROVE  /\ md[s[i]].newer = IF i = len THEN p ELSE IF i = k THEN s[k + x + 1] ELSE s[i + 1]
             /\ i = k + x + 1 => md[s[i]].older = IF k > 0 THEN s[k] ELSE Null
             /\ i # k + x + 1 => md[s[i]].older = IF i > 1 THEN s[i - 1] ELSE Null
             /\ md[s[i]].st = nd[s[i]].st
  <2>1. /\ s[i] \in K /\ (s[i] = s[len] <=> i = len) /\ (s[i] = s[k + x + 1] <=> i = k + x + 1)
        /\ (i < len <=> i # len)
    BY <1>1, <1>5, <1>7
  <2>2. s[i] = v <=> i = k
    <3>1. k > 0 => k \in 1 .. len
      BY <1>1
    <3>2. ~(k > 0) => i # k
      BY <1>1
    <3> QED BY <1>1, <1>3, <3>1, <3>2
  <2> QED BY <1>2, <1>3, <1>4, <2>1, <2>2
<1> QED BY <1>1, <1>4, <1>5, <1>6, <1>7 DEF Grown

\* The step appends a node at p to the nodes of s, of which s[k + 1] .. s[k + x],
\* all of them committed, are lost.
Reserved(s, len, k, x, p, size) ==
    /\ Shaped(Appended(s, len, k, x, p), len - x + 1, k)'
    /\ x \in Nat /\ k + x <= len /\ p \in Address
    /\ \A i \in k + 1 .. k + x : node[s[i]].st = "committed"
    /\ node'[p].st = "writing" /\ node'[p].size = size
    /\ \A i \in 1 .. len : i <= k \/ i > k + x =>
          /\ node'[s[i]].st = node[s[i]].st /\ node'[s[i]].size = node[s[i]].size
          /\ s[i] + node[s[i]].size <= p \/ p + size <= s[i]

\* The first node of a buffer.
LEMMA ReserveEmptyShape ==
    ASSUME NEW s, NEW len, NEW k, Shaped(s, len, k), Null \notin Live,
           NEW size \in Size, ReserveEmpty(size)
    PROVE  Reserved(s, len, k, 0, 0, size)
<1>1. Order(node, HEAD, TAIL, oldest_reserve, s, len, k) /\ Counted(node, counter)
  BY DEF Shaped, Shape
<1>2. len = 0 /\ k = 0
  <2>1. /\ len \in Nat /\ k \in 0 .. len
        /\ len # 0 => TAIL = s[1] /\ 1 \in 1 .. len /\ s \in [1 .. len -> Live]
    BY <1>1 DEF Order, Live
  <2>2. TAIL = Null
    BY DEF ReserveEmpty
  <2> QED BY <2>1, <2>2
<1>3. Live = {}
  BY <1>1, <1>2 DEF Order, Live
<1>4. counter \in [State -> Int] /\ \A st \in State : counter[st] = 0
  <2>1. \A st \in State : In(node, st) = {}
    BY <1>3 DEF In, Live
  <2>2. Cardinality({}) = 0
    BY FS_EmptySet
  <2> QED BY <1>1, <2>1, <2>2, CountedIn
<1>5. /\ Shaped([i \in 1 .. 1 |-> 0], 1, 0)' /\ 0 \in Address
      /\ node'[0].st = "writing" /\ node'[0].size = size
  BY <1>4, OnlyShape DEF ReserveEmpty
<1>6. Appended(s, len, k, 0, 0) = [i \in 1 .. 1 |-> 0] /\ len - 0 + 1 = 1
  BY <1>2 DEF Appended
<1>7. Shaped(Appended(s, len, k, 0, 0), len - 0 + 1, k)'
  BY <1>2, <1>5, <1>6
<1> QED BY <1>2, <1>5, <1>7 DEF Reserved

\* An overwrite of the only node.
LEMMA OverwriteOnlyShape ==
    ASSUME NEW s, NEW len, NEW k, Shaped(s, len, k), Null \notin Live,
           NEW size \in Size, OverwriteOnly(size)
    PROVE  Reserved(s, len, k, 1, 0, size)
<1>1. Order(node, HEAD, TAIL, oldest_reserve, s, len, k) /\ Ring(node)
  BY DEF Shaped, Shape
<1>2. /\ oldest_reserve # Null /\ node[oldest_reserve].st = "committed"
      /\ node[oldest_reserve].fwd = oldest_reserve
      /\ OnlyNode(size, NoCount)
  BY DEF OverwriteOnly, OverwriteNeeded
<1>3. /\ len \in Nat /\ k \in 0 .. len /\ k < len /\ k + 1 \in 1 .. len
      /\ oldest_reserve = s[k + 1] /\ s \in [1 .. len -> Live]
      /\ \A i, j \in 1 .. len : s[i] = s[j] => i = j
  BY <1>1, <1>2 DEF Order, Live
<1>4. \A c \in Live : c = s[k + 1]
  <2>1. s[k + 1] \in Live /\ node[s[k + 1]].fwd = s[k + 1]
    BY <1>2, <1>3
  <2>2. PICK a \in Live : a = s[k + 1] /\ node[a].fwd = a
    BY <2>1
  <2>3. IsRight(Live, a, a) /\ Live \subseteq Int
    BY <1>1, <2>2 DEF Ring, Circle, Fwd, Live, Nodes
  <2>4. \A c \in Live : c = a
    BY <2>3 DEF IsRight
  <2> QED BY <2>2, <2>4
<1>5. len = 1 /\ k = 0
  <2>1. \A i \in 1 .. len : i = k + 1
    BY <1>3, <1>4
  <2>2. 1 \in 1 .. len /\ len \in 1 .. len
    BY <1>3
  <2> QED BY <1>3, <2>1, <2>2
<1>6. /\ Shaped([i \in 1 .. 1 |-> 0], 1, 0)' /\ 0 \in Address
      /\ node'[0].st = "writing" /\ node'[0].size = size
  <2>1. NoCount \in [State -> Int] /\ \A st \in State : NoCount[st] = 0
    BY DEF NoCount
  <2> QED BY <1>2, <2>1, OnlyShape
<1>7. Appended(s, len, k, 1, 0) = [i \in 1 .. 1 |-> 0] /\ len - 1 + 1 = 1
  BY <1>5 DEF Appended
<1>8. Shaped(Appended(s, len, k, 1, 0), len - 1 + 1, k)'
  BY <1>5, <1>6, <1>7
<1>9. \A i \in k + 1 .. k + 1 : node[s[i]].st = "committed"
  BY <1>2, <1>3
<1> QED BY <1>5, <1>6, <1>8, <1>9 DEF Reserved

\* What the new order begins with, and where it goes on after the nodes being read.
LEMMA AppendedEnds ==
    ASSUME NEW s, NEW len \in Nat, len > 0, NEW k \in 0 .. len, NEW x \in Nat,
           x = 0 \/ k + x < len, NEW p
    PROVE  /\ Appended(s, len, k, x, p)[1] = IF k = 0 THEN s[x + 1] ELSE s[1]
           /\ Appended(s, len, k, x, p)[k + 1] = IF k < len THEN s[k + x + 1] ELSE p
<1>1. 1 \in 1 .. len - x + 1 /\ k + 1 \in 1 .. len - x + 1
  OBVIOUS
<1>2. \A i \in 1 .. len - x + 1 : Appended(s, len, k, x, p)[i] =
         IF i <= k THEN s[i] ELSE IF i <= len - x THEN s[i + x] ELSE p
  BY DEF Appended
<1>3. Appended(s, len, k, x, p)[1] = IF k = 0 THEN s[x + 1] ELSE s[1]
  <2>1. k = 0 => ~(1 <= k) /\ 1 <= len - x /\ 1 + x = x + 1
    OBVIOUS
  <2>2. k # 0 => 1 <= k
    OBVIOUS
  <2> QED BY <1>1, <1>2, <2>1, <2>2
<1>4. Appended(s, len, k, x, p)[k + 1] = IF k < len THEN s[k + x + 1] ELSE p
  <2>1. ~(k + 1 <= k) /\ (k < len <=> k + 1 <= len - x) /\ (k + 1) + x = k + x + 1
    OBVIOUS
  <2> QED BY <1>1, <1>2, <2>1
<1> QED BY <1>3, <1>4

\* A node right of HEAD, or at the start of the array.
LEMMA ReserveFreeShape ==
    ASSUME NEW s, NEW len, NEW k, Shaped(s, len, k), Null \notin Live,
           NEW size \in Size, ReserveFree(size)
    PROVE  \E p \in Nat : Reserved(s, len, k, 0, p, size)
<1>1. /\ Order(node, HEAD, TAIL, oldest_reserve, s, len, k)
      /\ Ring(node) /\ Counted(node, counter)
  BY DEF Shaped, Shape
<1>2. /\ len \in Nat /\ len > 0 /\ k \in 0 .. len /\ len \in 1 .. len /\ 1 \in 1 .. len
      /\ s \in [1 .. len -> Live] /\ HEAD = s[len] /\ TAIL = s[1]
      /\ oldest_reserve = IF k < len THEN s[k + 1] ELSE Null
  <2>1. TAIL # Null
    BY DEF ReserveFree
  <2> QED BY <1>1, <2>1 DEF Order, Live
<1>3. PICK left, right : left = HEAD /\ right = node[HEAD].fwd
  OBVIOUS
<1>4. PICK p : /\ p \in Place(size)
               /\ node' = Follow(Link(Link(With(node, p, size), p, right), left, p), left, p)
               /\ HEAD' = p
               /\ oldest_reserve' = IF oldest_reserve = Null THEN p ELSE oldest_reserve
  BY <1>3 DEF ReserveFree
<1>5. counter' = [counter EXCEPT !["writing"] = @ + 1] /\ TAIL' = TAIL
  BY DEF ReserveFree
<1>6. left \in Live /\ right \in Live /\ IsRight(Live, left, right) /\ node[right].bwd = left
  <2>1. left \in Live
    BY <1>2, <1>3
  <2> QED BY <1>1, <1>3, <2>1 DEF Ring, Circle, Fwd, Bwd, Live
<1>7. PICK z : z = Sizes(node)
  OBVIOUS
<1>8. \A c \in Live : z[c] = node[c].size
  BY <1>7 DEF Sizes, Live
<1>9. Live \in SUBSET Nat /\ Fitting(Live, z, size) /\ Capacity \in Nat
  BY <1>1, <1>7, RingFits DEF Live
<1>10. IF right > left THEN p = left + z[left] /\ size <= right - p
       ELSE \/ p = left + z[left] /\ size <= Capacity - p
            \/ p = 0 /\ size <= right
  <2>1. left + z[left] = End(HEAD)
    BY <1>3, <1>6, <1>8 DEF End
  <2> QED BY <1>3, <1>4, <2>1 DEF Place
<1>11. Placed(Live, z, size, left, right, p)
  BY <1>6, <1>9, <1>10, TightPlace
<1>12. p \in Nat /\ p \notin Live /\ p # Null
  BY <1>11, NullAssumption DEF Placed
<1>13. PICK md : md = node'
  OBVIOUS
<1>14. Inserted(node, Live, left, right, p, size, Null, p, left, md)
  <2>1. Nodes(node) /\ left \in DOMAIN node /\ right \in DOMAIN node /\ p \notin DOMAIN node
    BY <1>1, <1>6, <1>12 DEF Ring, Live
  <2> QED BY <1>4, <1>12, <1>13, <2>1, AppendFields DEF Live
<1>15. Ring(md)
  <2>1. Gap(node, Live, left, right)
    <3>1. \A c \in Live : /\ node[c].fwd \in Live /\ node[node[c].fwd].bwd = c
                          /\ node[c].bwd \in Live /\ node[node[c].bwd].fwd = c
      BY <1>1 DEF Ring, Circle, Fwd, Bwd, Live
    <3> QED BY <1>3, <1>6, <3>1 DEF Gap
  <2>2. Live \in SUBSET DOMAIN node
    BY DEF Live
  <2> QED BY <1>1, <1>6, <1>7, <1>11, <1>14, <2>1, <2>2, InsertRing
<1>16. Counted(md, counter')
  <2>1. /\ DOMAIN md = DOMAIN node \cup {p} /\ p \notin DOMAIN node /\ md[p].st = "writing"
        /\ \A a \in DOMAIN node : md[a].st = node[a].st
    BY <1>12, <1>14 DEF Inserted, Live
  <2> QED BY <1>1, <1>5, <2>1, CountNew
<1>17. PICK r : r = Appended(s, len, k, 0, p)
  OBVIOUS
<1>18. Order(md, p, r[1], r[k + 1], r, len - 0 + 1, k)
  <2>1. Null \notin DOMAIN node /\ p \notin DOMAIN node
    BY <1>12 DEF Live
  <2>2. Inserted(node, DOMAIN node, left, right, p, size, Null, p, s[len], md)
    BY <1>2, <1>3, <1>14 DEF Live
  <2>3. Grown(node, s, len, k, 0, p, md)
    BY <1>1, <1>2, <1>12, <2>1, <2>2, AppendGrown
  <2> QED BY <1>1, <1>2, <1>17, <2>1, <2>3, OrderGrows
<1>19. r[1] = TAIL' /\ r[k + 1] = oldest_reserve'
  <2>1. /\ r[1] = IF k = 0 THEN s[0 + 1] ELSE s[1]
        /\ r[k + 1] = IF k < len THEN s[k + 0 + 1] ELSE p
    BY <1>2, <1>17, AppendedEnds
  <2>2. k < len => s[k + 1] # Null
    BY <1>2
  <2>3. s[0 + 1] = s[1] /\ s[k + 0 + 1] = s[k + 1]
    BY <1>2
  <2> QED BY <1>2, <1>4, <1>5, <2>1, <2>2, <2>3
<1>20. Shaped(Appended(s, len, k, 0, p), len - 0 + 1, k)'
  BY <1>4, <1>13, <1>15, <1>16, <1>17, <1>18, <1>19 DEF Shaped, Shape
<1>21. p \in Address /\ node'[p].st = "writing" /\ node'[p].size = size
  BY <1>13, <1>14, <1>15 DEF Inserted, Ring
<1>22. ASSUME NEW i \in 1 .. len
       PROVE  /\ node'[s[i]].st = node[s[i]].st /\ node'[s[i]].size = node[s[i]].size
              /\ s[i] + node[s[i]].size <= p \/ p + size <= s[i]
  <2>1. s[i] \in Live /\ s[i] \in Nat
    BY <1>2, <1>9
  <2>2. s[i] # p
    BY <1>12, <2>1
  <2>3. /\ s[i] < p => s[i] + z[s[i]] <= p
        /\ p < s[i] => p + size <= s[i]
    BY <1>11, <2>1 DEF Placed
  <2>4. s[i] + node[s[i]].size <= p \/ p + size <= s[i]
    BY <1>8, <1>12, <2>1, <2>2, <2>3
  <2> QED BY <1>13, <1>14, <2>1, <2>4 DEF Inserted
<1>23. 0 \in Nat /\ k + 0 <= len /\ \A i \in k + 1 .. k + 0 : FALSE
  BY <1>2
<1> QED BY <1>12, <1>20, <1>21, <1>22, <1>23 DEF Reserved

\* The run that an overwrite takes, as numbers of nodes.
LEMMA RunShape ==
    ASSUME NEW s, NEW len, NEW k, Shaped(s, len, k), Null \notin Live, k < len,
           node[oldest_reserve].st = "committed", NEW last \in Live, Run(last)
    PROVE  \E m \in 1 .. len :
              /\ s[m] = last
              /\ Taken(s, Fwd(node), In(node, "committed"), len, k, m)
<1>1. Order(node, HEAD, TAIL, oldest_reserve, s, len, k) /\ Ring(node)
  BY DEF Shaped, Shape
<1>2. /\ len \in Nat /\ k \in 0 .. len - 1 /\ k + 1 \in 1 .. len
      /\ s \in [1 .. len -> Live] /\ oldest_reserve = s[k + 1]
      /\ \A i, j \in 1 .. len : s[i] = s[j] => i = j
  BY <1>1 DEF Order, Live
<1>3. PICK F, C : F = Fwd(node) /\ C = In(node, "committed")
  OBVIOUS
<1>4. \A c \in Live : F[c] = node[c].fwd /\ F[c] \in Live /\ IsRight(Live, c, F[c])
  BY <1>1, <1>3 DEF Ring, Circle, Fwd, Live
<1>5. Live \in SUBSET Int
  BY <1>1 DEF Ring, Nodes, Live
<1>6. s[k + 1] <= last /\ s[k + 1] \in C
  <2>1. s[k + 1] \in Live /\ node[s[k + 1]].st = "committed" /\ last >= s[k + 1]
    BY <1>2 DEF Run
  <2>2. s[k + 1] \in Int /\ last \in Int
    BY <1>5, <2>1
  <2> QED BY <1>3, <2>1, <2>2 DEF In, Live
<1>7. ASSUME NEW i \in 1 .. len, s[k + 1] <= s[i], s[i] < last
      PROVE  i < len /\ F[s[i]] = s[i + 1] /\ F[s[i]] > s[i] /\ s[i + 1] \in C
  <2>1. PICK a \in Live : a = s[i]
    BY <1>2
  <2>2. a \in oldest_reserve .. last - 1
    <3>1. a \in Int /\ last \in Int /\ s[k + 1] \in Int
      BY <1>2, <1>5, <2>1
    <3> QED BY <1>2, <1>7, <2>1, <3>1
  <2>3. node[a].fwd > a /\ node[a].fwd = node[a].newer /\ node[node[a].fwd].st = "committed"
    BY <2>2 DEF Run
  <2>4. node[a].newer = IF i < len THEN s[i + 1] ELSE Null
    BY <1>1, <2>1 DEF Order
  <2>5. node[a].fwd \in Live /\ node[a].fwd # Null
    BY <1>4, <2>1
  <2>6. i < len /\ node[a].fwd = s[i + 1]
    BY <2>3, <2>4, <2>5
  <2> QED BY <1>3, <1>4, <2>1, <2>3, <2>5, <2>6 DEF In, Live
<1>8. \E m \in 1 .. len : s[m] = last /\ Taken(s, F, C, len, k, m)
  <2>1. \A a \in Live : IsRight(Live, a, F[a])
    BY <1>4
  <2>2. Adjacent(s, F, C, len, k, last)
    BY <1>7 DEF Adjacent
  <2> QED BY <1>2, <1>5, <1>6, <2>1, <2>2, RunIsTaken
<1> QED BY <1>3, <1>8

\* An overwrite of the nodes first .. last, unless the newest node is among them.
LEMMA OverwriteShape ==
    ASSUME NEW s, NEW len, NEW k, Shaped(s, len, k), Null \notin Live,
           NEW size \in Size, Overwrite(size), intact'
    PROVE  \E x \in Nat : \E p \in Nat : Reserved(s, len, k, x, p, size)
<1>1. /\ Order(node, HEAD, TAIL, oldest_reserve, s, len, k)
      /\ Ring(node) /\ Counted(node, counter)
  BY DEF Shaped, Shape
<1>2. PICK first, last, newer, p :
         /\ first = oldest_reserve /\ last = Min(Ends(size)) /\ newer = node[last].newer
         /\ p = StartPoint
  OBVIOUS
<1>3. PICK K, kept : /\ K = Live \ (first .. last)
                     /\ kept = Restrict(With(node, p, size), {p} \cup K)
  OBVIOUS
<1>4. /\ oldest_reserve # Null /\ node[oldest_reserve].st = "committed" /\ Ends(size) # {}
      /\ TAIL' = (IF TAIL = first THEN newer ELSE TAIL) /\ oldest_reserve' = newer
      /\ newer # Null /\ HEAD' = p
      /\ node' = Follow(Follow(Link(Link(kept, p, node[last].fwd), node[first].bwd, p),
                               node[first].older, newer), HEAD, p)
      /\ counter' = [counter EXCEPT !["committed"] = @ - Lost(first, last), !["writing"] = @ + 1]
  BY <1>2, <1>3 DEF Overwrite, OverwriteNeeded
<1>5. /\ len \in Nat /\ k \in 0 .. len /\ k < len /\ len \in 1 .. len /\ k + 1 \in 1 .. len
      /\ s \in [1 .. len -> Live] /\ HEAD = s[len] /\ TAIL = s[1] /\ first = s[k + 1]
      /\ \A i, j \in 1 .. len : s[i] = s[j] => i = j
      /\ \A a \in Live : \E i \in 1 .. len : s[i] = a
  BY <1>1, <1>2, <1>4 DEF Order, Live
<1>6. \A i \in 1 .. len : /\ node[s[i]].newer = IF i < len THEN s[i + 1] ELSE Null
                          /\ node[s[i]].older = IF i > 1 THEN s[i - 1] ELSE Null
  BY <1>1 DEF Order
<1>7. Live \in SUBSET Nat /\ Fitting(Live, Sizes(node), size)
  BY <1>1, RingFits DEF Live
<1>8. last \in Live /\ Run(last) /\ End(last) - StartPoint >= size
  <2>1. Ends(size) \in SUBSET Nat
    BY <1>7 DEF Ends
  <2>2. last \in Ends(size)
    BY <1>2, <1>4, <2>1, MinOf
  <2> QED BY <2>2 DEF Ends
<1>9. PICK m \in 1 .. len : /\ s[m] = last
                            /\ Taken(s, Fwd(node), In(node, "committed"), len, k, m)
  BY <1>4, <1>5, <1>8, RunShape
<1>10. PICK x : x = m - k
  OBVIOUS
<1>11. /\ m < len /\ newer = s[m + 1] /\ m >= k + 1 /\ m + 1 \in 1 .. len
       /\ x \in Nat /\ x > 0 /\ k + x = m /\ k + x < len
  <2>1. newer = IF m < len THEN s[m + 1] ELSE Null
    BY <1>2, <1>6, <1>9
  <2>2. m < len /\ m >= k + 1
    BY <1>4, <1>5, <1>9, <2>1 DEF Taken
  <2> QED BY <1>5, <1>10, <2>1, <2>2
<1>12. ASSUME NEW i \in 1 .. len
       PROVE  s[i] \in K <=> i <= k \/ i > k + x
  <2>1. s[i] \in Live /\ s[i] \in Nat /\ first \in Nat /\ last \in Nat
    BY <1>5, <1>7, <1>8
  <2>2. (first <= s[i] /\ s[i] <= last) <=> (k + 1 <= i /\ i <= m)
    BY <1>5, <1>9 DEF Taken
  <2>3. s[i] \in K <=> ~(first <= s[i] /\ s[i] <= last)
    BY <1>3, <2>1
  <2>4. ~(k + 1 <= i /\ i <= m) <=> i <= k \/ i > k + x
    BY <1>5, <1>11
  <2> QED BY <2>2, <2>3, <2>4
<1>13. Rest(s, len, k, x, K)
  <2>1. K \subseteq Live
    BY <1>3
  <2> QED BY <1>5, <1>12, <2>1 DEF Rest
<1>14. PICK left, right : left = node[first].bwd /\ right = node[last].fwd
  OBVIOUS
<1>15. \A c \in Live : /\ node[c].fwd \in Live /\ node[node[c].fwd].bwd = c
                       /\ node[c].bwd \in Live /\ node[node[c].bwd].fwd = c
                       /\ IsRight(Live, c, node[c].fwd)
  BY <1>1 DEF Ring, Circle, Fwd, Bwd, Live
<1>16. first \in Live /\ left \in Live /\ right \in Live /\ node[left].fwd = first
       /\ node[right].bwd = last /\ first <= last
  <2>1. first \in Live
    BY <1>5
  <2>2. last >= first
    BY <1>2, <1>8 DEF Run
  <2> QED BY <1>7, <1>8, <1>14, <1>15, <2>1, <2>2
<1>17. ASSUME NEW i \in k + 1 .. m - 1 PROVE node[s[i]].fwd = s[i + 1]
  <2>1. s[i] \in DOMAIN node
    BY <1>5, <1>9 DEF Live
  <2> QED BY <1>9, <2>1 DEF Taken, Fwd
<1>18. ASSUME NEW c \in Live, c \notin K PROVE \E i \in k + 1 .. m : s[i] = c
  <2>1. PICK i \in 1 .. len : s[i] = c
    BY <1>5
  <2>2. ~(i <= k \/ i > k + x)
    BY <1>12, <1>18, <2>1
  <2> QED BY <1>5, <1>11, <2>1, <2>2
<1>19. ASSUME NEW c \in Live, c \in K, node[c].fwd \notin K PROVE c = left
  <2>1. PICK i \in k + 1 .. m : s[i] = node[c].fwd
    BY <1>15, <1>18, <1>19
  <2>2. CASE i = k + 1
    BY <1>5, <1>14, <1>15, <2>1, <2>2
  <2>3. CASE i # k + 1
    <3>1. i - 1 \in k + 1 .. m - 1 /\ (i - 1) + 1 = i /\ i - 1 \in 1 .. len
      BY <1>5, <1>11, <2>3
    <3>2. node[s[i - 1]].fwd = s[i] /\ s[i - 1] \in Live
      BY <1>5, <1>17, <3>1
    <3>3. c = s[i - 1]
      BY <1>15, <2>1, <3>2
    <3>4. ~(i - 1 <= k \/ i - 1 > k + x)
      BY <1>5, <1>11, <3>1
    <3> QED BY <1>12, <1>19, <3>1, <3>3, <3>4
  <2> QED BY <2>2, <2>3
<1>20. ASSUME NEW c \in Live, c \in K, node[c].bwd \notin K PROVE c = right
  <2>1. PICK i \in k + 1 .. m : s[i] = node[c].bwd
    BY <1>15, <1>18, <1>20
  <2>2. CASE i = m
    BY <1>9, <1>14, <1>15, <2>1, <2>2
  <2>3. CASE i # m
    <3>1. i \in k + 1 .. m - 1 /\ i + 1 \in 1 .. len /\ ~(i + 1 <= k \/ i + 1 > k + x)
      BY <1>5, <1>11, <2>3
    <3>2. node[s[i]].fwd = s[i + 1]
      BY <1>17, <3>1
    <3>3. c = s[i + 1]
      BY <1>15, <2>1, <3>2
    <3> QED BY <1>12, <1>20, <3>1, <3>3
  <2> QED BY <2>2, <2>3
<1>21. K \in SUBSET Live /\ s[len] \in K /\ newer \in K
  BY <1>3, <1>5, <1>11, <1>12
<1>22. right # first
  <2> SUFFICES ASSUME right = first PROVE FALSE
    OBVIOUS
  <2>1. IsRight(Live, last, first)
    BY <1>8, <1>14, <1>15
  <2>2. newer \in Live /\ newer \in Nat /\ first \in Nat /\ last \in Nat /\ ~(last < first)
    BY <1>7, <1>8, <1>16, <1>21
  <2>3. first <= newer /\ newer <= last
    BY <2>1, <2>2 DEF IsRight
  <2>4. newer \notin first .. last
    BY <1>3, <1>21
  <2> QED BY <2>2, <2>3, <2>4
<1>23. left \in K
  <2> SUFFICES ASSUME left \notin K PROVE FALSE
    OBVIOUS
  <2>1. PICK i \in k + 1 .. m : s[i] = left
    BY <1>16, <1>18
  <2>2. CASE i = m
    BY <1>9, <1>14, <1>16, <1>22, <2>1, <2>2
  <2>3. CASE i # m
    <3>1. i \in k + 1 .. m - 1 /\ i + 1 \in 1 .. len /\ i + 1 # k + 1
      BY <1>5, <1>11, <2>3
    <3>2. s[i + 1] = s[k + 1]
      BY <1>5, <1>16, <1>17, <2>1, <3>1
    <3> QED BY <1>5, <3>1, <3>2
  <2> QED BY <2>2, <2>3
<1>24. right \in K
  <2> SUFFICES ASSUME right \notin K PROVE FALSE
    OBVIOUS
  <2>1. PICK i \in k + 1 .. m : s[i] = right
    BY <1>16, <1>18
  <2>2. i # k + 1
    BY <1>5, <1>22, <2>1
  <2>3. i - 1 \in k + 1 .. m - 1 /\ (i - 1) + 1 = i /\ i - 1 \in 1 .. len /\ i - 1 # m
    BY <1>5, <1>11, <2>2
  <2>4. node[s[i - 1]].fwd = right /\ s[i - 1] \in Live
    BY <1>5, <1>17, <2>1, <2>3
  <2>5. s[i - 1] = s[m]
    BY <1>9, <1>15, <1>16, <2>4
  <2> QED BY <1>5, <1>9, <2>3, <2>5
<1>25. Gap(node, K, left, right)
  <2>1. ASSUME NEW c \in K, c # left PROVE node[c].fwd \in K /\ node[c].fwd # right
    <3>1. c \in Live
      BY <1>21
    <3>2. node[c].fwd \in K
      BY <1>19, <2>1, <3>1
    <3>3. node[c].fwd # right
      <4>1. last \notin K
        BY <1>3, <1>7, <1>8, <1>16
      <4> QED BY <1>15, <1>16, <3>1, <4>1
    <3> QED BY <3>2, <3>3
  <2>2. ASSUME NEW c \in K, c # right PROVE node[c].bwd \in K /\ node[c].bwd # left
    <3>1. c \in Live
      BY <1>21
    <3>2. node[c].bwd \in K
      BY <1>20, <2>2, <3>1
    <3>3. node[c].bwd # left
      <4>1. first \notin K
        BY <1>3, <1>7, <1>8, <1>16
      <4> QED BY <1>15, <1>16, <3>1, <4>1
    <3> QED BY <3>2, <3>3
  <2> QED BY <2>1, <2>2 DEF Gap
<1>26. PICK z : z = Sizes(node)
  OBVIOUS
<1>27. \A c \in Live : z[c] = node[c].size
  BY <1>26 DEF Sizes, Live
<1>28. Placed(K, z, size, left, right, p)
  <2>1. p = (IF left < first THEN left + z[left] ELSE 0)
    BY <1>2, <1>14, <1>16, <1>27 DEF StartPoint, End
  <2>2. p \in Nat
    <3>1. left \in Nat /\ z[left] \in Nat
      BY <1>7, <1>16, <1>26 DEF Fitting
    <3> QED BY <2>1, <3>1
  <2>3. p + size <= last + z[last]
    <3>1. last \in Nat /\ z[last] \in Nat /\ size \in Nat
      BY <1>7, <1>8, <1>26 DEF Fitting
    <3>2. (last + z[last]) - p >= size
      BY <1>2, <1>8, <1>27 DEF End
    <3> QED BY <2>2, <3>1, <3>2
  <2>4. IsRight(Live, left, first) /\ IsRight(Live, last, right)
    BY <1>8, <1>14, <1>15, <1>16
  <2> QED BY <1>3, <1>7, <1>8, <1>16, <1>23, <1>24, <1>26, <2>1, <2>3, <2>4, OverwritePlace
<1>29. p \in Nat /\ p \notin K /\ p # Null
  BY <1>28, NullAssumption DEF Placed
<1>30. PICK md : md = node'
  OBVIOUS
<1>31. PICK o : o = node[first].older
  OBVIOUS
<1>32. o \in K \cup {Null}
  <2>1. o = IF k + 1 > 1 THEN s[(k + 1) - 1] ELSE Null
    BY <1>5, <1>6, <1>31
  <2>2. k + 1 > 1 => (k + 1) - 1 \in 1 .. len /\ (k + 1) - 1 <= k
    BY <1>5
  <2> QED BY <1>12, <2>1, <2>2
<1>33. Inserted(node, K, left, right, p, size, o, newer, s[len], md)
  <2>1. Nodes(node) /\ K \in SUBSET DOMAIN node
    BY <1>1, <1>21 DEF Ring, Live
  <2>2. md = Follow(Follow(Link(Link(Restrict(With(node, p, size), {p} \cup K), p, right),
                                left, p), o, newer), s[len], p)
    BY <1>3, <1>4, <1>5, <1>14, <1>30, <1>31
  <2> QED BY <1>21, <1>23, <1>24, <1>29, <1>32, <2>1, <2>2, ReplaceFields
<1>34. Ring(md)
  <2>1. K \in SUBSET DOMAIN node
    BY <1>21 DEF Live
  <2> QED BY <1>1, <1>23, <1>24, <1>25, <1>26, <1>28, <1>33, <2>1, InsertRing
<1>35. PICK lost : lost = {a \in Live : a \in first .. last}
  OBVIOUS
<1>36. lost \subseteq Live /\ K = Live \ lost /\ \A a \in lost : node[a].st = "committed"
  <2>1. ASSUME NEW a \in lost PROVE node[a].st = "committed"
    <3>1. a \in Live /\ a \notin K
      BY <1>3, <1>35
    <3>2. PICK i \in k + 1 .. m : s[i] = a
      BY <1>18, <3>1
    <3> QED BY <1>9, <3>2 DEF Taken, In
  <2> QED BY <1>3, <1>35, <2>1
<1>37. Counted(md, counter')
  <2>1. counter' = [counter EXCEPT !["committed"] = @ - Cardinality(lost), !["writing"] = @ + 1]
    BY <1>4, <1>35 DEF Lost
  <2>2. lost \in SUBSET DOMAIN node /\ DOMAIN node \ lost = K
    BY <1>36 DEF Live
  <2>3. /\ DOMAIN md = K \cup {p} /\ md[p].st = "writing"
        /\ \A a \in K : md[a].st = node[a].st
    BY <1>33 DEF Inserted
  <2> QED BY <1>1, <1>29, <1>36, <2>1, <2>2, <2>3, CountReplaced
<1>38. PICK r : r = Appended(s, len, k, x, p)
  OBVIOUS
<1>39. Order(md, p, r[1], r[k + 1], r, len - x + 1, k)
  <2>1. Null \notin DOMAIN node /\ len > 0
    BY <1>5 DEF Live
  <2>2. Inserted(node, K, left, right, p, size, node[s[k + 1]].older, s[k + x + 1], s[len], md)
    BY <1>5, <1>11, <1>31, <1>33
  <2>3. Grown(node, s, len, k, x, p, md)
    BY <1>1, <1>11, <1>13, <1>29, <2>1, <2>2, ReplaceGrown
  <2> QED BY <1>1, <1>38, <2>1, <2>3, OrderGrows
<1>40. r[1] = TAIL' /\ r[k + 1] = oldest_reserve'
  <2>1. /\ r[1] = IF k = 0 THEN s[x + 1] ELSE s[1]
        /\ r[k + 1] = IF k < len THEN s[k + x + 1] ELSE p
    BY <1>5, <1>11, <1>38, AppendedEnds
  <2>2. TAIL = first <=> k = 0
    BY <1>5
  <2>3. k + x + 1 = m + 1 /\ (k = 0 => x + 1 = m + 1)
    BY <1>5, <1>11
  <2> QED BY <1>4, <1>5, <1>11, <2>1, <2>2, <2>3
<1>41. Shaped(Appended(s, len, k, x, p), len - x + 1, k)'
  BY <1>4, <1>30, <1>34, <1>37, <1>38, <1>39, <1>40 DEF Shaped, Shape
<1>42. p \in Address /\ node'[p].st = "writing" /\ node'[p].size = size
  BY <1>30, <1>33, <1>34 DEF Inserted, Ring
<1>43. ASSUME NEW i \in 1 .. len, i <= k \/ i > k + x
       PROVE  /\ node'[s[i]].st = node[s[i]].st /\ node'[s[i]].size = node[s[i]].size
              /\ s[i] + node[s[i]].size <= p \/ p + size <= s[i]
  <2>1. s[i] \in K /\ s[i] \in Live /\ s[i] \in Nat
    BY <1>5, <1>7, <1>12, <1>43
  <2>2. s[i] # p
    BY <1>29, <2>1
  <2>3. /\ s[i] < p => s[i] + z[s[i]] <= p
        /\ p < s[i] => p + size <= s[i]
    BY <1>28, <2>1 DEF Placed
  <2>4. s[i] + node[s[i]].size <= p \/ p + size <= s[i]
    BY <1>27, <1>29, <2>1, <2>2, <2>3
  <2> QED BY <1>30, <1>33, <2>1, <2>4 DEF Inserted
<1>44. \A i \in k + 1 .. k + x : node[s[i]].st = "committed"
  <2>1. \A i \in k + 1 .. m : s[i] \in In(node, "committed")
    BY <1>9 DEF Taken
  <2> QED BY <1>11, <2>1 DEF In
<1>45. Reserved(s, len, k, x, p, size)
  <2>1. k + x <= len
    BY <1>5, <1>11
  <2> QED BY <1>11, <1>41, <1>42, <1>43, <1>44, <2>1 DEF Reserved
<1> QED BY <1>11, <1>29, <1>45

-----------------------------------------------------------------------------
\* Sequences

\* d is c, which has n elements, with e after them.
IsMore(d, S, c, n, e) ==
    /\ d \in Seq(S) /\ Len(d) = n + 1 /\ d[n + 1] = e
    /\ \A i \in 1 .. n : d[i] = c[i]

\* One element more.
LEMMA Appending ==
    ASSUME NEW S, NEW c \in Seq(S), NEW n, Len(c) = n, NEW e \in S
    PROVE  IsMore(Append(c, e), S, c, n, e)
  BY AppendProperties DEF IsMore

\* d is L without the x elements after the first k, which is c, and with e after them.
IsReserved(L, len, k, x, e, c, d) ==
    /\ d = [i \in 1 .. len - x + 1 |->
                IF i <= k THEN L[i] ELSE IF i <= len - x THEN L[i + x] ELSE e]
    /\ Len(c) = len - x /\ \A i \in 1 .. len - x : c[i] = IF i <= k THEN L[i] ELSE L[i + x]

\* The log after a Reserve of RingLog.
LEMMA ReservedLog ==
    ASSUME NEW S, NEW len \in Nat, NEW L \in [1 .. len -> S], NEW k \in 0 .. len,
           NEW x \in Nat, k + x <= len, NEW e \in S, NEW c,
           c = SubSeq(L, 1, (k + 1) - 1) \o SubSeq(L, (k + 1) + x, Len(L))
    PROVE  IsReserved(L, len, k, x, e, c, Append(c, e))
<1>1. L \in Seq(S) /\ Len(L) = len
  BY DEF Seq
<1>2. PICK v : v = k + x
  OBVIOUS
<1>3. c = SubSeq(L, 1, k) \o SubSeq(L, v + 1, len)
  <2>1. (k + 1) - 1 = k /\ (k + 1) + x = v + 1
    BY <1>2
  <2> QED BY <1>1, <2>1
<1>4. v \in k .. len /\ v - k = x
  BY <1>2
<1>5. /\ c \in Seq(S) /\ Len(c) = len - x
      /\ \A i \in 1 .. len - x : c[i] = IF i <= k THEN L[i] ELSE L[i + x]
  <2>1. IsCut(c, S, L, len, k, v)
    BY <1>3, <1>4, Cutting, Zenon
  <2> QED BY <1>4, <2>1 DEF IsCut
<1>6. PICK d : d = Append(c, e)
  OBVIOUS
<1>7. /\ d \in Seq(S) /\ Len(d) = (len - x) + 1 /\ d[(len - x) + 1] = e
      /\ \A i \in 1 .. len - x : d[i] = c[i]
  <2>1. IsMore(d, S, c, len - x, e)
    BY <1>5, <1>6, Appending, Zenon
  <2> QED BY <2>1 DEF IsMore
<1>8. PICK n : n = (len - x) + 1 /\ n \in Nat
  OBVIOUS
<1>9. d = [i \in 1 .. n |-> d[i]]
  <2>1. d \in Seq(S) /\ Len(d) = n
    BY <1>7, <1>8
  <2> QED BY <2>1
<1>10. ASSUME NEW i \in 1 .. n
       PROVE  d[i] = IF i <= k THEN L[i] ELSE IF i <= len - x THEN L[i + x] ELSE e
  <2>1. CASE i = n
    <3>1. d[i] = e /\ ~(i <= k) /\ ~(i <= len - x)
      BY <1>7, <1>8, <2>1
    <3> QED BY <3>1, Zenon
  <2>2. CASE i # n
    <3>1. i \in 1 .. len - x /\ i <= len - x
      BY <1>8, <2>2
    <3>2. d[i] = c[i] /\ c[i] = IF i <= k THEN L[i] ELSE L[i + x]
      BY <1>5, <1>7, <3>1
    <3> QED BY <3>1, <3>2, Zenon
  <2> QED BY <2>1, <2>2
<1>11. d = [i \in 1 .. len - x + 1 |->
              IF i <= k THEN L[i] ELSE IF i <= len - x THEN L[i + x] ELSE e]
  <2>1. d = [i \in 1 .. n |-> IF i <= k THEN L[i] ELSE IF i <= len - x THEN L[i + x] ELSE e]
    BY <1>9, <1>10, Zenon
  <2> QED BY <1>8, <2>1
<1>12. IsReserved(L, len, k, x, e, c, d)
  BY <1>5, <1>11, Zenon DEF IsReserved
<1> QED BY <1>6, <1>12, Zenon

\* d is L without L[j].
IsDropped(L, len, j, d) == d = [i \in 1 .. len - 1 |-> IF i < j THEN L[i] ELSE L[i + 1]]

\* The log after a Drop of RingLog.
LEMMA DroppedLog ==
    ASSUME NEW S, NEW len \in Nat, NEW L \in [1 .. len -> S], NEW j \in 1 .. len
    PROVE  IsDropped(L, len, j, SubSeq(L, 1, j - 1) \o SubSeq(L, j + 1, Len(L)))
<1>1. L \in Seq(S) /\ Len(L) = len
  BY DEF Seq
<1>2. PICK u, c : u = j - 1 /\ c = SubSeq(L, 1, u) \o SubSeq(L, j + 1, len)
  OBVIOUS
<1>3. u \in 0 .. len /\ j \in u .. len /\ j - u = 1
  BY <1>2
<1>4. /\ c \in Seq(S) /\ Len(c) = len - 1
      /\ \A i \in 1 .. len - 1 : c[i] = IF i <= u THEN L[i] ELSE L[i + 1]
  <2>1. IsCut(c, S, L, len, u, j)
    BY <1>2, <1>3, Cutting, Zenon
  <2> QED BY <1>3, <2>1 DEF IsCut
<1>5. c = [i \in 1 .. len - 1 |-> c[i]]
  BY <1>4
<1>6. \A i \in 1 .. len - 1 : c[i] = IF i < j THEN L[i] ELSE L[i + 1]
  <2>1. \A i \in 1 .. len - 1 : i <= u <=> i < j
    BY <1>2
  <2> QED BY <1>4, <2>1
<1> QED BY <1>1, <1>2, <1>5, <1>6 DEF IsDropped

-----------------------------------------------------------------------------
\* The structure is sound

\* Null is not an address.
LEMMA NullIsNoNode == ASSUME Live \subseteq Address PROVE Null \notin Live
<1>1. Address \subseteq Int
  BY CapacityAssumption DEF Address
<1> QED BY <1>1, NullAssumption

\* While the buffer is intact, the invariant names the order of its nodes.
LEMMA InvIsShaped ==
    ASSUME IInv, intact
    PROVE  Null \notin Live /\ \E s, len, k : Shaped(s, len, k)
<1>1. Null \notin Live
  BY NullIsNoNode DEF IInv
<1>2. Ring(node) /\ Counted(node, counter)
  BY DEF IInv
<1>3. PICK len \in Nat : \E k \in 0 .. len : \E s \in [1 .. len -> Live] : Ordered(s, len, k)
  BY DEF IInv
<1>4. PICK k \in 0 .. len, s \in [1 .. len -> Live] : Ordered(s, len, k)
  BY <1>3
<1>5. Shaped(s, len, k)
  BY <1>2, <1>4 DEF Shaped, Shape, Ordered
<1> QED BY <1>1, <1>5

\* Nodes that are in order satisfy the invariant.
LEMMA ShapedIsInv ==
    \A s, len, k : Shaped(s, len, k) /\ intact \in BOOLEAN => IInv
<1> SUFFICES ASSUME NEW s, NEW len, NEW k, Shaped(s, len, k), intact \in BOOLEAN
             PROVE  IInv
  OBVIOUS
<1>1. Ring(node) /\ Counted(node, counter) /\ Ordered(s, len, k)
  BY DEF Shaped, Shape, Ordered
<1>2. len \in Nat /\ k \in 0 .. len /\ s \in [1 .. len -> Live]
  BY <1>1 DEF Ordered, Order, Live
<1>3. Live \subseteq Address /\ counter \in [State -> Int]
  BY <1>1 DEF Ring, Counted, Live
<1> QED BY <1>1, <1>2, <1>3 DEF IInv

\* The same of the next state.
LEMMA ShapedIsInvNext ==
    (\A s, len, k : Shaped(s, len, k) /\ intact \in BOOLEAN => IInv)'
  BY ShapedIsInv, PTL

\* What a step of the program does to the nodes s[1] .. s[len], of which the first k
\* are being read.
Consumed(s, len, k) ==
    /\ Shaped(s, len, k + 1)' /\ k < len /\ node[s[k + 1]].st = "committed"
    /\ Changes(node, node', s, len, k + 1, "reading")
Committed(s, len, k, j) ==
    Shaped(s, len, k)' /\ node[s[j]].st = "writing" /\ Changes(node, node', s, len, j, "committed")
GivenBack(s, len, k) ==
    Shaped(s, len, k - 1)' /\ k > 0 /\ Changes(node, node', s, len, k, "committed")
Dropped(s, len, k, j) ==
    /\ Shaped(Removed(s, len, j), len - 1, IF j <= k THEN k - 1 ELSE k)'
    /\ node[s[j]].st \in {"writing", "reading"}
    /\ Keeps(node, node', s, len, j)

Moves(s, len, k) ==
    \/ \E size \in Size, x \in Nat, p \in Nat : Reserved(s, len, k, x, p, size)
    \/ Consumed(s, len, k) \/ GivenBack(s, len, k)
    \/ \E j \in 1 .. len : Committed(s, len, k, j) \/ Dropped(s, len, k, j)

\* Every call that leaves the buffer intact is one of these moves.
LEMMA NextMoves ==
    ASSUME NEW s, NEW len, NEW k, Shaped(s, len, k), Null \notin Live, Next, intact'
    PROVE  Moves(s, len, k)
<1>1. ASSUME NEW size \in Size,
             ReserveEmpty(size) \/ ReserveFree(size) \/ OverwriteOnly(size) \/ Overwrite(size)
      PROVE  \E x \in Nat, p \in Nat : Reserved(s, len, k, x, p, size)
  <2>1. ReserveEmpty(size) => Reserved(s, len, k, 0, 0, size)
    BY ReserveEmptyShape
  <2>2. ReserveFree(size) => \E p \in Nat : Reserved(s, len, k, 0, p, size)
    BY ReserveFreeShape
  <2>3. OverwriteOnly(size) => Reserved(s, len, k, 1, 0, size)
    BY OverwriteOnlyShape
  <2>4. Overwrite(size) => \E x \in Nat : \E p \in Nat : Reserved(s, len, k, x, p, size)
    BY OverwriteShape
  <2>5. 0 \in Nat /\ 1 \in Nat
    OBVIOUS
  <2> QED BY <1>1, <2>1, <2>2, <2>3, <2>4, <2>5, Zenon
<1>2. Consume => Consumed(s, len, k)
  BY ConsumeShape DEF Consumed
<1>3. ASSUME NEW a \in Live, CommitWrite(a)
      PROVE  \E j \in 1 .. len : Committed(s, len, k, j)
  BY <1>3, CommitShape DEF Committed
<1>4. ASSUME NEW a \in Live, DiscardRead(a) PROVE GivenBack(s, len, k)
  BY <1>4, GiveBackShape DEF GivenBack
<1>5. ASSUME NEW a \in Live, DiscardWrite(a) \/ CommitRead(a)
      PROVE  \E j \in 1 .. len : Dropped(s, len, k, j)
  <2>1. PICK old \in {"writing", "reading"} :
           node[a].st = old /\ DeleteNode(a, [counter EXCEPT ![old] = @ - 1])
    BY <1>5 DEF DiscardWrite, CommitRead
  <2>2. old \in State
    BY <2>1 DEF State
  <2>3. \E j \in 1 .. len :
              /\ s[j] = a
              /\ Shaped(Removed(s, len, j), len - 1, IF j <= k THEN k - 1 ELSE k)'
              /\ Keeps(node, node', s, len, j)
    BY <2>1, <2>2, DeleteShape, Zenon
  <2> QED BY <2>1, <2>3, Zenon DEF Dropped
<1> QED BY <1>1, <1>2, <1>3, <1>4, <1>5, Zenon DEF Next, Moves

\* After a move the nodes are in order.
LEMMA MovesShape ==
    ASSUME NEW s, NEW len, NEW k, Moves(s, len, k)
    PROVE  \E t, m, l : Shaped(t, m, l)'
  BY Zenon DEF Moves, Reserved, Consumed, Committed, GivenBack, Dropped

\* An overwrite of the newest node leaves nodes in the array, and numbers in the
\* counters.
LEMMA BrokenIsInv ==
    ASSUME NEW s, NEW len, NEW k, Shaped(s, len, k), Null \notin Live,
           NEW size \in Size, Overwrite(size), ~intact'
    PROVE  IInv'
<1>1. /\ Order(node, HEAD, TAIL, oldest_reserve, s, len, k)
      /\ Ring(node) /\ Counted(node, counter)
  BY DEF Shaped, Shape
<1>2. PICK first, last, p, K :
         /\ first = oldest_reserve /\ last = Min(Ends(size)) /\ p = StartPoint
         /\ K = Live \ (first .. last)
  OBVIOUS
<1>3. /\ oldest_reserve # Null
      /\ node' = Restrict(With(node, p, size), {p} \cup K)
      /\ counter' = [counter EXCEPT !["committed"] = @ - Lost(first, last), !["writing"] = @ + 1]
  BY <1>2 DEF Overwrite, OverwriteNeeded
<1>4. Live \subseteq Address /\ K \subseteq Address /\ first \in Live
  <2>1. Live \subseteq Address
    BY <1>1 DEF Ring, Live
  <2>2. k < len /\ len \in Nat /\ k \in 0 .. len /\ oldest_reserve = s[k + 1] /\ k + 1 \in 1 .. len
    BY <1>1, <1>3 DEF Order
  <2>3. s[k + 1] \in Live
    BY <1>1, <2>2 DEF Order, Live
  <2> QED BY <1>2, <2>1, <2>2, <2>3
<1>5. p \in Address
  <2>1. PICK left, z : /\ left = node[first].bwd /\ left \in Live
                       /\ z = node[left].size /\ z \in Nat
    <3>1. node[first].bwd \in Live
      BY <1>1, <1>4 DEF Ring, Circle, Bwd, Live
    <3> QED BY <1>1, <3>1, SizeAssumption DEF Ring, Nodes, Node, Live
  <2>2. p = IF left < first THEN left + z ELSE 0
    BY <1>2, <2>1 DEF StartPoint, End
  <2>3. left < first => left + z <= first
    BY <1>1, <1>4, <2>1 DEF Ring, Apart, Live
  <2>4. left \in 0 .. Capacity - 1 /\ first \in 0 .. Capacity - 1 /\ Capacity \in Nat
    BY <1>4, <2>1, CapacityAssumption DEF Address
  <2> QED BY <2>1, <2>2, <2>3, <2>4 DEF Address
<1>6. Live' = {p} \cup K
  BY <1>3 DEF Live, Restrict
<1>7. counter' \in [State -> Int]
  <2>1. IsFiniteSet(Live)
    BY <1>1, RingFinite DEF Live
  <2>2. IsFiniteSet({a \in Live : a \in first .. last})
    BY <2>1, FS_Subset
  <2>3. Lost(first, last) \in Nat
    BY <2>2, FS_CardinalityType DEF Lost
  <2>4. counter \in [State -> Int]
    BY <1>1 DEF Counted
  <2> QED BY <1>3, <2>3, <2>4 DEF State
<1>8. Live' \subseteq Address /\ intact' \in BOOLEAN
  BY <1>4, <1>5, <1>6 DEF Overwrite
<1> QED BY <1>7, <1>8, Zenon DEF IInv

\* The empty buffer satisfies the invariant.
LEMMA InitInv == Init => IInv
<1> SUFFICES ASSUME Init PROVE IInv
  OBVIOUS
<1>1. node = << >> /\ HEAD = Null /\ TAIL = Null /\ oldest_reserve = Null
      /\ counter = [st \in State |-> 0] /\ intact = TRUE /\ DOMAIN node = {}
  BY DEF Init, NoCount
<1>2. PICK s : s = [i \in 1 .. 0 |-> 0]
  OBVIOUS
<1>3. Ring(node)
  BY <1>1 DEF Ring, Nodes, Circle, Apart
<1>4. Counted(node, counter)
  <2>1. \A st \in State : {a \in DOMAIN node : node[a].st = st} = {}
    BY <1>1
  <2> QED BY <1>1, <2>1, FS_EmptySet DEF Counted
<1>5. Order(node, HEAD, TAIL, oldest_reserve, s, 0, 0)
  BY <1>1, <1>2 DEF Order
<1>6. Shaped(s, 0, 0)
  BY <1>3, <1>4, <1>5 DEF Shaped, Shape
<1> QED BY <1>1, <1>6, ShapedIsInv

\* Every call keeps the invariant.
LEMMA NextInv == IInv /\ [Next]_vars => IInv'
<1>1. ASSUME IInv, Next PROVE IInv'
  <2>1. intact
    BY <1>1 DEF Next
  <2>2. PICK s, len, k : Shaped(s, len, k) /\ Null \notin Live
    BY <1>1, <2>1, InvIsShaped, Zenon
  <2>3. CASE intact'
    <3>1. PICK t, m, l : Shaped(t, m, l)'
      BY <1>1, <2>2, <2>3, NextMoves, MovesShape, Zenon
    <3>2. intact' \in BOOLEAN
      BY <1>1, <2>1 DEF IInv, Next, ReserveEmpty, ReserveFree, OverwriteOnly, Overwrite, OnlyNode,
            Consume, CommitWrite, DiscardWrite, CommitRead, DiscardRead
    <3> QED BY <3>1, <3>2, ShapedIsInvNext, Zenon
  <2>4. CASE ~intact'
    <3>1. \E size \in Size : Overwrite(size)
      BY <1>1, <2>1, <2>4 DEF Next, ReserveEmpty, ReserveFree, OverwriteOnly, OnlyNode,
            Consume, CommitWrite, DiscardWrite, CommitRead, DiscardRead
    <3> QED BY <2>2, <2>4, <3>1, BrokenIsInv, Zenon
  <2> QED BY <2>3, <2>4
<1>2. ASSUME IInv, UNCHANGED vars PROVE IInv'
  <2>1. CASE intact
    <3>1. PICK s, len, k : Shaped(s, len, k)
      BY <1>2, <2>1, InvIsShaped, Zenon
    <3>2. Shaped(s, len, k)' /\ intact' \in BOOLEAN
      BY <1>2, <3>1 DEF Shaped, IInv, vars
    <3> QED BY <3>2, ShapedIsInvNext, Zenon
  <2>2. CASE ~intact
    <3>1. /\ Live' \subseteq Address /\ counter' \in [State -> Int]
          /\ intact' \in BOOLEAN /\ ~intact'
      BY <1>2, <2>2 DEF IInv, vars, Live
    <3> QED BY <3>1, Zenon DEF IInv
  <2> QED BY <2>1, <2>2
<1> QED BY <1>1, <1>2

\* The structure is sound after every operation of ringbuffer.c: no stale pointer,
\* no overlap, both chains and the counters agree with the nodes in use.
THEOREM StructureIsSound == Spec => []StructureSound
<1>1. Spec => []IInv
  BY InitInv, NextInv, PTL DEF Spec
<1> QED BY <1>1, InvIsSound, PTL

-----------------------------------------------------------------------------
\* The log

\* The entry of node a in the log, and the log of the nodes s[1] .. s[len].
Entry(nd, a) == [pos |-> a, size |-> nd[a].size, st |-> nd[a].st]
Logged(nd, s, len) == [i \in 1 .. len |-> Entry(nd, s[i])]
Entries == [pos : Int, size : Size, st : State]

\* The refinement mapping lists the nodes in that order.
LEMMA LogIs ==
    \A s, len, k : Shaped(s, len, k) /\ intact => AgeLog = Logged(node, s, len)
<1> SUFFICES ASSUME NEW s, NEW len, NEW k, Shaped(s, len, k), intact
             PROVE  AgeLog = Logged(node, s, len)
  OBVIOUS
<1>1. ByAge = s /\ DOMAIN ByAge = 1 .. len
  <2>1. Ordered(s, len, k)
    BY DEF Shaped, Shape, Ordered
  <2> QED BY <2>1, ByAgeIs
<1> QED BY <1>1 DEF AgeLog, Logged, Entry

\* The same of the next state.
LEMMA LogIsNext ==
    (\A s, len, k : Shaped(s, len, k) /\ intact => AgeLog = Logged(node, s, len))'
  BY LogIs, PTL

\* The entries of the log, and which of them are being read.
LEMMA LoggedIs ==
    ASSUME NEW s, NEW len, NEW k, Shaped(s, len, k)
    PROVE  /\ len \in Nat /\ k \in 0 .. len
           /\ Logged(node, s, len) \in [1 .. len -> Entries]
           /\ Len(Logged(node, s, len)) = len
           /\ \A i \in 1 .. len : /\ Logged(node, s, len)[i] = Entry(node, s[i])
                                  /\ s[i] \in Int /\ node[s[i]].size \in Size
                                  /\ Logged(node, s, len)[i].st = "reading" <=> i <= k
<1>1. Order(node, HEAD, TAIL, oldest_reserve, s, len, k) /\ Ring(node)
  BY DEF Shaped, Shape
<1>2. /\ len \in Nat /\ k \in 0 .. len /\ s \in [1 .. len -> DOMAIN node]
      /\ \A i \in 1 .. len : node[s[i]].st = "reading" <=> i <= k
  BY <1>1 DEF Order
<1>3. \A a \in DOMAIN node : a \in Int /\ node[a].size \in Size /\ node[a].st \in State
  BY <1>1 DEF Ring, Nodes, Node
<1>4. PICK L : L = Logged(node, s, len)
  OBVIOUS
<1>5. ASSUME NEW i \in 1 .. len
      PROVE  /\ L[i] = Entry(node, s[i]) /\ L[i] \in Entries
             /\ s[i] \in Int /\ node[s[i]].size \in Size
             /\ L[i].st = "reading" <=> i <= k
  <2>1. s[i] \in Int /\ node[s[i]].size \in Size /\ node[s[i]].st \in State
    BY <1>2, <1>3
  <2>2. L[i] = [pos |-> s[i], size |-> node[s[i]].size, st |-> node[s[i]].st]
    BY <1>4 DEF Logged, Entry
  <2> QED BY <1>2, <2>1, <2>2 DEF Entries, Entry
<1>6. L = [i \in 1 .. len |-> L[i]]
  BY <1>4 DEF Logged
<1>7. L \in [1 .. len -> Entries]
  BY <1>5, <1>6
<1>8. Len(L) = len
  BY <1>2, <1>7 DEF Seq
<1> QED BY <1>2, <1>4, <1>5, <1>7, <1>8

\* The first node of the log that is not being read is the one after the first k.
LEMMA FirstIs ==
    ASSUME NEW s, NEW len, NEW k, Shaped(s, len, k), intact
    PROVE  Log!First = k + 1 /\ (k > 0 => Log!Reading # {})
<1>1. PICK L : L = AgeLog /\ L = Logged(node, s, len)
  BY LogIs
<1>2. /\ len \in Nat /\ k \in 0 .. len /\ Len(L) = len
      /\ \A i \in 1 .. len : L[i].st = "reading" <=> i <= k
  BY <1>1, LoggedIs
<1>3. Log!Reading = 1 .. k
  <2>1. Log!Reading = {i \in 1 .. len : L[i].st = "reading"}
    BY <1>1, <1>2 DEF Log!Reading
  <2> QED BY <1>2, <2>1
<1>4. CASE k = 0
  BY <1>3, <1>4 DEF Log!First
<1>5. CASE k > 0
  <2>1. k \in 1 .. k /\ \A i \in 1 .. k : k >= i
    BY <1>2, <1>5
  <2>2. \A m \in 1 .. k : (\A i \in 1 .. k : m >= i) => m = k
    BY <1>2, <1>5
  <2>3. Log!Max(1 .. k) = k
    BY <2>1, <2>2 DEF Log!Max
  <2> QED BY <1>3, <2>1, <2>3 DEF Log!First
<1> QED BY <1>2, <1>4, <1>5

\* Two nodes one after the other share no cell.
LEMMA Disjoint ==
    ASSUME NEW a \in Int, NEW z \in Nat, NEW p \in Nat, NEW q \in Nat,
           a + z <= p \/ p + q <= a
    PROVE  (a .. a + z - 1) \cap (p .. p + q - 1) = {}
<1> SUFFICES ASSUME NEW y \in Int, a <= y, y <= a + z - 1, p <= y, y <= p + q - 1
             PROVE  FALSE
  OBVIOUS
<1> QED OBVIOUS

\* A new node is appended, where it overlaps none of those that are kept.
LEMMA ReserveMaps ==
    ASSUME NEW s, NEW len, NEW k, Shaped(s, len, k), intact, intact',
           NEW size \in Size, NEW x \in Nat, NEW p \in Nat, Reserved(s, len, k, x, p, size)
    PROVE  Log!Next
<1>1. PICK L : L = AgeLog /\ L = Logged(node, s, len)
  BY LogIs
<1>2. /\ len \in Nat /\ k \in 0 .. len /\ L \in [1 .. len -> Entries] /\ Len(L) = len
      /\ \A i \in 1 .. len : /\ L[i] = Entry(node, s[i])
                             /\ s[i] \in Int /\ node[s[i]].size \in Size
  BY <1>1, LoggedIs
<1>3. /\ Shaped(Appended(s, len, k, x, p), len - x + 1, k)'
      /\ k + x <= len /\ p \in Address
      /\ \A i \in k + 1 .. k + x : node[s[i]].st = "committed"
      /\ node'[p].st = "writing" /\ node'[p].size = size
      /\ \A i \in 1 .. len : i <= k \/ i > k + x =>
            /\ node'[s[i]].st = node[s[i]].st /\ node'[s[i]].size = node[s[i]].size
            /\ s[i] + node[s[i]].size <= p \/ p + size <= s[i]
  BY DEF Reserved
<1>4. PICK e : e = [pos |-> p, size |-> size, st |-> "writing"]
  OBVIOUS
<1>5. e \in Entries
  BY <1>4 DEF Entries, State
<1>6. PICK c : c = SubSeq(L, 1, (k + 1) - 1) \o SubSeq(L, (k + 1) + x, Len(L))
  OBVIOUS
<1>7. /\ Append(c, e) = [i \in 1 .. len - x + 1 |->
                           IF i <= k THEN L[i] ELSE IF i <= len - x THEN L[i + x] ELSE e]
      /\ Len(c) = len - x /\ \A i \in 1 .. len - x : c[i] = IF i <= k THEN L[i] ELSE L[i + x]
  <2>1. IsReserved(L, len, k, x, e, c, Append(c, e))
    BY <1>2, <1>3, <1>5, <1>6, ReservedLog, Zenon
  <2> QED BY <2>1 DEF IsReserved
<1>8. AgeLog' = Append(c, e)
  <2>1. PICK t : t = Appended(s, len, k, x, p)
    OBVIOUS
  <2>2. AgeLog' = [i \in 1 .. len - x + 1 |-> Entry(node', t[i])]
    <3>1. (AgeLog = Logged(node, t, len - x + 1))'
      BY <1>3, <2>1, LogIsNext, Zenon
    <3> QED BY <3>1 DEF Logged
  <2>3. Entry(node', p) = e
    BY <1>3, <1>4 DEF Entry
  <2>4. ASSUME NEW i \in 1 .. len, i <= k \/ i > k + x PROVE Entry(node', s[i]) = L[i]
    BY <1>2, <1>3, <2>4 DEF Entry
  <2>5. ASSUME NEW i \in 1 .. len - x + 1
        PROVE  Entry(node', t[i]) =
                   IF i <= k THEN L[i] ELSE IF i <= len - x THEN L[i + x] ELSE e
    <3>1. t[i] = IF i <= k THEN s[i] ELSE IF i <= len - x THEN s[i + x] ELSE p
      BY <2>1 DEF Appended
    <3>2. CASE i <= k
      <4>1. i \in 1 .. len
        BY <1>2, <3>2
      <4> QED BY <2>4, <3>1, <3>2, <4>1
    <3>3. CASE ~(i <= k) /\ i <= len - x
      <4>1. i + x \in 1 .. len /\ i + x > k + x
        BY <1>2, <3>3
      <4> QED BY <2>4, <3>1, <3>3, <4>1
    <3>4. CASE ~(i <= k) /\ ~(i <= len - x)
      BY <2>3, <3>1, <3>4
    <3> QED BY <3>2, <3>3, <3>4
  <2> QED BY <1>7, <2>2, <2>5
<1>9. ASSUME NEW i \in 1 .. Len(c) PROVE Log!Cells(c[i]) \cap Log!Cells(e) = {}
  <2>1. PICK j \in 1 .. len : c[i] = L[j] /\ (j <= k \/ j > k + x)
    <3>1. CASE i <= k
      BY <1>2, <1>7, <3>1
    <3>2. CASE ~(i <= k)
      <4>1. i + x \in 1 .. len /\ i + x > k + x /\ c[i] = L[i + x]
        BY <1>2, <1>7, <3>2
      <4> QED BY <4>1
    <3> QED BY <3>1, <3>2
  <2>2. PICK a, z : a = s[j] /\ z = node[s[j]].size /\ a \in Int /\ z \in Nat
    BY <1>2, SizeAssumption
  <2>3. a + z <= p \/ p + size <= a
    BY <1>3, <2>1, <2>2
  <2>4. Log!Cells(c[i]) = a .. a + z - 1 /\ Log!Cells(e) = p .. p + size - 1
    BY <1>2, <1>4, <2>1, <2>2 DEF Log!Cells, Entry
  <2>5. size \in Nat
    BY SizeAssumption
  <2>6. (a .. a + z - 1) \cap (p .. p + size - 1) = {}
    BY <2>2, <2>3, <2>5, Disjoint
  <2> QED BY <2>4, <2>6, Zenon
<1>10. Log!First = k + 1
  BY FirstIs
<1>11. /\ (k + 1) + x - 1 <= Len(L)
       /\ \A i \in k + 1 .. (k + 1) + x - 1 : L[i].st = "committed"
  <2>1. ASSUME NEW i \in k + 1 .. (k + 1) + x - 1 PROVE L[i].st = "committed"
    <3>1. i \in 1 .. len /\ i \in k + 1 .. k + x
      BY <1>2, <1>3
    <3> QED BY <1>2, <1>3, <3>1 DEF Entry
  <2> QED BY <1>2, <1>3, <2>1
<1>12. Log!Reserve(p, size, x)
  BY <1>1, <1>4, <1>6, <1>8, <1>9, <1>10, <1>11, Zenon DEF Log!Reserve
<1>13. x \in 0 .. Len(AgeLog)
  BY <1>1, <1>2, <1>3
<1> QED BY <1>3, <1>12, <1>13, Zenon DEF Log!Next

\* The log when one node changes its state.
LEMMA ChangedLog ==
    ASSUME NEW s, NEW len, NEW k, NEW l, Shaped(s, len, k), intact, intact',
           Shaped(s, len, l)', NEW j \in 1 .. len, NEW st, Changes(node, node', s, len, j, st)
    PROVE  AgeLog' = [AgeLog EXCEPT ![j].st = st]
<1>1. PICK L : L = AgeLog /\ L = Logged(node, s, len)
  BY LogIs
<1>2. L \in [1 .. len -> Entries] /\ \A i \in 1 .. len : L[i] = Entry(node, s[i])
  BY <1>1, LoggedIs
<1>3. PICK M : M = AgeLog' /\ M = [i \in 1 .. len |-> Entry(node', s[i])]
  <2>1. (AgeLog = Logged(node, s, len))'
    BY LogIsNext, Zenon
  <2> QED BY <2>1 DEF Logged
<1>4. ASSUME NEW i \in 1 .. len
      PROVE  M[i] = IF i = j THEN [L[i] EXCEPT !.st = st] ELSE L[i]
  BY <1>2, <1>3 DEF Changes, Entry
<1>5. M = [i \in 1 .. len |-> IF i = j THEN [L[i] EXCEPT !.st = st] ELSE L[i]]
  BY <1>3, <1>4
<1>6. [L EXCEPT ![j].st = st] = [i \in 1 .. len |-> IF i = j THEN [L[i] EXCEPT !.st = st] ELSE L[i]]
  BY <1>2
<1> QED BY <1>1, <1>3, <1>5, <1>6

\* The oldest node that is not being read is taken.
LEMMA ConsumeMaps ==
    ASSUME NEW s, NEW len, NEW k, Shaped(s, len, k), intact, intact', Consumed(s, len, k)
    PROVE  Log!Next
<1>1. /\ len \in Nat /\ k \in 0 .. len /\ Len(AgeLog) = len
      /\ \A i \in 1 .. len : AgeLog[i] = Entry(node, s[i])
  BY LogIs, LoggedIs
<1>2. k + 1 \in 1 .. len /\ k < len
  BY <1>1 DEF Consumed
<1>3. AgeLog' = [AgeLog EXCEPT ![k + 1].st = "reading"]
  BY <1>2, ChangedLog DEF Consumed
<1>4. AgeLog[k + 1].st = "committed" /\ k + 1 <= Len(AgeLog)
  BY <1>1, <1>2 DEF Consumed, Entry
<1>5. Log!First = k + 1
  BY FirstIs
<1> QED BY <1>3, <1>4, <1>5, Zenon DEF Log!Next, Log!Consume

\* A writer is done.
LEMMA CommitMaps ==
    ASSUME NEW s, NEW len, NEW k, Shaped(s, len, k), intact, intact',
           NEW j \in 1 .. len, Committed(s, len, k, j)
    PROVE  Log!Next
<1>1. Len(AgeLog) = len /\ \A i \in 1 .. len : AgeLog[i] = Entry(node, s[i])
  BY LogIs, LoggedIs
<1>2. AgeLog' = [AgeLog EXCEPT ![j].st = "committed"]
  BY ChangedLog DEF Committed
<1>3. AgeLog[j].st = "writing" /\ j \in 1 .. Len(AgeLog)
  BY <1>1 DEF Committed, Entry
<1> QED BY <1>2, <1>3, Zenon DEF Log!Next, Log!Commit

\* A reader gives back the newest node that is being read.
LEMMA GiveBackMaps ==
    ASSUME NEW s, NEW len, NEW k, Shaped(s, len, k), intact, intact', GivenBack(s, len, k)
    PROVE  Log!Next
<1>1. k \in 1 .. len
  BY LoggedIs DEF GivenBack
<1>2. AgeLog' = [AgeLog EXCEPT ![k].st = "committed"]
  BY <1>1, ChangedLog DEF GivenBack
<1>3. Log!First - 1 = k /\ Log!Reading # {}
  BY <1>1, FirstIs DEF GivenBack
<1> QED BY <1>2, <1>3, Zenon DEF Log!Next, Log!GiveBack

\* A writer gives up, or a reader is done.
LEMMA DropMaps ==
    ASSUME NEW s, NEW len, NEW k, Shaped(s, len, k), intact, intact',
           NEW j \in 1 .. len, Dropped(s, len, k, j)
    PROVE  Log!Next
<1>1. PICK L : L = AgeLog /\ L = Logged(node, s, len)
  BY LogIs
<1>2. /\ len \in Nat /\ L \in [1 .. len -> Entries] /\ Len(L) = len
      /\ \A i \in 1 .. len : L[i] = Entry(node, s[i])
  BY <1>1, LoggedIs
<1>3. PICK t, l : /\ t = Removed(s, len, j) /\ l = (IF j <= k THEN k - 1 ELSE k)
                  /\ Shaped(t, len - 1, l)'
  BY DEF Dropped
<1>4. AgeLog' = [i \in 1 .. len - 1 |-> Entry(node', t[i])]
  <2>1. (AgeLog = Logged(node, t, len - 1))'
    BY <1>3, LogIsNext, Zenon
  <2> QED BY <2>1 DEF Logged
<1>5. ASSUME NEW i \in 1 .. len, i # j PROVE Entry(node', s[i]) = L[i]
  BY <1>2, <1>5 DEF Dropped, Keeps, Entry
<1>6. ASSUME NEW i \in 1 .. len - 1
      PROVE  Entry(node', t[i]) = IF i < j THEN L[i] ELSE L[i + 1]
  <2>1. t[i] = IF i < j THEN s[i] ELSE s[i + 1]
    BY <1>3 DEF Removed
  <2>2. i \in 1 .. len /\ i + 1 \in 1 .. len /\ (i < j => i # j) /\ (~(i < j) => i + 1 # j)
    BY <1>2
  <2> QED BY <1>5, <2>1, <2>2
<1>7. AgeLog' = SubSeq(L, 1, j - 1) \o SubSeq(L, j + 1, Len(L))
  <2>1. SubSeq(L, 1, j - 1) \o SubSeq(L, j + 1, Len(L)) =
            [i \in 1 .. len - 1 |-> IF i < j THEN L[i] ELSE L[i + 1]]
    <3>1. IsDropped(L, len, j, SubSeq(L, 1, j - 1) \o SubSeq(L, j + 1, Len(L)))
      BY <1>2, DroppedLog, Zenon
    <3> QED BY <3>1, Zenon DEF IsDropped
  <2> QED BY <1>4, <1>6, <2>1
<1>8. L[j].st \in {"writing", "reading"} /\ j \in 1 .. Len(L)
  BY <1>2 DEF Dropped, Entry
<1> QED BY <1>1, <1>7, <1>8, Zenon DEF Log!Next, Log!Drop, Log!RemoveAt

\* Every call is a step of the log.
LEMMA NextMaps == IInv /\ [Next]_vars => [intact' => Log!Next]_vars
<1> SUFFICES ASSUME IInv, Next, intact' PROVE Log!Next
  OBVIOUS
<1>1. intact
  BY DEF Next
<1>2. PICK s, len, k : Shaped(s, len, k) /\ Null \notin Live
  BY <1>1, InvIsShaped, Zenon
<1>3. Moves(s, len, k)
  BY <1>2, NextMoves, Zenon
<1>4. (\E size \in Size, x \in Nat, p \in Nat : Reserved(s, len, k, x, p, size)) => Log!Next
  BY <1>1, <1>2, ReserveMaps, Zenon
<1>5. Consumed(s, len, k) \/ GivenBack(s, len, k) => Log!Next
  BY <1>1, <1>2, ConsumeMaps, GiveBackMaps, Zenon
<1>6. (\E j \in 1 .. len : Committed(s, len, k, j) \/ Dropped(s, len, k, j)) => Log!Next
  BY <1>1, <1>2, CommitMaps, DropMaps, Zenon
<1> QED BY <1>3, <1>4, <1>5, <1>6, Zenon DEF Moves

\* The empty buffer is the empty log.
LEMMA InitMaps == Init => Log!Init
<1> SUFFICES ASSUME Init PROVE Log!Init
  OBVIOUS
<1>1. intact /\ DOMAIN node = {}
  BY DEF Init
<1>2. PICK s, len, k : Shaped(s, len, k)
  BY <1>1, InitInv, InvIsShaped, Zenon
<1>3. len = 0
  <2>1. len \in Nat /\ s \in [1 .. len -> {}]
    BY <1>1, <1>2 DEF Shaped, Shape, Order
  <2>2. len > 0 => 1 \in 1 .. len
    BY <2>1
  <2> QED BY <2>1, <2>2
<1>4. AgeLog = Logged(node, s, len)
  BY <1>1, <1>2, LogIs, Zenon
<1> QED BY <1>3, <1>4 DEF Log!Init, Logged

\* The ring buffer implements the log of RingLog, as long as no overwrite takes the
\* newest node: data is read in the order of its reservation, and only the oldest
\* committed data that nobody holds is lost, to a node that overlaps no other.
THEOREM RingIsLog == Spec => ImplementsLog
<1>1. Spec => []IInv
  BY InitInv, NextInv, PTL DEF Spec
<1> QED BY <1>1, InitMaps, NextMaps, PTL DEF Spec, ImplementsLog
=============================================================================
