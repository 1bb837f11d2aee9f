----------------------------- MODULE QueueLemmas -----------------------------
(***************************************************************************)
(* What several proofs need of the library's facts.  Natural numbers: a    *)
(* least element, and induction for a set.  Sequences: a part of one, and  *)
(* one cut where a part was.  A queue that holds each element once, seen   *)
(* as a set: what it holds after an element was appended, taken from the   *)
(* front, or erased.                                                       *)
(***************************************************************************)
EXTENDS Integers, SequencesExt, TLAPS, SequenceTheorems, WellFoundedInduction

-----------------------------------------------------------------------------
\* Natural numbers

\* A set of natural numbers that is not empty has a least element.
LEMMA LeastOf ==
    ASSUME NEW S \in SUBSET Nat, S # {}
    PROVE  \E n \in S : \A m \in S : n <= m
<1>1. IsWellFoundedOn(OpToRel(<, Nat), Nat)
  BY NatLessThanWellFounded
<1>2. PICK n \in S : \A m \in S : ~(<<m, n>> \in OpToRel(<, Nat))
  BY <1>1, WFMin
<1>3. \A m \in S : ~(m < n)
  BY <1>2 DEF OpToRel
<1> QED BY <1>3

\* Induction, for a set.
LEMMA Induct ==
    ASSUME NEW S, 0 \in S, \A n \in Nat : n \in S => n + 1 \in S
    PROVE  Nat \subseteq S
<1> SUFFICES ASSUME Nat \ S # {} PROVE FALSE
  OBVIOUS
<1>1. \A T \in SUBSET Nat : T # {} => \E n \in T : \A m \in T : n <= m
  BY LeastOf, Zenon
<1>2. PICK n \in Nat \ S : \A m \in Nat \ S : n <= m
  BY <1>1
<1>3. n # 0
  BY <1>2
<1>4. n - 1 \in Nat /\ n - 1 \in S
  BY <1>2, <1>3
<1> QED BY <1>2, <1>4

-----------------------------------------------------------------------------
\* Queues

Distinct(l) == \A i, j \in 1 .. Len(l) : l[i] = l[j] => i = j

\* Appending a new element (eaf_list_push_back).
LEMMA AppendSet ==
    ASSUME NEW S, NEW l \in Seq(S), NEW x \in S, x \notin ToSet(l), Distinct(l)
    PROVE  /\ Append(l, x) \in Seq(S) /\ Distinct(Append(l, x))
           /\ ToSet(Append(l, x)) = ToSet(l) \cup {x}
<1> DEFINE e == Append(l, x)
<1>1. /\ e \in Seq(S) /\ Len(e) = Len(l) + 1 /\ e[Len(l) + 1] = x
      /\ \A i \in 1 .. Len(l) : e[i] = l[i]
  BY AppendProperties
<1> HIDE DEF e
<1>2. \A i \in 1 .. Len(l) : l[i] # x
  BY DEF ToSet
<1>3. Distinct(e)
  BY <1>1, <1>2 DEF Distinct
<1>4. ToSet(e) = ToSet(l) \cup {x}
  BY <1>1 DEF ToSet
<1> QED BY <1>1, <1>3, <1>4 DEF e

\* Taking the oldest element (eaf_list_pop_front).
LEMMA TailSet ==
    ASSUME NEW S, NEW l \in Seq(S), l # <<>>, Distinct(l)
    PROVE  /\ Head(l) \in S /\ Head(l) \in ToSet(l)
           /\ Tail(l) \in Seq(S) /\ Distinct(Tail(l))
           /\ ToSet(Tail(l)) = ToSet(l) \ {Head(l)}
<1> DEFINE t == Tail(l)
<1>1. /\ t \in Seq(S) /\ Len(t) = Len(l) - 1 /\ Len(l) \in Nat \ {0}
      /\ \A i \in 1 .. Len(l) - 1 : t[i] = l[i + 1]
      /\ Head(l) = l[1]
  BY HeadTailProperties
<1> HIDE DEF t
<1>2. Head(l) \in S /\ Head(l) \in ToSet(l)
  BY <1>1 DEF ToSet
<1>3. Distinct(t)
  <2> SUFFICES ASSUME NEW i \in 1 .. Len(t), NEW j \in 1 .. Len(t), t[i] = t[j]
               PROVE  i = j
    BY DEF Distinct
  <2>1. i + 1 \in 1 .. Len(l) /\ j + 1 \in 1 .. Len(l) /\ l[i + 1] = l[j + 1]
    BY <1>1
  <2> QED BY <2>1 DEF Distinct
<1>4. ToSet(t) \subseteq ToSet(l) \ {Head(l)}
  <2> SUFFICES ASSUME NEW i \in 1 .. Len(t) PROVE t[i] \in ToSet(l) /\ t[i] # Head(l)
    BY DEF ToSet
  <2>1. i + 1 \in 1 .. Len(l) /\ t[i] = l[i + 1] /\ 1 \in 1 .. Len(l)
    BY <1>1
  <2> QED BY <1>1, <2>1 DEF ToSet, Distinct
<1>5. ToSet(l) \ {Head(l)} \subseteq ToSet(t)
  <2> SUFFICES ASSUME NEW i \in 1 .. Len(l), l[i] # l[1] PROVE l[i] \in ToSet(t)
    BY <1>1 DEF ToSet
  <2>1. i - 1 \in 1 .. Len(t) /\ t[i - 1] = l[i]
    BY <1>1
  <2> QED BY <1>1, <2>1 DEF ToSet
<1> QED BY <1>1, <1>2, <1>3, <1>4, <1>5 DEF t

\* Erasing the element at a place (eaf_list_erase).
LEMMA RemoveSet ==
    ASSUME NEW S, NEW l \in Seq(S), NEW k \in 1 .. Len(l), Distinct(l)
    PROVE  /\ RemoveAt(l, k) \in Seq(S) /\ Distinct(RemoveAt(l, k))
           /\ ToSet(RemoveAt(l, k)) = ToSet(l) \ {l[k]}
<1> DEFINE front == SubSeq(l, 1, k - 1)
           back == SubSeq(l, k + 1, Len(l))
           e == RemoveAt(l, k)
<1>1. front \in Seq(S) /\ Len(front) = k - 1 /\ \A i \in 1 .. k - 1 : front[i] = l[i]
  <2>1. \A i \in 1 .. k - 1 : l[i] \in S
    OBVIOUS
  <2> QED BY <2>1, SubSeqProperties
<1>2. /\ back \in Seq(S) /\ Len(back) = Len(l) - k
      /\ \A i \in 1 .. Len(l) - k : back[i] = l[k + i]
  <2>1. \A i \in k + 1 .. Len(l) : l[i] \in S
    OBVIOUS
  <2> QED BY <2>1, SubSeqProperties
<1>3. e = front \o back
  BY DEF RemoveAt
<1> HIDE DEF front, back, e
<1>4. /\ e \in Seq(S) /\ Len(e) = Len(l) - 1
      /\ \A i \in 1 .. Len(e) : e[i] = IF i < k THEN l[i] ELSE l[i + 1]
  <2>1. /\ front \o back \in Seq(S)
        /\ Len(front \o back) = Len(front) + Len(back)
        /\ \A i \in 1 .. Len(front) + Len(back) : (front \o back)[i] =
              IF i <= Len(front) THEN front[i] ELSE back[i - Len(front)]
    BY <1>1, <1>2, ConcatProperties, Zenon
  <2>2. Len(e) = Len(l) - 1 /\ e \in Seq(S)
    BY <1>1, <1>2, <1>3, <2>1
  <2>3. ASSUME NEW i \in 1 .. Len(e), i < k PROVE e[i] = l[i]
    BY <1>1, <1>2, <1>3, <2>1, <2>2, <2>3
  <2>4. ASSUME NEW i \in 1 .. Len(e), ~(i < k) PROVE e[i] = l[i + 1]
    <3>1. i - Len(front) \in 1 .. Len(l) - k /\ k + (i - Len(front)) = i + 1
      BY <1>1, <2>2, <2>4
    <3>2. e[i] = back[i - Len(front)]
      BY <1>1, <1>2, <1>3, <2>1, <2>2, <2>4
    <3> QED BY <1>2, <3>1, <3>2
  <2> QED BY <2>2, <2>3, <2>4
<1> DEFINE At(i) == IF i < k THEN i ELSE i + 1
<1>5. \A i \in 1 .. Len(e) : At(i) \in 1 .. Len(l) /\ At(i) # k /\ e[i] = l[At(i)]
  BY <1>4
<1>6. \A i, j \in 1 .. Len(e) : At(i) = At(j) => i = j
  BY <1>4
<1>7. Distinct(e)
  <2> HIDE DEF At
  <2> QED BY <1>5, <1>6 DEF Distinct
<1>8. ToSet(e) \subseteq ToSet(l) \ {l[k]}
  <2> HIDE DEF At
  <2> QED BY <1>5 DEF ToSet, Distinct
<1>9. \A i \in 1 .. Len(l) : i # k => \E j \in 1 .. Len(e) : e[j] = l[i]
  <2> SUFFICES ASSUME NEW i \in 1 .. Len(l), i # k PROVE \E j \in 1 .. Len(e) : e[j] = l[i]
    OBVIOUS
  <2>1. CASE i < k
    BY <1>4, <2>1
  <2>2. CASE i > k
    <3>1. i - 1 \in 1 .. Len(e) /\ e[i - 1] = l[i]
      BY <1>4, <2>2
    <3> QED BY <3>1
  <2> QED BY <2>1, <2>2
<1>10. ToSet(l) \ {l[k]} \subseteq ToSet(e)
  <2> SUFFICES ASSUME NEW x \in ToSet(l), x # l[k] PROVE x \in ToSet(e)
    OBVIOUS
  <2>1. DOMAIN l = 1 .. Len(l) /\ DOMAIN e = 1 .. Len(e)
    BY <1>4
  <2>2. PICK i \in 1 .. Len(l) : x = l[i]
    BY <2>1 DEF ToSet
  <2>3. PICK j \in 1 .. Len(e) : e[j] = x
    BY <1>9, <2>2
  <2> QED BY <2>1, <2>3 DEF ToSet
<1> QED BY <1>4, <1>7, <1>8, <1>10 DEF e

-----------------------------------------------------------------------------
\* Parts of sequences

\* The part of L from m to n.
LEMMA Part ==
    ASSUME NEW S, NEW len \in Nat, NEW L \in [1 .. len -> S], NEW m \in Int, m >= 1,
           NEW n \in Int, n <= len, m <= n + 1
    PROVE  /\ SubSeq(L, m, n) \in Seq(S) /\ Len(SubSeq(L, m, n)) = n - m + 1
           /\ \A i \in 1 .. n - m + 1 : SubSeq(L, m, n)[i] = L[m + i - 1]
<1>1. \A i \in m .. n : L[i] \in S
  OBVIOUS
<1>2. PICK a : a = SubSeq(L, m, n)
  OBVIOUS
<1>3. /\ a \in Seq(S) /\ Len(a) = (IF m <= n THEN n - m + 1 ELSE 0)
      /\ \A i \in 1 .. n - m + 1 : a[i] = L[m + i - 1]
  BY <1>1, <1>2, SubSeqProperties
<1>4. Len(a) = n - m + 1
  BY <1>3
<1> QED BY <1>2, <1>3, <1>4

\* c is what the first u elements of L, and those after the first v, make.
IsCut(c, S, L, len, u, v) ==
    /\ c \in Seq(S) /\ Len(c) = len - (v - u)
    /\ \A i \in 1 .. len - (v - u) : c[i] = IF i <= u THEN L[i] ELSE L[i + (v - u)]

\* Two parts of L, one after the other.
LEMMA Cutting ==
    ASSUME NEW S, NEW len \in Nat, NEW L \in [1 .. len -> S], NEW u \in 0 .. len,
           NEW v \in u .. len, NEW c, c = SubSeq(L, 1, u) \o SubSeq(L, v + 1, len)
    PROVE  IsCut(c, S, L, len, u, v)
<1>1. PICK a : a = SubSeq(L, 1, u)
  OBVIOUS
<1>2. a \in Seq(S) /\ Len(a) = u /\ \A i \in 1 .. u : a[i] = L[i]
  <2>1. 1 \in Int /\ 1 >= 1 /\ u \in Int /\ u <= len /\ 1 <= u + 1
    OBVIOUS
  <2>2. /\ a \in Seq(S) /\ Len(a) = u - 1 + 1
        /\ \A i \in 1 .. u - 1 + 1 : a[i] = L[1 + i - 1]
    BY <1>1, <2>1, Part
  <2>3. \A i \in 1 .. u : i \in 1 .. u - 1 + 1 /\ 1 + i - 1 = i
    OBVIOUS
  <2> QED BY <2>2, <2>3
<1>3. PICK b : b = SubSeq(L, v + 1, len)
  OBVIOUS
<1>4. b \in Seq(S) /\ Len(b) = len - v /\ \A i \in 1 .. len - v : b[i] = L[v + i]
  <2>1. v + 1 \in Int /\ v + 1 >= 1 /\ len \in Int /\ len <= len /\ v + 1 <= len + 1
    OBVIOUS
  <2>2. /\ b \in Seq(S) /\ Len(b) = len - (v + 1) + 1
        /\ \A i \in 1 .. len - (v + 1) + 1 : b[i] = L[(v + 1) + i - 1]
    BY <1>3, <2>1, Part
  <2>3. \A i \in 1 .. len - v : i \in 1 .. len - (v + 1) + 1 /\ (v + 1) + i - 1 = v + i
    OBVIOUS
  <2>4. len - (v + 1) + 1 = len - v
    OBVIOUS
  <2> QED BY <2>2, <2>3, <2>4
<1>5. c = a \o b
  BY <1>1, <1>3
<1>6. /\ c \in Seq(S) /\ Len(c) = u + (len - v)
      /\ \A i \in 1 .. u + (len - v) : c[i] = IF i <= u THEN a[i] ELSE b[i - u]
  <2>1. /\ c \in Seq(S) /\ Len(c) = Len(a) + Len(b)
        /\ \A i \in 1 .. Len(a) + Len(b) : c[i] = IF i <= Len(a) THEN a[i] ELSE b[i - Len(a)]
    <3>1. a \in Seq(S) /\ b \in Seq(S)
      BY <1>2, <1>4
    <3>2. /\ a \o b \in Seq(S) /\ Len(a \o b) = Len(a) + Len(b)
          /\ \A i \in 1 .. Len(a) + Len(b) :
                (a \o b)[i] = IF i <= Len(a) THEN a[i] ELSE b[i - Len(a)]
      BY <3>1, ConcatProperties, Zenon
    <3> QED BY <1>5, <3>2, Zenon
  <2>2. Len(a) = u /\ Len(b) = len - v
    BY <1>2, <1>4
  <2> QED BY <2>1, <2>2, Zenon
<1>7. ASSUME NEW i \in 1 .. len - (v - u)
      PROVE  c[i] = IF i <= u THEN L[i] ELSE L[i + (v - u)]
  <2>1. i \in 1 .. u + (len - v)
    OBVIOUS
  <2>2. CASE i <= u
    <3>1. i \in 1 .. u
      BY <2>2
    <3> QED BY <1>2, <1>6, <2>1, <2>2, <3>1
  <2>3. CASE ~(i <= u)
    <3>1. i - u \in 1 .. len - v /\ v + (i - u) = i + (v - u)
      BY <2>1, <2>3
    <3>2. b[i - u] = L[v + (i - u)]
      BY <1>4, <3>1
    <3> QED BY <1>6, <2>1, <2>3, <3>1, <3>2
  <2> QED BY <2>2, <2>3
<1>8. len - (v - u) = u + (len - v)
  OBVIOUS
<1> QED BY <1>6, <1>7, <1>8 DEF IsCut
=============================================================================
