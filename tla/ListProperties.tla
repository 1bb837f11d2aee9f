--------------------------- MODULE ListProperties ---------------------------
(***************************************************************************)
(* What should hold of the lists: each is one chain in both directions,    *)
(* and every operation does to that chain what it does to a sequence.      *)
(***************************************************************************)
EXTENDS List, FiniteSets, Sequences, SequencesExt

\* The nodes met from x on along a link, as many as the list says it has.
Walk(h, x, link) ==
    LET at[i \in 1 .. size[h]] == IF i = 1 THEN x
                                  ELSE LET prev == at[i - 1]
                                       IN  IF prev = NONE THEN NONE ELSE link[prev]
    IN  [i \in 1 .. size[h] |-> at[i]]
Contents(h) == Walk(h, head[h], after)

\* The chain of every list has exactly the nodes that were put into it, from head
\* to tail and back again; an emptied list has neither.
ChainsSound ==
    \A h \in Handler :
        LET s == Contents(h)
        IN  /\ size[h] = Cardinality({x \in Item : owner[x] = h})
            /\ ToSet(s) = {x \in Item : owner[x] = h}
            /\ Reverse(s) = Walk(h, tail[h], before)
            /\ s = <<>> => head[h] = NONE /\ tail[h] = NONE
            /\ s # <<>> => after[tail[h]] = NONE /\ before[head[h]] = NONE

PlaceOf(s, x) == CHOOSE i \in 1 .. Len(s) : s[i] = x

\* Each operation has its meaning on sequences, and touches no other list.
OperationsExact ==
    [][\A h \in Handler, x \in Item :
          LET s == Contents(h)
              t == Contents(h)'
          IN  /\ PushBack(h, x) => t = Append(s, x)
              /\ PushFront(h, x) => t = <<x>> \o s
              /\ \A pos \in Item :
                    /\ InsertBefore(h, pos, x) => t = InsertAt(s, PlaceOf(s, pos), x)
                    /\ InsertAfter(h, pos, x) => t = InsertAt(s, PlaceOf(s, pos) + 1, x)
              /\ EraseItem(h, x) => t = RemoveAt(s, PlaceOf(s, x))
              /\ owner[x] # h /\ owner[x]' # h /\ t # s =>
                    \E y \in Item : h \in {owner[y], owner[y]'} /\ owner[y] # owner[y]'
      ]_listVars
=============================================================================
