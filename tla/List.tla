-------------------------------- MODULE List --------------------------------
(***************************************************************************)
(* list.c: the doubly linked list through nodes that the user owns.  A     *)
(* node is in at most one of the lists, and an erase must name the list    *)
(* the node is in; the links of an erased node stay as they were.          *)
(***************************************************************************)
EXTENDS Integers

CONSTANTS
    Handler,    \* the lists
    Item,       \* the nodes
    NONE        \* no node

\* A missing node is none of the nodes, a missing list none of the lists.
ASSUME ListAssumption == NONE \notin Item /\ NONE \notin Handler

VARIABLES
    head, tail, size,   \* the fields of each list
    after, before,      \* p_after and p_before of each node
    owner               \* which list a node was put into, or NONE: the user's side

listVars == <<head, tail, size, after, before, owner>>

ListInit ==
    /\ head = [h \in Handler |-> NONE]
    /\ tail = [h \in Handler |-> NONE]
    /\ size = [h \in Handler |-> 0]
    /\ after = [x \in Item |-> NONE]
    /\ before = [x \in Item |-> NONE]
    /\ owner = [x \in Item |-> NONE]

\* The user gives x to h.
Give(h, x) ==
    /\ owner[x] = NONE
    /\ owner' = [owner EXCEPT ![x] = h]

\* The first node of a list.
SetOnceStale(h, x) ==               \* faulty: the links of the node stay as they were
    /\ head' = [head EXCEPT ![h] = x]
    /\ tail' = [tail EXCEPT ![h] = x]
    /\ size' = [size EXCEPT ![h] = 1]
    /\ UNCHANGED <<after, before>>
SetOnce(h, x) ==
    /\ head' = [head EXCEPT ![h] = x]
    /\ tail' = [tail EXCEPT ![h] = x]
    /\ size' = [size EXCEPT ![h] = 1]
    /\ after' = [after EXCEPT ![x] = NONE]
    /\ before' = [before EXCEPT ![x] = NONE]

LinkBack(h, x) ==
    \/ head[h] = NONE /\ SetOnce(h, x)
    \/ /\ head[h] # NONE
       /\ after' = [after EXCEPT ![x] = NONE, ![tail[h]] = x]
       /\ before' = [before EXCEPT ![x] = tail[h]]
       /\ tail' = [tail EXCEPT ![h] = x]
       /\ size' = [size EXCEPT ![h] = @ + 1]
       /\ UNCHANGED head

LinkFront(h, x) ==
    \/ head[h] = NONE /\ SetOnce(h, x)
    \/ /\ head[h] # NONE
       /\ before' = [before EXCEPT ![x] = NONE, ![head[h]] = x]
       /\ after' = [after EXCEPT ![x] = head[h]]
       /\ head' = [head EXCEPT ![h] = x]
       /\ size' = [size EXCEPT ![h] = @ + 1]
       /\ UNCHANGED tail

PushBack(h, x) == Give(h, x) /\ LinkBack(h, x)
PushFront(h, x) == Give(h, x) /\ LinkFront(h, x)

InsertBefore(h, pos, x) ==
    /\ owner[pos] = h
    /\ Give(h, x)
    /\ \/ head[h] = pos /\ LinkFront(h, x)
       \/ /\ head[h] # pos
          /\ before' = [before EXCEPT ![x] = before[pos], ![pos] = x]
          /\ after' = [after EXCEPT ![x] = pos, ![before[pos]] = x]
          /\ size' = [size EXCEPT ![h] = @ + 1]
          /\ UNCHANGED <<head, tail>>

InsertAfterBefore(h, pos, x) == InsertBefore(h, pos, x)     \* faulty: on the other side
InsertAfter(h, pos, x) ==
    /\ owner[pos] = h
    /\ Give(h, x)
    /\ \/ tail[h] = pos /\ LinkBack(h, x)
       \/ /\ tail[h] # pos
          /\ before' = [before EXCEPT ![x] = pos, ![after[pos]] = x]
          /\ after' = [after EXCEPT ![x] = after[pos], ![pos] = x]
          /\ size' = [size EXCEPT ![h] = @ + 1]
          /\ UNCHANGED <<head, tail>>

\* The four cases of eaf_list_erase: the only node, the first, the last, another.
UnlinkItem(h, x) ==
    /\ size' = [size EXCEPT ![h] = @ - 1]
    /\ \/ /\ head[h] = x /\ tail[h] = x
          /\ head' = [head EXCEPT ![h] = NONE]
          /\ tail' = [tail EXCEPT ![h] = NONE]
          /\ UNCHANGED <<after, before>>
       \/ /\ head[h] = x /\ tail[h] # x
          /\ before' = [before EXCEPT ![after[x]] = NONE]
          /\ head' = [head EXCEPT ![h] = after[x]]
          /\ UNCHANGED <<tail, after>>
       \/ /\ head[h] # x /\ tail[h] = x
          /\ after' = [after EXCEPT ![before[x]] = NONE]
          /\ tail' = [tail EXCEPT ![h] = before[x]]
          /\ UNCHANGED <<head, before>>
       \/ /\ head[h] # x /\ tail[h] # x
          /\ after' = [after EXCEPT ![before[x]] = after[x]]
          /\ before' = [before EXCEPT ![after[x]] = before[x]]
          /\ UNCHANGED <<head, tail>>

\* eaf_list_erase, and the pops, which erase the head or the tail.
EraseItem(h, x) ==
    /\ owner[x] = h
    /\ owner' = [owner EXCEPT ![x] = NONE]
    /\ UnlinkItem(h, x)
PopFront(h) == head[h] # NONE /\ EraseItem(h, head[h])
PopBack(h) == tail[h] # NONE /\ EraseItem(h, tail[h])

ListNext ==
    \E h \in Handler :
        \/ PopFront(h) \/ PopBack(h)
        \/ \E x \in Item :
              \/ PushBack(h, x) \/ PushFront(h, x) \/ EraseItem(h, x)
              \/ \E pos \in Item : InsertBefore(h, pos, x) \/ InsertAfter(h, pos, x)

ListSpec == ListInit /\ [][ListNext]_listVars

=============================================================================
