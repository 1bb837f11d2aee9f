----------------------------- MODULE RingBuffer -----------------------------
(***************************************************************************)
(* The ring buffer of the PowerPack (ringbuffer.c): nodes of different     *)
(* sizes in one array, linked twice, by position (a ring) and by age (a    *)
(* chain from TAIL to HEAD), with reserve, overwrite, consume and commit.  *)
(*                                                                         *)
(* Memory is counted in machine words, to which every node is aligned.  A  *)
(* node is named by its first word; node is defined on the nodes in use,   *)
(* so a stale pointer that is followed has no value.                       *)
(***************************************************************************)
EXTENDS Integers, FiniteSets, FiniteSetsExt, Functions

CONSTANTS
    Capacity,   \* config.capacity
    Size,       \* sizes of the nodes that are reserved, header included
    Null

ASSUME CapacityAssumption == Capacity \in Nat
ASSUME SizeAssumption == Size \subseteq Nat \ {0}
ASSUME NullAssumption == Null \notin Int

VARIABLES
    node,           \* node[a]: fwd, bwd, newer, older, st and size of node a
    HEAD,           \* the newest node
    TAIL,           \* the oldest node
    oldest_reserve, \* the oldest node that is not being read
    counter,        \* the number of nodes in each state
    intact          \* history: FALSE after an overwrite that took the HEAD

vars == <<node, HEAD, TAIL, oldest_reserve, counter, intact>>

Address == 0 .. Capacity - 1
State == {"writing", "committed", "reading"}
Live == DOMAIN node
End(a) == a + node[a].size
NoCount == [st \in State |-> 0]

Init ==
    /\ node = << >>
    /\ HEAD = Null /\ TAIL = Null /\ oldest_reserve = Null
    /\ counter = NoCount
    /\ intact = TRUE

-----------------------------------------------------------------------------
\* Chains.  An operator below takes the nodes n and returns them relinked.

\* b becomes the right neighbour of a.
Link(n, a, b) == [n EXCEPT ![a].fwd = b, ![b].bwd = a]

\* w becomes the successor of o in age; either may be Null.
Follow(n, o, w) ==
    [a \in DOMAIN n |-> [n[a] EXCEPT !.newer = IF a = o THEN w ELSE @,
                                     !.older = IF a = w THEN o ELSE @]]

\* A new node p, not linked yet.
With(n, p, size) ==
    [a \in DOMAIN n \cup {p} |->
        IF a = p THEN [fwd |-> p, bwd |-> p, newer |-> Null, older |-> Null,
                       st |-> "writing", size |-> size]
        ELSE n[a]]

\* _ring_buffer_reserve_empty: the only node, at the start of the array.
OnlyNode(size, count) ==
    /\ size <= Capacity
    /\ node' = With(<< >>, 0, size)
    /\ HEAD' = 0 /\ TAIL' = 0 /\ oldest_reserve' = 0
    /\ counter' = [count EXCEPT !["writing"] = @ + 1]
    /\ UNCHANGED intact

ReserveEmpty(size) == TAIL = Null /\ OnlyNode(size, counter)

-----------------------------------------------------------------------------
\* eaf_ringbuffer_reserve

\* Where a node of this size fits without overwriting: right of HEAD, or, when
\* HEAD is the rightmost node, at the start of the array.
PlaceTight(size) ==              \* faulty: compares the end with the capacity
    LET right == End(HEAD)
        next == node[HEAD].fwd
    IN  IF next > HEAD
        THEN {p \in {right} : p < next}
        ELSE IF right < Capacity THEN {right} ELSE {p \in {0} : size <= next}
Place(size) ==
    LET right == End(HEAD)
        next == node[HEAD].fwd
    IN  IF next > HEAD
        THEN {p \in {right} : size <= next - p}
        ELSE IF size <= Capacity - right THEN {right}
             ELSE {p \in {0} : size <= next}

ReserveFree(size) ==
    /\ TAIL # Null
    /\ \E p \in Place(size) :
          LET n == With(node, p, size) IN
          /\ node' = Follow(Link(Link(n, p, node[HEAD].fwd), HEAD, p), HEAD, p)
          /\ HEAD' = p
          /\ oldest_reserve' = IF oldest_reserve = Null THEN p ELSE oldest_reserve
    /\ counter' = [counter EXCEPT !["writing"] = @ + 1]
    /\ UNCHANGED <<TAIL, intact>>

\* An overwrite begins at the oldest committed node, or in the gap left of it,
\* and goes on to the right as long as the nodes are committed and adjacent in
\* age as well.
StartPoint ==
    LET left == node[oldest_reserve].bwd
    IN  IF left < oldest_reserve THEN End(left) ELSE 0

Run(e) ==
    /\ e >= oldest_reserve
    /\ \A a \in Live : a \in oldest_reserve .. e - 1 =>
          /\ node[a].fwd > a
          /\ node[a].fwd = node[a].newer
          /\ node[node[a].fwd].st = "committed"

\* The ends of the runs that are large enough; the loop stops at the first.
Ends(size) == {e \in Live : Run(e) /\ End(e) - StartPoint >= size}

OverwriteNeeded(size) ==
    /\ TAIL # Null /\ Place(size) = {}
    /\ oldest_reserve # Null /\ node[oldest_reserve].st = "committed"

\* _ring_buffer_reserve_try_overwrite with a single node in the buffer.
OverwriteOnly(size) ==
    /\ OverwriteNeeded(size)
    /\ node[oldest_reserve].fwd = oldest_reserve
    /\ OnlyNode(size, NoCount)

\* _ring_buffer_perform_overwrite.  With the HEAD among the nodes that are lost
\* there is no newer node left, and TAIL or oldest_reserve is Null although the
\* buffer holds the new node, whose chains refer to overwritten memory.
Lost(first, last) == Cardinality({a \in Live : a \in first .. last})

Overwrite(size) ==
    /\ OverwriteNeeded(size)
    /\ node[oldest_reserve].fwd # oldest_reserve
    /\ Ends(size) # {}
    /\ LET first == oldest_reserve
           last == Min(Ends(size))
           newer == node[last].newer
           p == StartPoint
           kept == Restrict(With(node, p, size), {p} \cup (Live \ (first .. last)))
       IN  /\ TAIL' = IF TAIL = first THEN newer ELSE TAIL
           /\ oldest_reserve' = newer
           /\ intact' = (newer # Null)
           /\ node' = IF newer = Null THEN kept
                      ELSE Follow(Follow(Link(Link(kept, p, node[last].fwd), node[first].bwd, p),
                                         node[first].older, newer), HEAD, p)
           /\ HEAD' = p
           /\ counter' = [counter EXCEPT !["committed"] = @ - Lost(first, last),
                                         !["writing"] = @ + 1]

-----------------------------------------------------------------------------
\* eaf_ringbuffer_consume

Consume ==
    /\ oldest_reserve # Null /\ node[oldest_reserve].st = "committed"
    /\ counter' = [counter EXCEPT !["committed"] = @ - 1, !["reading"] = @ + 1]
    /\ node' = [node EXCEPT ![oldest_reserve].st = "reading"]
    /\ oldest_reserve' = node[oldest_reserve].newer
    /\ UNCHANGED <<HEAD, TAIL, intact>>

-----------------------------------------------------------------------------
\* eaf_ringbuffer_commit; a token is held by the user who got it.

\* _ring_buffer_delete_node
HeadAfter(a) ==
    IF node[a].older # Null /\ node[a].newer = Null THEN node[a].older ELSE HEAD

DeleteNode(a, count) ==
    IF node[a].fwd = a
    THEN /\ node' = << >>
         /\ HEAD' = Null /\ TAIL' = Null /\ oldest_reserve' = Null
         /\ counter' = NoCount
    ELSE /\ node' = Restrict(Follow(Link(node, node[a].bwd, node[a].fwd),
                                    node[a].older, node[a].newer), Live \ {a})
         /\ HEAD' = HeadAfter(a)
         /\ TAIL' = IF node[a].older = Null THEN node[a].newer ELSE TAIL
         /\ oldest_reserve' = IF oldest_reserve = a THEN node[a].newer ELSE oldest_reserve
         /\ counter' = count

CommitWrite(a) ==
    /\ node[a].st = "writing"
    /\ node' = [node EXCEPT ![a].st = "committed"]
    /\ counter' = [counter EXCEPT !["writing"] = @ - 1, !["committed"] = @ + 1]
    /\ UNCHANGED <<HEAD, TAIL, oldest_reserve, intact>>

DiscardWrite(a) ==
    /\ node[a].st = "writing"
    /\ DeleteNode(a, [counter EXCEPT !["writing"] = @ - 1])
    /\ UNCHANGED intact

CommitRead(a) ==
    /\ node[a].st = "reading"
    /\ DeleteNode(a, [counter EXCEPT !["reading"] = @ - 1])
    /\ UNCHANGED intact

\* A reading node goes back only if no newer node is being read; with the flag
\* abandon it is dropped instead, which is CommitRead.
MayGiveBackAlways(a) == TRUE     \* faulty: older data may come after newer
MayGiveBack(a) == node[a].newer # Null => node[node[a].newer].st # "reading"

DiscardRead(a) ==
    /\ node[a].st = "reading"
    /\ MayGiveBack(a)
    /\ node' = [node EXCEPT ![a].st = "committed"]
    /\ counter' = [counter EXCEPT !["reading"] = @ - 1, !["committed"] = @ + 1]
    /\ oldest_reserve' =
          IF \/ node[a].newer = Null
             \/ oldest_reserve # Null /\ node[oldest_reserve].older = a
          THEN a ELSE oldest_reserve
    /\ UNCHANGED <<HEAD, TAIL, intact>>

\* A call that returns NULL or -1 changes nothing.  Nothing is said of calls on
\* a buffer whose chains refer to overwritten memory.
Next ==
    /\ intact
    /\ \/ \E size \in Size : ReserveEmpty(size) \/ ReserveFree(size)
                             \/ OverwriteOnly(size) \/ Overwrite(size)
       \/ Consume
       \/ \E a \in Live : CommitWrite(a) \/ DiscardWrite(a)
                          \/ CommitRead(a) \/ DiscardRead(a)

Spec == Init /\ [][Next]_vars
=============================================================================
