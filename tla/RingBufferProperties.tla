------------------------ MODULE RingBufferProperties ------------------------
(***************************************************************************)
(* What should hold of the ring buffer, the promise of RingLog, and what   *)
(* its header says and an overwrite of the newest node breaks.             *)
(***************************************************************************)
EXTENDS RingBuffer, Sequences

\* No stale pointer: every link of a node in use, HEAD, TAIL and oldest_reserve
\* name nodes in use, whatever was deleted or overwritten meanwhile.
Node(S) == [fwd : S, bwd : S, newer : S \cup {Null}, older : S \cup {Null},
            st : State, size : Size]
TypeOK ==
    /\ Live \subseteq Address
    /\ counter \in [State -> Int]
    /\ intact \in BOOLEAN
    /\ intact => /\ node \in [Live -> Node(Live)]
                 /\ {HEAD, TAIL, oldest_reserve} \subseteq Live \cup {Null}

\* No two users share memory: the nodes in use, each from its first word to the
\* end of its data, are disjoint and inside the array, also after an overwrite.
NoOverlap ==
    /\ \A a \in Live : End(a) <= Capacity
    /\ \A a, b \in Live : a < b => End(a) <= b

\* chain_pos links the nodes in use, and only them, in the order of their
\* addresses, and the last one to the first.
RightOf(a) == IF \E b \in Live : b > a THEN Min({b \in Live : b > a}) ELSE Min(Live)
PositionRing == \A a \in Live : node[a].fwd = RightOf(a) /\ node[RightOf(a)].bwd = a

\* chain_time leads from TAIL through every node in use to HEAD.
ByAge ==
    LET nth[i \in 1 .. Cardinality(Live)] == IF i = 1 THEN TAIL ELSE node[nth[i - 1]].newer
    IN  [i \in 1 .. Cardinality(Live) |-> nth[i]]
AgeChain ==
    IF Live = {} THEN HEAD = Null /\ TAIL = Null
    ELSE /\ {ByAge[i] : i \in DOMAIN ByAge} = Live
         /\ ByAge[Cardinality(Live)] = HEAD
         /\ node[TAIL].older = Null /\ node[HEAD].newer = Null
         /\ \A a \in Live \ {HEAD} : node[node[a].newer].older = a

\* oldest_reserve is the oldest node that is not being read, and the nodes being
\* read are the oldest ones: data is given to the readers in its order.
OldestIsExact ==
    \A i \in DOMAIN ByAge :
        /\ node[ByAge[i]].st = "reading" <=>
              oldest_reserve = Null \/ \E j \in DOMAIN ByAge : j > i /\ ByAge[j] = oldest_reserve
ChainsAgree == intact => NoOverlap /\ PositionRing /\ AgeChain /\ OldestIsExact

\* eaf_ringbuffer_count reports what is in the buffer, whatever was overwritten,
\* discarded or given back.
CountersExact ==
    intact => \A st \in State : counter[st] = Cardinality({a \in Live : node[a].st = st})

\* The structure is sound after every operation: no stale pointer, both chains and
\* the counters agree with the nodes in use.
StructureSound == TypeOK /\ ChainsAgree /\ CountersExact

\* The ring buffer implements RingLog, up to an overwrite of the newest node:
\* data is read in order, and only the oldest data nobody holds is lost.
AgeLog ==
    IF intact
    THEN [i \in DOMAIN ByAge |-> [pos |-> ByAge[i], size |-> node[ByAge[i]].size,
                                  st |-> node[ByAge[i]].st]]
    ELSE << >>
Log == INSTANCE RingLog WITH log <- AgeLog
ImplementsLog == Log!Init /\ [][intact' => Log!Next]_vars

-----------------------------------------------------------------------------
\* ringbuffer.h:99: "If the token was created by #eaf_ringbuffer_reserve, then
\* this token can be consumed by #eaf_ringbuffer_consume": a new token is found
\* again, so oldest_reserve is set while a node is being written.
ReservedCanBeConsumed ==
    (\E a \in Live : node[a].st = "writing") => oldest_reserve # Null

=============================================================================
