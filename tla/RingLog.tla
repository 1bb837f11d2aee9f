------------------------------ MODULE RingLog ------------------------------
(***************************************************************************)
(* What the ring buffer promises, without addresses in order, chains or    *)
(* counters: a log of nodes from the oldest to the newest, of which the    *)
(* nodes being read are the oldest.  Data is consumed in the order of its  *)
(* reservation; only the oldest data that nobody holds may be lost, and    *)
(* only to make room for a new node; two nodes never share memory.         *)
(***************************************************************************)
EXTENDS Integers, Sequences, SequencesExt

CONSTANTS Address, Size

VARIABLE log    \* a sequence of [pos, size, st]

Cells(e) == e.pos .. e.pos + e.size - 1
Reading == {i \in 1 .. Len(log) : log[i].st = "reading"}
\* The place of the first node that is not being read.
First == IF Reading = {} THEN 1 ELSE Max(Reading) + 1

Init == log = <<>>

\* A node is appended; up to it, k committed nodes from First on are lost.
Reserve(p, s, k) ==
    LET kept == SubSeq(log, 1, First - 1) \o SubSeq(log, First + k, Len(log))
        e == [pos |-> p, size |-> s, st |-> "writing"]
    IN  /\ First + k - 1 <= Len(log)
        /\ \A i \in First .. First + k - 1 : log[i].st = "committed"
        /\ \A i \in 1 .. Len(kept) : Cells(kept[i]) \cap Cells(e) = {}
        /\ log' = Append(kept, e)

\* The oldest node that is not being read is taken, once it is committed.
Consume ==
    /\ First <= Len(log)
    /\ log[First].st = "committed"
    /\ log' = [log EXCEPT ![First].st = "reading"]

Commit(i) ==
    /\ log[i].st = "writing"
    /\ log' = [log EXCEPT ![i].st = "committed"]

\* A writer gives up, or a reader is done.
Drop(i) ==
    /\ log[i].st \in {"writing", "reading"}
    /\ log' = RemoveAt(log, i)

\* A reader gives its node back, which must be the newest one being read.
GiveBack ==
    /\ Reading # {}
    /\ log' = [log EXCEPT ![First - 1].st = "committed"]

Next ==
    \/ \E p \in Address, s \in Size, k \in 0 .. Len(log) : Reserve(p, s, k)
    \/ Consume \/ GiveBack
    \/ \E i \in 1 .. Len(log) : Commit(i) \/ Drop(i)

Spec == Init /\ [][Next]_log
=============================================================================
