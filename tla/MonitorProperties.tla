-------------------------- MODULE MonitorProperties --------------------------
(***************************************************************************)
(* What should hold of the monitor: where one thread alone writes a        *)
(* counter, as the hooks that do without locks claim, it counts every      *)
(* message.                                                                *)
(***************************************************************************)
EXTENDS Monitor, Functions

\* The threads that send as s, or along p.
As(s) == {t \in Thread : \E p \in Sends[t] : p[1] = s}
Along(p) == {t \in Thread : p \in Sends[t]}
Running == phase \in {"loaded", "exiting"}

Members(g) == {s \in Service : GroupOf[s] = g}

\* A path on which one thread sends counts its accepted messages, but for the one
\* whose hook has not come to the counter.
PathsExact ==
    \A p \in Path :
        Cardinality(Along(p)) = 1 =>
            sent[p] = dataflow[p] + Cardinality({t \in Along(p) :
                          path[t] = p /\ pc[t] \in {"find", "count", "insert"}})

\* The same for a service as which one thread sends; a report, whatever resets it,
\* shows no message twice.
SendsExact ==
    Running => \A s \in Service :
        LET all == SumFunctionOnSet(sent, {p \in Path : p[1] = s})
            busy(places) == Cardinality({t \in As(s) : pc[t] \in places /\ From(t) = s})
        IN  Cardinality(As(s)) = 1 =>
                /\ all = total_send[s] + busy({"find", "count", "insert", "send", "total"})
                /\ flush_send[s] <= total_send[s] + busy({"total"})

ReceivesExact ==
    Running => \A s \in Service :
        LET busy == Cardinality({t \in Thread : pc[t] = "group" /\ To(t) = s})
        IN  /\ received[s] = total_recv[s] + busy
            /\ flush_recv[s] <= received[s]
            /\ flush_time[s] = flush_recv[s]

\* Where one thread alone sends along a path, or as a service, no message is lost to
\* the counters or counted twice, by whatever interleaving of sends, handlers and
\* resets (line 196: "no race condition"); those of handlings need no such premise.
\* For paths and services with several senders AllCountsExact is what fails.
CountsExact == PathsExact /\ SendsExact /\ ReceivesExact

\* After a reset the receptions and the group times of a report hold no message from
\* before it, although threads count on while one record after the other is reset.
\* Of flush_send nothing is claimed: a send hook may add a message to it, after the
\* reset, that was accepted before.
FlushIsFresh ==
    [][EndReset =>
          /\ \A s \in Service : flush_recv[s] <= received[s] - before[s]
          /\ \A g \in Group :
                group_time[g] <= SumFunctionOnSet(total_recv, Members(g)) - SumFunctionOnSet(before, Members(g))]_vars

-----------------------------------------------------------------------------
\* monitor.c:219-220: "Must success": the new record finds no other of its path.
InsertSucceeds ==
    [][\A t \in Thread : InsertPath(t) => dataflow[path[t]] = 0]_vars

\* monitor.c:247: "It is OK to modify count directly", and line 196, for the messages
\* of a service that two threads send, as the timer service does.
AllCountsExact ==
    (\A t \in Thread : pc[t] = "idle") /\ Running =>
        /\ \A p \in Path : sent[p] = dataflow[p]
        /\ \A s \in Service : SumFunctionOnSet(sent, {p \in Path : p[1] = s}) = total_send[s]

\* monitor.c:311 and 325: what a handling adds to the use time is measured from the
\* message that is handled.
TimeIsOfMessage ==
    [][\A s \in Service :
          Len(inbox'[s]) < Len(inbox[s]) => use_time_start[s] = Head(inbox[s])]_vars

\* The share of a service in the time of its group is at most all of it (line 263
\* cuts it off).
ShareIsBounded ==
    phase = "loaded" => \A s \in Service : flush_time[s] <= group_time[GroupOf[s]] + 1
==============================================================================
