------------------------------- MODULE Monitor -------------------------------
(***************************************************************************)
(* monitor.c: the hooks by which every thread that sends or handles a      *)
(* message counts it, and the service that sets the counters of a report   *)
(* back, by its timer and on request.  What a hook does under a lock is    *)
(* one step; what it does outside, or under the lock of a reader, is read  *)
(* and written in two.  A handling takes one unit of time.                 *)
(*                                                                         *)
(* Every service has a record, and memory does not run out.  The messages  *)
(* of the monitor itself are counted like the others and not followed.     *)
(***************************************************************************)
EXTENDS Integers, Sequences, FiniteSets

CONSTANTS
    Order,      \* the services, in the order of record_group
    GroupOf,    \* the group of each service, from 1 on
    Thread,     \* working threads of the groups, and others that send
    Runs,       \* the services whose messages a thread handles: those of one group
    Sends,      \* the pairs <<from, to>> with which a thread calls eaf_send_req
    Nobody,     \* no thread
    MaxSend,    \* bound on the sends, of each thread
    MaxCycle    \* bound on the number of times the monitor is initialised

Service == {Order[i] : i \in DOMAIN Order}
Group == {GroupOf[s] : s \in Service}
Path == UNION {Sends[t] : t \in Thread}

\* A table and a process are finite; the messages of a service are handled by one thread.
ASSUME MonitorAssumption ==
    /\ Order \in Seq(Service) /\ IsFiniteSet(Thread)
    /\ GroupOf \in [Service -> 1 .. Cardinality(Group)]
    /\ Runs \in [Thread -> SUBSET Service] /\ Path \subseteq Service \X Service
    /\ \A t, u \in Thread : t # u => Runs[t] \cap Runs[u] = {}
    /\ Nobody \notin Thread /\ MaxSend \in [Thread -> Nat] /\ MaxCycle \in Nat

VARIABLES
    phase,      \* "down", "registered", then EAF: "loaded", "exiting"
    flush_send, flush_recv, flush_time,         \* of each service, since the last reset
    total_send, total_recv, group_time,
    use_time_start,     \* the thread that wrote it last
    dataflow,           \* the count of each path, 0 where there is no record
    pc, path, seen,     \* of each thread: place, path of its send, value it has read
    reset,      \* the service of the monitor: 0, or the next record or group to reset
    task,       \* what it resets for: "timer", "request"
    timer,      \* its delay: "off", "waiting", "fired"
    request,    \* a flush request: "none", "queued", "answered"
    inbox,      \* the accepted messages of each service, as their senders
    sent, received,     \* accepted and handled messages: not in the code
    before,             \* total_recv when the reset began: not in the code
    sends, cycle

flushVars == <<flush_send, flush_recv, flush_time, group_time>>
countVars == <<total_send, total_recv, dataflow>>
threadVars == <<pc, path, seen, sends>>
resetVars == <<reset, task, timer, request, before>>
vars == <<phase, flushVars, countVars, use_time_start, threadVars, resetVars,
          inbox, sent, received, cycle>>

NoCounts == [s \in Service |-> 0]
NoPaths == [p \in Path |-> 0]

Init ==
    /\ phase = "down"
    /\ flush_send = NoCounts /\ flush_recv = NoCounts /\ flush_time = NoCounts
    /\ total_send = NoCounts /\ total_recv = NoCounts /\ group_time = [g \in Group |-> 0]
    /\ use_time_start = [s \in Service |-> Nobody]
    /\ dataflow = NoPaths
    /\ inbox = [s \in Service |-> <<>>]
    /\ sent = NoPaths /\ received = NoCounts /\ sends = [t \in Thread |-> 0]
    /\ request = "none"
    /\ pc = [t \in Thread |-> "idle"] /\ path = [t \in Thread |-> <<>>]
    /\ seen = [t \in Thread |-> 0]
    /\ reset = 0 /\ task = "timer" /\ timer = "off" /\ before = NoCounts
    /\ cycle = 0

-----------------------------------------------------------------------------
(* The main thread. *)

\* eaf_monitor_init: the hooks and the service are registered, or neither is.
MonitorInit ==
    /\ phase = "down" /\ cycle < MaxCycle
    /\ phase' = "registered" /\ cycle' = cycle + 1
    /\ UNCHANGED <<flushVars, countVars, use_time_start, threadVars, resetVars,
                   inbox, sent, received>>

\* Records without counts, and no message anywhere.
FreshRecords ==
    /\ flush_send' = NoCounts /\ flush_recv' = NoCounts /\ flush_time' = NoCounts
    /\ total_send' = NoCounts /\ total_recv' = NoCounts
    /\ group_time' = [g \in Group |-> 0]
    /\ use_time_start' = [s \in Service |-> Nobody]
    /\ inbox' = [s \in Service |-> <<>>]
    /\ sent' = NoPaths /\ received' = NoCounts /\ sends' = [t \in Thread |-> 0]
    /\ request' = "none"

\* _monitor_on_load_before and _monitor_on_service_init: records for all services,
\* and the first delay; when it is refused EAF is told to exit.
LoadBefore ==
    /\ phase = "registered"
    /\ FreshRecords
    /\ \/ phase' = "loaded" /\ timer' = "waiting"
       \/ phase' = "exiting" /\ timer' = "off"
    /\ UNCHANGED <<dataflow, pc, path, seen, reset, task, before, cycle>>

EafExit ==
    /\ phase = "loaded"
    /\ phase' = "exiting" /\ timer' = "off"
    /\ UNCHANGED <<flushVars, countVars, use_time_start, threadVars, reset, task, request, before,
                   inbox, sent, received, cycle>>

\* eaf_monitor_exit after eaf_cleanup: nothing runs, all records are freed.
MonitorExit ==
    /\ phase = "exiting" /\ reset = 0 /\ \A t \in Thread : pc[t] = "idle"
    /\ phase' = "down"
    /\ FreshRecords /\ dataflow' = NoPaths
    /\ UNCHANGED <<pc, path, seen, reset, task, timer, before, cycle>>

-----------------------------------------------------------------------------
(* The hooks of a send, in the thread that sends. *)

At(t, place) == pc[t] = place
Goto(t, place) == pc' = [pc EXCEPT ![t] = place]
Done(t) == /\ Goto(t, "idle")
           /\ path' = [path EXCEPT ![t] = <<>>] /\ seen' = [seen EXCEPT ![t] = 0]
From(t) == path[t][1]
To(t) == path[t][2]

\* on_message_send_before: the function for handle_before is in this slot, and starts
\* the clock of the receiver.
SendBefore(t) ==
    /\ phase = "loaded" /\ At(t, "idle") /\ sends[t] < MaxSend[t]
    /\ \E p \in Sends[t] :
          /\ path' = [path EXCEPT ![t] = p]
          /\ use_time_start' = [use_time_start EXCEPT ![p[2]] = t]
    /\ sends' = [sends EXCEPT ![t] = @ + 1]
    /\ Goto(t, "push")
    /\ UNCHANGED <<phase, flushVars, countVars, seen, resetVars, inbox, sent, received, cycle>>

\* The message is accepted, or refused and not counted (line 406).
Push(t) ==
    /\ At(t, "push")
    /\ \/ /\ inbox' = [inbox EXCEPT ![To(t)] = Append(@, t)]
          /\ sent' = [sent EXCEPT ![path[t]] = @ + 1]
          /\ Goto(t, "find") /\ UNCHANGED <<path, seen>>
       \/ Done(t) /\ UNCHANGED <<inbox, sent>>
    /\ UNCHANGED <<phase, flushVars, countVars, use_time_start, sends, resetVars, received, cycle>>

\* _monitor_update_message_path: found or not, under the lock of a reader.
FindPath(t) ==
    /\ At(t, "find")
    /\ seen' = [seen EXCEPT ![t] = dataflow[path[t]]]
    /\ Goto(t, IF dataflow[path[t]] = 0 THEN "insert" ELSE "count")
    /\ UNCHANGED <<phase, flushVars, countVars, use_time_start, path, sends, resetVars,
                   inbox, sent, received, cycle>>

CountPath(t) ==
    /\ At(t, "count")
    /\ dataflow' = [dataflow EXCEPT ![path[t]] = seen[t] + 1]
    /\ Goto(t, "send")
    /\ UNCHANGED <<phase, flushVars, total_send, total_recv, use_time_start, path, seen, sends,
                   resetVars, inbox, sent, received, cycle>>

\* _monitor_dataflow_insert_new_record, under the lock of the writer, which waits for
\* the readers; a record that another thread has inserted meanwhile stays.
InsertPathZero(t) ==                \* faulty: the first message is not counted
    /\ At(t, "insert") /\ \A u \in Thread : ~At(u, "count")
    /\ Goto(t, "send")
    /\ UNCHANGED <<phase, flushVars, countVars, use_time_start, path, seen, sends,
                   resetVars, inbox, sent, received, cycle>>
InsertPath(t) ==
    /\ At(t, "insert") /\ \A u \in Thread : ~At(u, "count")
    /\ dataflow' = [dataflow EXCEPT ![path[t]] = IF @ = 0 THEN 1 ELSE @]
    /\ Goto(t, "send")
    /\ UNCHANGED <<phase, flushVars, total_send, total_recv, use_time_start, path, seen, sends,
                   resetVars, inbox, sent, received, cycle>>

\* _monitor_update_counter_send: flush_send with the lock of the record, total_send
\* without.
CountFlush(t) ==
    /\ At(t, "send")
    /\ flush_send' = [flush_send EXCEPT ![From(t)] = @ + 1]
    /\ seen' = [seen EXCEPT ![t] = total_send[From(t)]]
    /\ Goto(t, "total")
    /\ UNCHANGED <<phase, flush_recv, flush_time, group_time, countVars, use_time_start, path,
                   sends, resetVars, inbox, sent, received, cycle>>

CountTotal(t) ==
    /\ At(t, "total")
    /\ total_send' = [total_send EXCEPT ![From(t)] = seen[t] + 1]
    /\ Done(t)
    /\ UNCHANGED <<phase, flushVars, total_recv, dataflow, use_time_start, sends,
                   resetVars, inbox, sent, received, cycle>>

-----------------------------------------------------------------------------
(* _monitor_on_message_handle_after, in the thread that has handled a message. *)

HandleAfter(t) ==
    /\ phase = "loaded" /\ At(t, "idle")
    /\ \E s \in Runs[t] :
          /\ inbox[s] # <<>>
          /\ inbox' = [inbox EXCEPT ![s] = Tail(@)]
          /\ received' = [received EXCEPT ![s] = @ + 1]
          /\ flush_recv' = [flush_recv EXCEPT ![s] = @ + 1]
          /\ flush_time' = [flush_time EXCEPT ![s] = @ + 1]
          /\ path' = [path EXCEPT ![t] = <<s, s>>]
    /\ Goto(t, "group")
    /\ UNCHANGED <<phase, flush_send, group_time, countVars, use_time_start, seen, sends,
                   resetVars, sent, cycle>>

CountGroup(t) ==
    /\ At(t, "group")
    /\ total_recv' = [total_recv EXCEPT ![To(t)] = @ + 1]
    /\ group_time' = [group_time EXCEPT ![GroupOf[To(t)]] = @ + 1]
    /\ Done(t)
    /\ UNCHANGED <<phase, flush_send, flush_recv, flush_time, total_send, dataflow,
                   use_time_start, sends, resetVars, inbox, sent, received, cycle>>

-----------------------------------------------------------------------------
(* The service of the monitor. *)

\* _monitor_on_timer and _monitor_on_req_flush.  Both run in the one thread of their
\* service and give the refresh lock back, so that the trylock of the timer succeeds.
SecondReset == 2                    \* faulty: the iteration begins after the first record
FirstReset == 1

BeginReset ==
    /\ phase = "loaded" /\ reset = 0
    /\ \/ timer = "fired" /\ task' = "timer"
       \/ request = "queued" /\ task' = "request"
    /\ reset' = FirstReset /\ before' = total_recv
    /\ UNCHANGED <<phase, flushVars, countVars, use_time_start, threadVars, timer, request,
                   inbox, sent, received, cycle>>

\* _monitor_reset_flush_nolock: the lock of one record after the other, then those of
\* the groups.
ResetRecord ==
    /\ reset \in DOMAIN Order
    /\ flush_send' = [flush_send EXCEPT ![Order[reset]] = 0]
    /\ flush_recv' = [flush_recv EXCEPT ![Order[reset]] = 0]
    /\ flush_time' = [flush_time EXCEPT ![Order[reset]] = 0]
    /\ reset' = reset + 1
    /\ UNCHANGED <<phase, group_time, countVars, use_time_start, threadVars, task, timer,
                   request, before, inbox, sent, received, cycle>>

ResetGroup ==
    /\ reset - Len(Order) \in Group
    /\ group_time' = [group_time EXCEPT ![reset - Len(Order)] = 0]
    /\ reset' = reset + 1
    /\ UNCHANGED <<phase, flush_send, flush_recv, flush_time, countVars, use_time_start,
                   threadVars, task, timer, request, before, inbox, sent, received, cycle>>

\* The next delay, whose result nobody looks at, or the answer to the request; after
\* eaf_exit both are refused.
EndReset ==
    /\ reset > Len(Order) + Cardinality(Group)
    /\ reset' = 0 /\ before' = NoCounts
    /\ CASE phase = "loaded" /\ task = "timer" ->
              timer' \in {"waiting", "off"} /\ UNCHANGED request
         [] phase = "loaded" /\ task = "request" -> request' = "answered" /\ UNCHANGED timer
         [] OTHER -> UNCHANGED <<timer, request>>
    /\ UNCHANGED <<phase, flushVars, countVars, use_time_start, threadVars, task,
                   inbox, sent, received, cycle>>

TimerFires ==
    /\ timer = "waiting"
    /\ timer' = "fired"
    /\ UNCHANGED <<phase, flushVars, countVars, use_time_start, threadVars, reset, task,
                   request, before, inbox, sent, received, cycle>>

\* A service asks for a flush, once its last request has been answered.
FlushRequest ==
    /\ phase = "loaded" /\ request # "queued"
    /\ request' = "queued"
    /\ UNCHANGED <<phase, flushVars, countVars, use_time_start, threadVars, reset, task, timer, before,
                   inbox, sent, received, cycle>>

-----------------------------------------------------------------------------
Main == MonitorInit \/ LoadBefore \/ EafExit \/ MonitorExit
SendStep(t) ==
    \/ Push(t) \/ FindPath(t) \/ CountPath(t) \/ InsertPath(t)
    \/ CountFlush(t) \/ CountTotal(t)
ThreadStep(t) == SendBefore(t) \/ SendStep(t) \/ HandleAfter(t) \/ CountGroup(t)
ResetStep == BeginReset \/ ResetRecord \/ ResetGroup \/ EndReset

Next ==
    \/ Main
    \/ \E t \in Thread : ThreadStep(t)
    \/ ResetStep \/ TimerFires \/ FlushRequest

Spec == Init /\ [][Next]_vars
==============================================================================
