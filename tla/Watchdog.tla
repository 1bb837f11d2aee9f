------------------------------ MODULE Watchdog ------------------------------
(***************************************************************************)
(* watchdog.c: the service that sends a heartbeat request to every watched *)
(* service now and then and reports the ones that answer late too often.   *)
(* A record is in idle_stack until its next request is due, and in         *)
(* busy_stack and busy_table while a request is on its way.  The handlers  *)
(* run one at a time, in the group of the watchdog; the watched services,  *)
(* the timer and the clock do not wait for them.                           *)
(*                                                                         *)
(* begin and end are kept relative to the current time, so that time can   *)
(* go on for ever; a deadline is not followed further into the past than   *)
(* any comparison looks, and an error count not beyond what is compared.   *)
(***************************************************************************)
EXTENDS Integers, Sequences, FiniteSets

CONSTANTS
    Record,             \* the watched services; a record's token is its index
    Interval, Timeout,  \* of each record, in ticks of the clock
    Jitter,             \* the number of late answers in a row that is accepted
    MayRefuse,          \* records whose service may refuse a request
    Silent,             \* records whose service may stop answering
    MaxCycle            \* bound on the number of times the watchdog is initialised

ASSUME WatchdogAssumption ==
    /\ Interval \in [Record -> Nat] /\ Timeout \in [Record -> Nat] /\ Jitter \in [Record -> Nat]
    /\ MayRefuse \subseteq Record /\ Silent \subseteq Record /\ MaxCycle \in Nat

VARIABLES
    running,                            \* cb.fn is set
    idle_stack, busy_stack, busy_table, \* the three maps, as sets of records
    freed,          \* records in busy_table whose memory has been freed
    intact,         \* no freed memory was used so far
    begin, end,     \* of each record, relative to now
    cerrc,          \* late answers in a row
    flight,         \* the request of a record: "none", "sent", or its answer "queued"
    timer,          \* the delay of the watchdog: "off", "waiting", "fired"
    reported,       \* records for which the callback ran in the last handler
    recent,         \* whether the last answers were late, newest last: not in the code
    cycle

ctxVars == <<running, idle_stack, busy_stack, busy_table, freed, intact>>
recordVars == <<begin, end, cerrc>>
vars == <<ctxVars, recordVars, flight, timer, reported, recent, cycle>>

\* The grace after which a missing answer counts, and what bounds the clock.
Grace(r) == Timeout[r] * Jitter[r]
Past(r) == -(Grace(r) + 1)
Capped(n, low) == IF n < low THEN low ELSE n

Init ==
    /\ running = FALSE
    /\ idle_stack = {} /\ busy_stack = {} /\ busy_table = {}
    /\ freed = {} /\ intact = TRUE
    /\ begin = [r \in Record |-> 0] /\ end = [r \in Record |-> 0]
    /\ cerrc = [r \in Record |-> 0]
    /\ flight = [r \in Record |-> "none"]
    /\ timer = "off"
    /\ reported = {} /\ recent = [r \in Record |-> <<>>]
    /\ cycle = 0

\* Freed records are compared by every operation on the map they are still in.
Touch(S) == intact' = (intact /\ (S = {} \/ freed = {}))

-----------------------------------------------------------------------------
(* The handlers. *)

\* eaf_watchdog_init and _watchdog_on_init: fresh records, all due at once.  When
\* registration fails all is undone; without a timer EAF is told to exit.
WatchdogInit ==
    /\ ~running /\ intact /\ cycle < MaxCycle
    /\ running' = TRUE /\ cycle' = cycle + 1
    /\ idle_stack' = Record
    /\ begin' = [r \in Record |-> 0] /\ end' = [r \in Record |-> 0]
    /\ cerrc' = [r \in Record |-> 0]
    /\ timer' = "waiting"
    /\ recent' = [r \in Record |-> <<>>] /\ reported' = {}
    /\ UNCHANGED <<busy_stack, busy_table, freed, intact, flight>>

\* _watchdog_check_idle: the due records, but for those in R whose service
\* refuses the request; these are watched no more.
DueByEnd == {r \in idle_stack : end[r] >= 0}     \* faulty: the other deadline
Due == {r \in idle_stack : begin[r] <= 0}

CheckIdleKeeps(R) ==                \* faulty: a refused request is waited for
    /\ idle_stack' = idle_stack \ Due
    /\ busy_stack' = busy_stack \cup Due
    /\ busy_table' = busy_table \cup Due
    /\ begin' = [r \in Record |-> IF r \in Due THEN 0 ELSE begin[r]]
    /\ end' = [r \in Record |-> IF r \in Due THEN Timeout[r] ELSE end[r]]
    /\ flight' = [r \in Record |-> IF r \in Due \ R THEN "sent" ELSE flight[r]]
    /\ Touch(Due)
CheckIdle(R) ==
    /\ idle_stack' = idle_stack \ Due
    /\ busy_stack' = busy_stack \cup (Due \ R)
    /\ busy_table' = busy_table \cup (Due \ R)
    /\ begin' = [r \in Record |-> IF r \in Due THEN 0 ELSE begin[r]]
    /\ end' = [r \in Record |-> IF r \in Due THEN Timeout[r] ELSE end[r]]
    /\ flight' = [r \in Record |-> IF r \in Due \ R THEN "sent" ELSE flight[r]]
    /\ Touch(Due \ R)

\* _watchdog_check_busy: the callback for the expired records of the stack that
\* pass the test of line 154, which compares the deadline with itself and a grace.
CheckBusy == {r \in busy_stack : end[r] <= 0 /\ end[r] > end[r] + Grace(r)}

\* _watchdog_on_timer; the answer of the timer to the next delay may be an error,
\* which nobody looks at.
OnTimer(R) ==
    /\ timer = "fired" /\ intact
    /\ R \subseteq MayRefuse \cap Due
    /\ CheckIdle(R)
    /\ reported' = CheckBusy'
    /\ timer' \in {"waiting", "off"}
    /\ UNCHANGED <<running, freed, cerrc, recent, cycle>>

\* _watchdog_on_heartbeat_rsp.
Late(r) == end[r] < 0
ErrorsKept(r) ==                    \* faulty: an answer in time does not reset the count
    IF ~Late(r) \/ cerrc[r] > Jitter[r] THEN cerrc[r] ELSE cerrc[r] + 1
Errors(r) ==
    IF ~Late(r) THEN 0
    ELSE IF cerrc[r] > Jitter[r] THEN cerrc[r] ELSE cerrc[r] + 1

OnHeartbeatRsp(r) ==
    LET errors == Errors(r)
    IN  /\ flight[r] = "queued" /\ intact
        /\ flight' = [flight EXCEPT ![r] = "none"]
        /\ busy_table' = busy_table \ {r}
        /\ busy_stack' = busy_stack \ {r}
        /\ cerrc' = [cerrc EXCEPT ![r] = errors]
        /\ reported' = IF errors > Jitter[r] THEN {r} ELSE {}
        /\ begin' = [begin EXCEPT ![r] = Interval[r]]
        /\ idle_stack' = idle_stack \cup {r}
        /\ LET all == Append(recent[r], Late(r))
           IN  recent' = [recent EXCEPT ![r] =
                             IF Len(all) > Jitter[r] + 1 THEN Tail(all) ELSE all]
        /\ Touch({r})
        /\ UNCHANGED <<running, freed, end, timer, cycle>>

\* eaf_watchdog_exit, after EAF is gone and with it the messages: busy_table keeps
\* its records, whose memory is freed.
WatchdogExit ==
    /\ running /\ intact
    /\ running' = FALSE
    /\ idle_stack' = {} /\ busy_stack' = {}
    /\ freed' = busy_table
    /\ flight' = [r \in Record |-> "none"]
    /\ timer' = "off" /\ reported' = {}
    /\ UNCHANGED <<busy_table, intact, recordVars, recent, cycle>>

-----------------------------------------------------------------------------
(* What the watchdog waits for. *)

\* A watched service, or the runtime on its behalf, answers the request.
Answer(r) ==
    /\ flight[r] = "sent"
    /\ flight' = [flight EXCEPT ![r] = "queued"]
    /\ reported' = {}
    /\ UNCHANGED <<ctxVars, recordVars, timer, recent, cycle>>

TimerFires ==
    /\ timer = "waiting"
    /\ timer' = "fired"
    /\ reported' = {}
    /\ UNCHANGED <<ctxVars, recordVars, flight, recent, cycle>>

Tick ==
    /\ running
    /\ begin' = [r \in Record |-> Capped(begin[r] - 1, 0)]
    /\ end' = [r \in Record |-> Capped(end[r] - 1, Past(r))]
    /\ reported' = {}
    /\ UNCHANGED <<ctxVars, cerrc, flight, timer, recent, cycle>>

Handler ==
    \/ \E R \in SUBSET MayRefuse : OnTimer(R)
    \/ \E r \in Record : OnHeartbeatRsp(r)

Next ==
    \/ WatchdogInit \/ WatchdogExit
    \/ Handler
    \/ \E r \in Record : Answer(r)
    \/ TimerFires \/ Tick

Spec == Init /\ [][Next]_vars

\* The group of the watchdog serves its queue in order, the timer keeps its word,
\* time goes on, and a service that is not silent answers.
FairSpec ==
    /\ Spec
    /\ WF_vars(\E R \in SUBSET MayRefuse : OnTimer(R))
    /\ \A r \in Record : WF_vars(OnHeartbeatRsp(r))
    /\ \A r \in Record \ Silent : WF_vars(Answer(r))
    /\ WF_vars(TimerFires) /\ WF_vars(Tick)

=============================================================================
