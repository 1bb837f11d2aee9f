------------------------- MODULE WatchdogProperties -------------------------
(***************************************************************************)
(* What should hold of the watchdog, and the promise of its header that    *)
(* the test of the expired records breaks.                                 *)
(***************************************************************************)
EXTENDS Watchdog

TypeOK ==
    /\ {idle_stack, busy_stack, busy_table, freed, reported} \subseteq SUBSET Record
    /\ \A r \in Record : /\ begin[r] \in 0 .. Interval[r] /\ end[r] \in Past(r) .. Timeout[r]
                         /\ cerrc[r] \in 0 .. Jitter[r] + 1
    /\ flight \in [Record -> {"none", "sent", "queued"}]
    /\ timer \in {"off", "waiting", "fired"}

\* A record is in one place whatever was refused, late or answered: idle, or in
\* both maps of busy records and then with one request or answer on its way, so that
\* every answer finds the record it is for (line 174).
OnePlace ==
    /\ TypeOK
    /\ intact /\ running =>
        /\ idle_stack \cap busy_stack = {}
        /\ busy_table = busy_stack \cup freed
        /\ \A r \in Record : r \in busy_stack <=> flight[r] # "none"

\* No false alarm: a service is reported only after more late answers in a row than
\* its jitter accepts, and an answer in time begins the count anew.
NoFalseAlarm ==
    \A r \in reported : Len(recent[r]) = Jitter[r] + 1 /\ \A i \in DOMAIN recent[r] : recent[r][i]

\* No record of a service that always answers stays idle: whatever answers, refusals
\* and scans brought it there, it is asked again, as long as the timer accepts the
\* delay and the service the request.  (That an answer makes it idle again is OnePlace
\* and the premise that the service answers.)
KeepsAsking ==
    \A r \in Record \ Silent :
        (running /\ r \in idle_stack) ~> (r \notin idle_stack \/ timer = "off" \/ ~intact)

-----------------------------------------------------------------------------
\* watchdog.h:76-77: "if response was not received in `jitter * timeout`, the timeout
\* callback will also be called", by the scan that follows.
SilenceIsReported ==
    [][\A R \in SUBSET MayRefuse :
          OnTimer(R) => \A r \in busy_stack : end[r] < -Grace(r) => r \in reported']_vars

\* watchdog.c:256 asserts that a token is not yet in busy_table when its request is
\* sent; after an exit with a request on its way its old record still is.
NothingStale == intact
=============================================================================
