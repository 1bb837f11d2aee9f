------------------------------- MODULE Timer -------------------------------
(***************************************************************************)
(* The timer service of the PowerPack (timer.c): the service takes delay   *)
(* requests in the thread of its group and hands a record of each to the   *)
(* libuv thread, which owns the timer, answers the request and destroys    *)
(* the record.  on_exit waits, by polling, until no record is left.        *)
(*                                                                         *)
(* A step is one critical section of glock or one unlocked access to what  *)
(* the two threads share.  libuv is external: an event is a callback that  *)
(* starts when no other callback is executing, in any order; a handle that *)
(* is closed is given back by its close callback.                          *)
(***************************************************************************)
EXTENDS Integers, Sequences, SequencesExt

CONSTANTS
    Record,     \* the delay requests, each with its record
    MayFail,    \* calls that may fail: "push", "init", "start", "send"
    None

Queue == {"idle", "busy", "dead"}

ASSUME RecordAssumption == None \notin Record
ASSUME FailAssumption == MayFail \subseteq {"push", "init", "start", "send"}

VARIABLES
    running,    \* the context is busy: eaf_exit has not been called
    looping,    \* mask.looping
    queue,      \* idle_queue, busy_queue and dead_queue
    svc,        \* where the service is
    svc_rec,    \* the record it has allocated and not pushed yet
    unread, sum \* on_exit: queues whose size it has still to read, the sum so far
VARIABLES
    notified,   \* gnotifier: sent and not yet called back
    open,       \* gnotifier is not closed
    uv,         \* which callback the libuv thread executes, "poll" for none
    uv_rec,     \* the record that callback has in hand
    timer       \* timer[r]: the uv_timer_t of r
VARIABLES
    answers,    \* history: what became of the responses sent for each request
    alloc       \* alloc[r]: "none", "made" or "freed"

svcVars == <<svc, svc_rec, unread, sum>>
uvVars == <<uv, uv_rec, open>>
vars == <<running, looping, queue, svcVars, notified, uvVars, timer, answers, alloc>>

Init ==
    /\ running = TRUE /\ looping = FALSE
    /\ queue = [q \in Queue |-> << >>]
    /\ svc = "new" /\ svc_rec = None
    /\ unread = {} /\ sum = 0
    /\ notified = FALSE /\ open = TRUE
    /\ uv = "poll" /\ uv_rec = None
    /\ timer = [r \in Record |-> "none"]
    /\ answers = [r \in Record |-> << >>]
    /\ alloc = [r \in Record |-> "none"]

\* _timer_send_delay_rsp ignores the result of eaf_send_rsp, which refuses when the
\* context is not busy, and when a hook, the receiver or the allocator says no.
Sent(ret) ==
    IF running THEN {ret} \cup {out \in {"refused"} : "send" \in MayFail}
    ELSE {"exiting"}
Answer(r, ret) ==
    \E out \in Sent(ret) : answers' = [answers EXCEPT ![r] = Append(@, out)]
Free(r) == alloc' = [alloc EXCEPT ![r] = "freed"]

\* A record leaves one queue for another: eaf_list_erase, eaf_list_push_back.
Without(q, r) ==
    RemoveAt(queue[q], CHOOSE i \in 1 .. Len(queue[q]) : queue[q][i] = r)
Move(r, from, to) ==
    queue' = [queue EXCEPT ![from] = Without(from, r), ![to] = Append(@, r)]

-----------------------------------------------------------------------------
\* eaf_exit or eaf_teardown, by any thread at any moment.
EafExit ==
    /\ running /\ running' = FALSE
    /\ UNCHANGED <<looping, queue, svcVars, notified, uvVars, timer, answers, alloc>>

-----------------------------------------------------------------------------
\* The service, in the thread of its group

OnInit ==
    /\ svc = "new"
    /\ svc' = "up" /\ looping' = TRUE
    /\ UNCHANGED <<running, queue, svc_rec, unread, sum, notified, uvVars, timer, answers, alloc>>

\* _timer_on_req_delay up to the lock.  The service gets no request after
\* on_exit, so the refusal at its start is never taken.
ReqDelay(r) ==
    /\ svc = "up" /\ alloc[r] = "none" /\ looping
    /\ svc' = "push" /\ svc_rec' = r
    /\ alloc' = [alloc EXCEPT ![r] = "made"]
    /\ UNCHANGED <<running, looping, queue, unread, sum, notified, uvVars, timer, answers>>

\* The record is queued and libuv notified in one critical section.
NotifyLost == UNCHANGED notified       \* faulty: nobody looks at the idle queue
Notify == notified' = TRUE

Push ==
    /\ svc = "push"
    /\ queue' = [queue EXCEPT !["idle"] = Append(@, svc_rec)]
    /\ Notify
    /\ svc' = "up" /\ svc_rec' = None
    /\ UNCHANGED <<running, looping, unread, sum, uvVars, timer, answers, alloc>>

PushFails ==
    /\ svc = "push" /\ "push" \in MayFail
    /\ Answer(svc_rec, "unknown") /\ Free(svc_rec)
    /\ svc' = "up" /\ svc_rec' = None
    /\ UNCHANGED <<running, looping, queue, unread, sum, notified, uvVars, timer>>

\* _timer_on_exit: the flag, the notification, and the loop that reads the sizes
\* of the three queues without the lock, in an order the language leaves open.  The
\* group exits a lazy service that was never initialised as well.
OnExit ==
    /\ svc \in {"new", "up"} /\ ~running
    /\ svc' = "notify" /\ looping' = FALSE
    /\ UNCHANGED <<running, queue, svc_rec, unread, sum, notified, uvVars, timer, answers, alloc>>

NoExitNotice == UNCHANGED notified     \* faulty: the libuv thread is not told
ExitNotice == notified' = TRUE

ExitNotify ==
    /\ svc = "notify"
    /\ ExitNotice
    /\ svc' = "read" /\ unread' = Queue /\ sum' = 0
    /\ UNCHANGED <<running, looping, queue, svc_rec, uvVars, timer, answers, alloc>>

ExitRead(q) ==
    /\ svc = "read" /\ q \in unread
    /\ unread' = unread \ {q}
    /\ sum' = sum + Len(queue[q])
    /\ UNCHANGED <<running, looping, queue, svc, svc_rec, notified, uvVars, timer, answers, alloc>>

ExitCheck ==
    /\ svc = "read" /\ unread = {}
    /\ IF sum = 0 THEN svc' = "exited" /\ UNCHANGED unread
       ELSE unread' = Queue /\ UNCHANGED svc
    /\ sum' = 0
    /\ UNCHANGED <<running, looping, queue, svc_rec, notified, uvVars, timer, answers, alloc>>

-----------------------------------------------------------------------------
\* The libuv thread

\* _timer_on_uv_notify is called once for all notifications sent before.
UvNotify ==
    /\ uv = "poll" /\ notified /\ open
    /\ notified' = FALSE
    /\ uv' = "check"
    /\ UNCHANGED <<running, looping, queue, svcVars, uv_rec, open, timer, answers, alloc>>

UvCheck ==
    /\ uv = "check"
    /\ uv' = IF looping THEN "pop" ELSE "close"
    /\ UNCHANGED <<running, looping, queue, svcVars, notified, uv_rec, open, timer, answers, alloc>>

\* The loop of _timer_on_uv_notify over the idle queue.
PeekFront(q) == queue[q]               \* faulty: the record stays in the queue
PopFront(q) == Tail(queue[q])

UvPop ==
    /\ uv = "pop"
    /\ IF queue["idle"] = << >>
       THEN uv' = "poll" /\ UNCHANGED <<queue, uv_rec>>
       ELSE /\ uv' = "init" /\ uv_rec' = Head(queue["idle"])
            /\ queue' = [queue EXCEPT !["idle"] = PopFront("idle")]
    /\ UNCHANGED <<running, looping, svcVars, notified, open, timer, answers, alloc>>

\* _timer_handle_idle_record: initialise the timer and push to the busy queue.
UvInit ==
    /\ uv = "init"
    /\ timer' = [timer EXCEPT ![uv_rec] = "init"]
    /\ queue' = [queue EXCEPT !["busy"] = Append(@, uv_rec)]
    /\ uv' = "start"
    /\ UNCHANGED <<running, looping, svcVars, notified, uv_rec, open, answers, alloc>>

AfterInitFailure == "init"             \* faulty: the record is tried again
AfterFailure == "pop"

UvInitFails ==
    /\ uv = "init" /\ "init" \in MayFail
    /\ Answer(uv_rec, "unknown") /\ Free(uv_rec)
    /\ uv' = AfterFailure
    /\ uv_rec' = IF uv' = "pop" THEN None ELSE uv_rec
    /\ UNCHANGED <<running, looping, queue, svcVars, notified, open, timer>>

UvStart ==
    /\ uv = "start"
    /\ timer' = [timer EXCEPT ![uv_rec] = "started"]
    /\ uv' = "pop" /\ uv_rec' = None
    /\ UNCHANGED <<running, looping, queue, svcVars, notified, open, answers, alloc>>

\* uv_timer_start fails: the record goes to the dead queue under the lock; then the
\* request is answered and the handle closed.
Close(r) == timer' = [timer EXCEPT ![r] = "closing"]

UvStartFails ==
    /\ uv = "start" /\ "start" \in MayFail
    /\ Move(uv_rec, "busy", "dead")
    /\ uv' = "failed"
    /\ UNCHANGED <<running, looping, svcVars, notified, uv_rec, open, timer, answers, alloc>>

UvFailed ==
    /\ uv = "failed"
    /\ Answer(uv_rec, "unknown")
    /\ Close(uv_rec)
    /\ uv' = "pop" /\ uv_rec' = None
    /\ UNCHANGED <<running, looping, queue, svcVars, notified, open, alloc>>

\* _timer_on_active: the timer expires and the request is answered; then the record
\* goes to the dead queue under the lock, and the handle is closed.
UvActive(r) ==
    /\ uv = "poll" /\ timer[r] = "started"
    /\ Answer(r, "success")
    /\ uv' = "expired" /\ uv_rec' = r
    /\ UNCHANGED <<running, looping, queue, svcVars, notified, open, timer, alloc>>

UvExpired ==
    /\ uv = "expired"
    /\ Move(uv_rec, "busy", "dead")
    /\ Close(uv_rec)
    /\ uv' = "poll" /\ uv_rec' = None
    /\ UNCHANGED <<running, looping, svcVars, notified, open, answers, alloc>>

\* _timer_on_timer_close
UvClosed(r) ==
    /\ uv = "poll" /\ timer[r] = "closing"
    /\ queue' = [queue EXCEPT !["dead"] = Without("dead", r)]
    /\ timer' = [timer EXCEPT ![r] = "closed"]
    /\ Free(r)
    /\ UNCHANGED <<running, looping, svcVars, notified, uvVars, answers>>

\* _timer_close_all_timer, one record at a time: the busy queue, then the idle one.
UvCloseBusy ==
    /\ uv = "close" /\ queue["busy"] # << >>
    /\ Move(Head(queue["busy"]), "busy", "dead")
    /\ Close(Head(queue["busy"]))
    /\ UNCHANGED <<running, looping, svcVars, notified, uvVars, answers, alloc>>

UvDropIdle ==
    /\ uv = "close" /\ queue["busy"] = << >>
    /\ IF queue["idle"] = << >>
       THEN uv' = "poll" /\ UNCHANGED <<queue, alloc>>
       ELSE /\ queue' = [queue EXCEPT !["idle"] = PopFront("idle")]
            /\ Free(Head(queue["idle"]))
            /\ UNCHANGED uv
    /\ UNCHANGED <<running, looping, svcVars, notified, uv_rec, open, timer, answers>>

\* _timer_on_libuv_loop_exit, after eaf_cleanup has joined the groups.
UvLoopExit ==
    /\ uv = "poll" /\ svc = "exited" /\ open
    /\ open' = FALSE
    /\ UNCHANGED <<running, looping, queue, svcVars, notified, uv, uv_rec, timer, answers, alloc>>

ServiceStep == Push \/ PushFails \/ ExitNotify \/ ExitCheck \/ \E q \in Queue : ExitRead(q)
UvStep ==
    \/ UvNotify \/ UvCheck \/ UvPop \/ UvInit \/ UvInitFails \/ UvStart \/ UvStartFails
    \/ UvFailed \/ UvExpired \/ UvCloseBusy \/ UvDropIdle \/ UvLoopExit
    \/ \E r \in Record : UvClosed(r)

Next ==
    \/ EafExit \/ OnInit \/ OnExit \/ \E r \in Record : ReqDelay(r)
    \/ ServiceStep
    \/ UvStep \/ \E r \in Record : UvActive(r)

Spec == Init /\ [][Next]_vars

\* Both threads run, and libuv calls back for every notification and closed
\* handle: there are finitely many, so it is enough that it never stops while one
\* is left.  A timer may run longer than anyone waits.
FairSpec == Spec /\ WF_vars(ServiceStep) /\ WF_vars(UvStep)

-----------------------------------------------------------------------------
\* Every variable ranges over what the code can store in it, and a record that a
\* thread has in hand is allocated, on the error paths as well.
TypeOK ==
    /\ running \in BOOLEAN /\ looping \in BOOLEAN
    /\ notified \in BOOLEAN /\ open \in BOOLEAN
    /\ queue \in [Queue -> Seq(Record)]
    /\ svc \in {"new", "up", "push", "notify", "read", "exited"}
    /\ uv \in {"poll", "check", "pop", "init", "start", "failed", "expired", "close"}
    /\ {svc_rec, uv_rec} \subseteq {r \in Record : alloc[r] = "made"} \cup {None}
    /\ unread \subseteq Queue /\ sum \in Nat
    /\ timer \in [Record -> {"none", "init", "started", "closing", "closed"}]
    /\ answers \in [Record -> Seq({"success", "unknown", "refused", "exiting"})]
    /\ alloc \in [Record -> {"none", "made", "freed"}]

\* Between its allocation and its release a record is in one place: the hands of
\* the service, those of the libuv thread, or one queue, once; a released record
\* is in none, whichever path it took.
Places(r) ==
    (UNION {{q} \X {i \in 1 .. Len(queue[q]) : queue[q][i] = r} : q \in Queue})
        \cup {x \in {<<"svc", 0>>} : svc_rec = r}
        \cup {x \in {<<"uv", 0>>} : uv = "init" /\ uv_rec = r}
OnePlace ==
    \A r \in Record : Cardinality(Places(r)) = IF alloc[r] = "made" THEN 1 ELSE 0

\* libuv never holds a handle in released memory, and the queues say what it
\* does with each: a running timer is busy, a dead one is closing, or about to be
\* closed by the callback that could not start it.
TimerMatchesQueue ==
    \A r \in Record :
        /\ timer[r] = "started" => r \in ToSet(queue["busy"])
        /\ r \in ToSet(queue["dead"]) <=>
              timer[r] = "closing" \/ (uv = "failed" /\ uv_rec = r)
        /\ timer[r] \in {"init", "started", "closing"} => alloc[r] = "made"

\* The two of them, for records of their type, whatever failed and whoever exits.
RecordsSound == TypeOK /\ OnePlace /\ TimerMatchesQueue

\* At most one response is sent for a request, whatever fails and however its record
\* moves; none is sent only if the service has been told to exit; and a record is
\* released without its requester having the response only if EAF exits, or a hook,
\* the receiver or the allocator refused it, which timer.c:37 does not look at.
AnsweredOnce ==
    \A r \in Record :
        /\ Len(answers[r]) <= 1
        /\ alloc[r] = "freed" =>
              /\ answers[r] = << >> => ~looping
              /\ answers[r] \in {<< >>, <<"exiting">>} => ~running

\* If timers expire, a response is sent for every delay request unless the service
\* exits: no notification is lost although several requests share one.
Answered ==
    (\A r \in Record : WF_vars(UvActive(r))) =>
        \A r \in Record : alloc[r] = "made" ~> answers[r] # << >> \/ ~looping

\* on_exit returns, and does not wait for the timers to expire.
ExitReturns == svc = "notify" ~> svc = "exited"

\* timer.c:226: "Here we need to wait until all timer is closed".
ExitWaitsForAll ==
    svc = "exited" => \A r \in Record : alloc[r] # "made"

=============================================================================
