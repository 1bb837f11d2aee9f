------------------------------ MODULE Powerpack ------------------------------
(***************************************************************************)
(* powerpack.c: the thread that runs the libuv loop, and the user's thread *)
(* that starts it, loads EAF, cleans EAF up and stops the loop.  The two   *)
(* meet at init_point and exit_point (pp_sync_t): one dials and waits, the *)
(* other waits and answers.  Between the two points the hooks that the     *)
(* powerpack services registered hold handles in the loop, and uv_run      *)
(* returns when no handle is left.                                         *)
(*                                                                         *)
(* The context of EAF is modelled by its state only; EafService has the    *)
(* rest.  libuv is external: a closed handle leaves the loop at once.      *)
(***************************************************************************)
EXTENDS Integers, Sequences, SequencesExt

CONSTANTS
    Hook,       \* hooks with handles in the loop
    Failing,    \* hooks whose on_loop_init may fail
    SkipLoad,   \* may the user clean up without having loaded?
    MaxCycle    \* bound on the number of times EAF is initialised

ASSUME PowerpackAssumption == Failing \subseteq Hook /\ SkipLoad \in BOOLEAN /\ MaxCycle \in Nat

VARIABLES
    initialized, table,     \* g_pp_ctx: the mask and the hook table
    injected,               \* the context of EAF has the hook of powerpack
    point,                  \* g_uv_ctx.init_point and .exit_point
    async, async_sent,      \* uv_async_mode, and a notification not yet delivered
    up,                     \* hooks with handles in the loop
    pc, idx,                \* the loop thread
    main, wait,             \* the call the user's thread is in, and what it waits for
    eaf,                    \* g_eaf_ctx: "none" when it is NULL
    cycle

ppVars == <<initialized, table, injected>>
uvVars == <<point, async, async_sent, up>>
threadVars == <<pc, idx>>
mainVars == <<main, wait>>
vars == <<ppVars, uvVars, threadVars, mainVars, eaf, cycle>>

Point == {"init", "exit"}
\* pp_sync_init.  The lock is not modelled: at most one thread dials a point.
FreshSync == [sem_req |-> 0, sem_rsp |-> 0, have_rsp |-> FALSE, rsp |-> 0]

Init ==
    /\ initialized = FALSE /\ table = <<>> /\ injected = FALSE
    /\ point = [p \in Point |-> FreshSync]
    /\ async = "none" /\ async_sent = FALSE /\ up = {}
    /\ pc = "none" /\ idx = 0
    /\ main = "idle" /\ wait = "nothing" /\ eaf = "none" /\ cycle = 0

-----------------------------------------------------------------------------
(* pp_sync_t. *)

\* pp_sync_dial_once, of a call that dials p: an answer that was ever given is
\* returned at once, else the request is posted and the caller waits.
DialOnce(call, p) ==
    /\ main' = call
    /\ IF point[p].have_rsp
       THEN wait' = "nothing" /\ UNCHANGED point
       ELSE wait' = "answer" /\ point' = [point EXCEPT ![p].sem_req = @ + 1]

\* The rest of pp_sync_dial: the caller has its answer.
DialledEarly(call, p) ==            \* faulty: the request is posted, the answer not awaited
    main = call /\ wait' = "nothing" /\ UNCHANGED point
Dialled(call, p) ==
    /\ main = call
    /\ IF wait = "nothing" THEN UNCHANGED point
       ELSE /\ point[p].sem_rsp > 0
            /\ point' = [point EXCEPT ![p].sem_rsp = @ - 1]
    /\ wait' = "nothing"

SyncWaitPeeks(p) ==                 \* faulty: the request is not taken
    point[p].sem_req > 0 /\ UNCHANGED point
SyncWait(p) ==
    /\ point[p].sem_req > 0
    /\ point' = [point EXCEPT ![p].sem_req = @ - 1]

SyncAnswer(p, code) ==
    point' = [point EXCEPT ![p].sem_rsp = @ + 1, ![p].have_rsp = TRUE, ![p].rsp = code]

\* _pp_notify_exit_thread.  mask.looping is zero all the time: nothing sets it.
NotifyNobody(call) ==               \* faulty: the loop is not told
    DialOnce(call, "exit") /\ UNCHANGED async_sent
NotifyExitThread(call) ==
    /\ async_sent' = (async_sent \/ (async = "active"))
    /\ DialOnce(call, "exit")

-----------------------------------------------------------------------------
(* The user's thread. *)

EafInit ==
    /\ main = "idle" /\ eaf = "none" /\ cycle < MaxCycle
    /\ eaf' = "init" /\ cycle' = cycle + 1
    /\ UNCHANGED <<ppVars, uvVars, threadVars, mainVars>>

\* eaf_powerpack_init: what fails is undone, which leaves the state as it was.
PpInit ==
    /\ main = "idle" /\ eaf = "init" /\ ~initialized /\ ~injected
    /\ initialized' = TRUE /\ injected' = TRUE
    /\ point' = [p \in Point |-> FreshSync]
    /\ async' = "active" /\ async_sent' = FALSE
    /\ pc' = "wait_init"
    /\ UNCHANGED <<table, up, idx, mainVars, eaf, cycle>>

\* The services register their hooks before EAF is loaded.
HookRegister(h) ==
    /\ main = "idle" /\ initialized /\ eaf = "init" /\ h \notin ToSet(table)
    /\ table' = Append(table, h)
    /\ UNCHANGED <<initialized, injected, uvVars, threadVars, mainVars, eaf, cycle>>

HookUnregister(h) ==
    /\ main = "idle" /\ eaf = "init"
    /\ \E i \in 1 .. Len(table) : table[i] = h /\ table' = RemoveAt(table, i)
    /\ UNCHANGED <<initialized, injected, uvVars, threadVars, mainVars, eaf, cycle>>

\* eaf_load: on_load_before dials, and does not look at the answer.  A context
\* made while the last powerpack still runs does not have the hook.
Load ==
    /\ main = "idle" /\ eaf = "init"
    /\ IF injected THEN DialOnce("load", "init") /\ UNCHANGED eaf
                   ELSE eaf' = "busy" /\ UNCHANGED <<mainVars, point>>
    /\ UNCHANGED <<ppVars, async, async_sent, up, threadVars, cycle>>
Loaded ==
    /\ Dialled("load", "init")
    /\ main' = "idle" /\ eaf' = "busy"
    /\ UNCHANGED <<ppVars, async, async_sent, up, threadVars, cycle>>

\* eaf_exit, of any thread: the services are still there.
EafExit ==
    /\ main = "idle"
    /\ eaf = "busy" \/ (SkipLoad /\ eaf = "init")
    /\ eaf' = "exit"
    /\ UNCHANGED <<ppVars, uvVars, threadVars, mainVars, cycle>>

\* eaf_cleanup joins the threads of the services, frees the context with the hook
\* it knows, and calls on_exit_after.
Cleanup ==
    /\ main = "idle" /\ eaf = "exit"
    /\ eaf' = "none" /\ injected' = FALSE
    /\ IF injected THEN NotifyExitThread("cleanup")
                   ELSE UNCHANGED <<mainVars, point, async_sent>>
    /\ UNCHANGED <<initialized, table, async, up, threadVars, cycle>>
CleanedUp ==
    /\ Dialled("cleanup", "exit")
    /\ main' = "idle"
    /\ UNCHANGED <<ppVars, async, async_sent, up, threadVars, eaf, cycle>>

\* eaf_powerpack_exit, after eaf_cleanup: stop the thread, join it, release libuv,
\* empty the table.
PpExit ==
    /\ main = "idle" /\ initialized /\ eaf = "none"
    /\ NotifyExitThread("exit")
    /\ UNCHANGED <<ppVars, async, up, threadVars, eaf, cycle>>
Join ==
    /\ Dialled("exit", "exit")
    /\ main' = "join"
    /\ UNCHANGED <<ppVars, async, async_sent, up, threadVars, eaf, cycle>>
Joined ==
    /\ main = "join" /\ pc = "gone"
    /\ main' = "idle" /\ pc' = "none"
    /\ async' = "none" /\ async_sent' = FALSE
    /\ table' = <<>> /\ initialized' = FALSE
    /\ UNCHANGED <<injected, point, up, idx, wait, eaf, cycle>>

-----------------------------------------------------------------------------
(* The loop thread. *)

WaitInit ==
    /\ pc = "wait_init"
    /\ SyncWait("init")
    /\ pc' = "call_init" /\ idx' = 1
    /\ UNCHANGED <<ppVars, async, async_sent, up, mainVars, eaf, cycle>>

\* _pp_call_init: the hooks in the order of the table, up to one that fails.
CallInit ==
    /\ pc = "call_init" /\ idx <= Len(table)
    /\ up' = up \cup {table[idx]}
    /\ idx' = idx + 1
    /\ UNCHANGED <<ppVars, point, async, async_sent, pc, mainVars, eaf, cycle>>

\* err_exit of _pp_thread: the hooks before the one that failed are undone, and
\* the thread ends without a wait at exit_point.
InitFails ==
    /\ pc = "call_init" /\ idx <= Len(table) /\ table[idx] \in Failing
    /\ up' = up \ {table[i] : i \in 1 .. idx - 1}
    /\ SyncAnswer("init", -1)
    /\ pc' = "gone"
    /\ UNCHANGED <<ppVars, async, async_sent, idx, mainVars, eaf, cycle>>

AnswerInit ==
    /\ pc = "call_init" /\ idx > Len(table)
    /\ SyncAnswer("init", 0)
    /\ pc' = "loop"
    /\ UNCHANGED <<ppVars, async, async_sent, up, idx, mainVars, eaf, cycle>>

\* _pp_on_uv_async_mode: every hook of the table closes its handles.
OnAsync ==
    /\ pc = "loop" /\ async = "active" /\ async_sent
    /\ async_sent' = FALSE
    /\ up' = up \ ToSet(table)
    /\ async' = "closed"
    /\ UNCHANGED <<ppVars, point, threadVars, mainVars, eaf, cycle>>

\* uv_run returns when no handle is active.
LoopEnds ==
    /\ pc = "loop" /\ async = "closed" /\ up = {}
    /\ pc' = "wait_exit"
    /\ UNCHANGED <<ppVars, uvVars, idx, mainVars, eaf, cycle>>

AnswerExit ==
    \/ /\ pc = "wait_exit"
       /\ SyncWait("exit")
       /\ pc' = "answer_exit"
       /\ UNCHANGED <<ppVars, async, async_sent, up, idx, mainVars, eaf, cycle>>
    \/ /\ pc = "answer_exit"
       /\ SyncAnswer("exit", 0)
       /\ pc' = "gone"
       /\ UNCHANGED <<ppVars, async, async_sent, up, idx, mainVars, eaf, cycle>>

-----------------------------------------------------------------------------
User ==
    \/ EafInit \/ PpInit \/ Load \/ EafExit \/ Cleanup \/ PpExit
    \/ \E h \in Hook : HookRegister(h) \/ HookUnregister(h)
Returns == Loaded \/ CleanedUp \/ Join \/ Joined
LoopThread ==
    WaitInit \/ CallInit \/ InitFails \/ AnswerInit \/ OnAsync \/ LoopEnds \/ AnswerExit

Next == User \/ Returns \/ LoopThread

Spec == Init /\ [][Next]_vars

\* Both threads run; the user may do nothing for ever, but a call that can return
\* does.
FairSpec == Spec /\ WF_vars(Returns) /\ WF_vars(LoopThread)

=============================================================================
