---------------------------- MODULE EafService ----------------------------
(***************************************************************************)
(* The service runtime of EAF (src/core/service.c): groups of services,    *)
(* one working thread per group, message queues, lazy initialisation,      *)
(* yield and resume, eaf_load, eaf_teardown, eaf_exit and eaf_cleanup.     *)
(*                                                                         *)
(* A step is one critical section (group->objlock), one semaphore          *)
(* operation, one unlocked read that decides a branch, or one entry to or  *)
(* return from a user callback.  Everything between two such points is     *)
(* private to the thread that executes it.                                 *)
(***************************************************************************)
EXTENDS Integers, Sequences, SequencesExt

CONSTANTS
    Service,    \* the services of all groups (their ids are distinct)
    NumGroup,   \* length of the group table passed to eaf_init
    Table,      \* Table[g]: the service table of group g, in table order
    Alive,      \* services with eaf_service_attribute_alive
    Lazy,       \* services with eaf_service_attribute_lazyload
    Capacity,   \* Capacity[s]: msgq_size of the service table entry
    Client,     \* threads of the user that call the API
    Main,       \* the thread that calls eaf_load and eaf_cleanup
    External,   \* the sender id of a thread that runs no service
    NoService,  \* NULL service
    NoMsg       \* NULL message record

CONSTANTS
    Request,    \* identities of the requests created in a behaviour
    From, To,   \* sender (service or External) and receiver of each request
    SendVeto,   \* messages the hook on_message_send_before refuses
    HandleVeto, \* messages the hook on_message_handle_before refuses
    MayYield,   \* messages whose handler may yield
    Resumer,    \* threads that call eaf_resume
    Quitter,    \* threads that call eaf_exit or eaf_teardown
    QuitOps,    \* which of the two they call
    MaxYield, MaxResume, MaxQuit   \* bounds on those calls in a behaviour

Group == 1 .. NumGroup
Thread == Group \cup Client \cup {Main}

\* A request, the response its handler sends, and the default response of
\* the teardown procedure.
Msg == [kind : {"req", "rsp", "dflt"}, id : Request]
Req(r) == [kind |-> "req", id |-> r]
Dflt(r) == [kind |-> "dflt", id |-> r]

Dest(m) == IF m.kind = "req" THEN To[m.id] ELSE From[m.id]

\* The group whose table holds service s.
GroupOf(s) == CHOOSE g \in Group : \E i \in 1 .. Len(Table[g]) : Table[g][i] = s

CtxState == {"none", "init", "busy", "teardown", "exit"}
WaitState == {"init0", "init2", "idle", "yield", "exit1"}
BusyState == {"init1", "busy", "exit0"}

Pc == {"none", "start", "startpend", "init", "oninit", "ready", "loop",
       "pick", "pend", "try", "dispatch", "handle", "run", "yieldhook",
       "ifteardown", "teardown", "onexit", "drain", "drop", "groupexit", "end"}
UserPc == {"oninit", "run", "yieldhook", "onexit"}
Phase == {"init", "busy", "drain", "teardown", "exit"}
CallPc == {"idle", "check", "alloc", "push", "resume", "post",
             "exit", "teardown", "wake"}
Fate == {"fresh", "sending", "failed", "queued", "handled", "vetoed",
         "dropped", "freed"}
MainPc == {"new", "boot", "fix", "start", "wake", "wait", "up", "rejected",
           "join", "free", "gone"}

ASSUME GroupAssumption == NumGroup \in Nat \ {0}
ASSUME TableAssumption ==
    /\ Table \in [Group -> Seq(Service)]
    /\ \A g, h \in Group : \A i \in 1 .. Len(Table[g]), j \in 1 .. Len(Table[h]) :
          Table[g][i] = Table[h][j] => g = h /\ i = j
    /\ \A s \in Service : \E g \in Group : \E i \in 1 .. Len(Table[g]) : Table[g][i] = s
ASSUME ServiceAssumption ==
    /\ Alive \subseteq Service
    /\ Lazy \subseteq Service
    /\ Capacity \in [Service -> Nat]
    /\ External \notin Service
    /\ NoService \notin Service
ASSUME MessageAssumption ==
    /\ From \in [Request -> Service \cup {External}]
    /\ To \in [Request -> Service]
    /\ NoMsg \notin Msg
    /\ SendVeto \subseteq Msg
    /\ HandleVeto \subseteq Msg
    /\ MayYield \subseteq Msg
ASSUME ThreadAssumption ==
    /\ IsFiniteSet(Client)
    /\ Main \notin Group \cup Client
    /\ Group \cap Client = {}
    /\ Resumer \subseteq Thread
    /\ Quitter \subseteq Thread
    /\ QuitOps \subseteq {"exit", "teardown"}
ASSUME BoundAssumption ==
    /\ MaxYield \in Nat
    /\ MaxResume \in Nat
    /\ MaxQuit \in Nat

VARIABLES
    ctx_state,  \* g_eaf_ctx->state, "none" when g_eaf_ctx is NULL
    ready,      \* g_eaf_ctx->ready
    main_pc, main_grp, main_srv,    \* where Main is, and its loop indices
    entry       \* services with an entrypoint (eaf_register)
VARIABLES
    state,      \* state[s]: runtime.local.state
    busy_list,  \* busy_list[g]: coroutine.busy_list, in order
    wait_list,  \* wait_list[g]: coroutine.wait_list, whose order nothing reads
    queue,      \* queue[s]: msgq.queue
    cur_msg     \* cur_msg[s]: msgq.cur_msg
VARIABLES
    sem,        \* sem[g]: msgq.sem
    pc,         \* pc[g]: where the working thread of g is
    phase,      \* phase[g]: which part of _eaf_thread it executes
    idx,        \* idx[g]: index of its loop over the service table
    cur_run,    \* cur_run[g]: coroutine.cur_run
    init_count  \* init_count[g]: result of _eaf_group_init_necessary
VARIABLES
    call,       \* call[t]: step of the API call thread t is executing
    call_msg,   \* call_msg[t]: the message it sends
    call_srv,   \* call_srv[t]: the service it found
    call_grp    \* call_grp[t]: index of the loop of _eaf_exit
VARIABLES
    refcnt,     \* refcnt[m]: reference count, 0 before creation and after release
    fate,       \* fate[m]: history, what became of message m
    yields, resumes, quits   \* history, for the bounds

ctxVars == <<ctx_state, ready, main_pc, main_grp, main_srv, entry>>
listVars == <<state, busy_list, wait_list>>
msgqVars == <<queue, cur_msg>>
ctlVars == <<pc, phase, idx, cur_run, init_count>>
callVars == <<call, call_msg, call_srv, call_grp>>
msgVars == <<refcnt, fate>>
budgetVars == <<yields, resumes, quits>>
\* What is left alone by a step of a working thread, of an API call and of
\* Main that changes only the thread's own variables.
restCtl == <<ctxVars, listVars, msgqVars, sem, callVars, msgVars, budgetVars>>
restApi == <<ctxVars, listVars, msgqVars, sem, ctlVars, budgetVars>>
restMain == <<listVars, msgqVars, sem, ctlVars, callVars, msgVars, budgetVars>>
vars == <<ctxVars, listVars, msgqVars, sem, ctlVars, callVars, msgVars, budgetVars>>

Init ==
    /\ ctx_state = "none" /\ ready = 0
    /\ main_pc = "new" /\ main_grp = 1 /\ main_srv = 1
    /\ entry = {}
    /\ state = [s \in Service |-> "init0"]
    /\ busy_list = [g \in Group |-> <<>>]
    /\ wait_list = [g \in Group |-> {}]
    /\ queue = [s \in Service |-> <<>>]
    /\ cur_msg = [s \in Service |-> NoMsg]
    /\ sem = [g \in Group |-> 0]
    /\ pc = [g \in Group |-> "none"]
    /\ phase = [g \in Group |-> "init"]
    /\ idx = [g \in Group |-> 1]
    /\ cur_run = [g \in Group |-> NoService]
    /\ init_count = [g \in Group |-> 0]
    /\ call = [t \in Thread |-> "idle"]
    /\ call_msg = [t \in Thread |-> NoMsg]
    /\ call_srv = [t \in Thread |-> NoService]
    /\ call_grp = [t \in Thread |-> 1]
    /\ refcnt = [m \in Msg |-> 0]
    /\ fate = [m \in Msg |-> "fresh"]
    /\ yields = 0 /\ resumes = 0 /\ quits = 0

-----------------------------------------------------------------------------
\* Lists and service states

\* eaf_list_erase: l without its element s.  (Operators marked faulty are
\* variants for mutation runs and are not part of the specification.)
EraseNothing(l, s) == l          \* faulty: the node stays linked
Erase(l, s) == RemoveAt(l, CHOOSE i \in 1 .. Len(l) : l[i] = s)

\* _eaf_service_set_state_nolock: s moves to state new and to the tail of the
\* list for that state.
SetState(s, new) ==
    LET g == GroupOf(s)
        rest == IF state[s] \in BusyState THEN Erase(busy_list[g], s) ELSE busy_list[g]
    IN  /\ state' = [state EXCEPT ![s] = new]
        /\ busy_list' = [busy_list EXCEPT ![g] =
                IF new \in BusyState THEN Append(rest, s) ELSE rest]
        /\ wait_list' = [wait_list EXCEPT ![g] =
                IF new \in WaitState THEN @ \cup {s} ELSE @ \ {s}]

PostLost(g) == UNCHANGED sem     \* faulty: the token is forgotten
Post(g) == sem' = [sem EXCEPT ![g] = @ + 1]

\* The loops over the group table end after its last entry.
LastGroupEarly(g) == g + 1 >= NumGroup   \* faulty: one group too few
LastGroup(g) == g = NumGroup

\* The service whose callback the working thread of g is executing.  In the on_exit
\* of the teardown that is not cur_run, which _eaf_service_teardown does not set:
\* eaf_service_self answers there with the service that ran last.
Running(g) == IF pc[g] = "onexit" THEN Table[g][idx[g]] ELSE cur_run[g]

-----------------------------------------------------------------------------
\* The API called from user code: an external thread, or a callback of a
\* service.  A call is a frame of thread t that other threads interleave with.

InUserCode(t) ==
    /\ call[t] = "idle"
    /\ t \in Group => pc[t] \in UserPc
    /\ t = Main => main_pc \in {"boot", "up", "rejected"}

Self(t) == IF t \in Group THEN Running(t) ELSE External

\* A request is sent on behalf of its sender; a response is sent by the handler
\* of the request, or by the hook that runs when that handler yields.
MaySend(t, m) ==
    \/ m.kind = "req" /\ From[m.id] = Self(t)
    \/ /\ m.kind = "rsp"
       /\ t \in Group
       /\ pc[t] \in {"run", "yieldhook"}
       /\ cur_msg[cur_run[t]] = Req(m.id)

\* eaf_msg_create_req or eaf_msg_create_rsp, then eaf_send_req or eaf_send_rsp.
StartSend(t, m) ==
    /\ call' = [call EXCEPT ![t] = "check"]
    /\ call_msg' = [call_msg EXCEPT ![t] = m]
    /\ refcnt' = [refcnt EXCEPT ![m] = 1]
    /\ fate' = [fate EXCEPT ![m] = "sending"]
    /\ UNCHANGED <<call_srv, call_grp>>

SendCall(t) ==
    /\ InUserCode(t)
    /\ \E m \in Msg : fate[m] = "fresh" /\ MaySend(t, m) /\ StartSend(t, m)
    /\ UNCHANGED restApi

\* A send returns an error: the record, if there is one, and the caller drop
\* their references.
SendFails(t, refs) ==
    /\ call' = [call EXCEPT ![t] = "idle"]
    /\ call_msg' = [call_msg EXCEPT ![t] = NoMsg]
    /\ call_srv' = [call_srv EXCEPT ![t] = NoService]
    /\ refcnt' = [refcnt EXCEPT ![call_msg[t]] = @ - refs]
    /\ fate' = [fate EXCEPT ![call_msg[t]] = "failed"]
    /\ UNCHANGED call_grp

\* eaf_send_req, eaf_send_rsp: check the context, ask the hook, find the service.
SendCheck(t) ==
    /\ call[t] = "check"
    /\ LET m == call_msg[t] IN
       IF ctx_state = "busy" /\ m \notin SendVeto /\ Dest(m) \in entry
       THEN /\ call' = [call EXCEPT ![t] = "alloc"]
            /\ call_srv' = [call_srv EXCEPT ![t] = Dest(m)]
            /\ UNCHANGED <<call_msg, call_grp, msgVars>>
       ELSE SendFails(t, 1)
    /\ UNCHANGED restApi

\* _eaf_service_push_msg up to the lock: responses skip the capacity check.
FullNever(m, s) == FALSE         \* faulty: no limit
Full(m, s) == m.kind = "req" /\ Len(queue[s]) >= Capacity[s]
PushAlloc(t) ==
    /\ call[t] = "alloc"
    /\ LET m == call_msg[t] s == call_srv[t] IN
       IF Full(m, s)
       THEN SendFails(t, 1)
       ELSE /\ call' = [call EXCEPT ![t] = "push"]
            /\ refcnt' = [refcnt EXCEPT ![m] = @ + 1]
            /\ UNCHANGED <<call_msg, call_srv, call_grp, fate>>
    /\ UNCHANGED restApi

\* The critical section of _eaf_service_push_msg, refused by a service that is
\* executing on_exit.
PushFailLeaks(t) ==              \* faulty: the record keeps its reference
    /\ call[t] = "push"
    /\ state[call_srv[t]] = "exit0"
    /\ SendFails(t, 1)
    /\ UNCHANGED restApi
PushFail(t) ==
    /\ call[t] = "push"
    /\ state[call_srv[t]] = "exit0"
    /\ SendFails(t, 2)
    /\ UNCHANGED restApi

\* A message moves its receiver from init2 to init1 and from idle to busy.
PushedStateStale(s) == state[s]  \* faulty: nobody schedules the receiver
PushedState(s) ==
    CASE state[s] = "init2" -> "init1"
      [] state[s] = "idle" -> "busy"
      [] OTHER -> state[s]
PushedFront(s, m) == <<m>> \o queue[s]      \* faulty: last in, first out
Pushed(s, m) == Append(queue[s], m)

PushQueue(t) ==
    /\ call[t] = "push"
    /\ LET m == call_msg[t] s == call_srv[t] IN
       /\ state[s] # "exit0"
       /\ IF PushedState(s) = state[s] THEN UNCHANGED listVars
          ELSE SetState(s, PushedState(s))
       /\ queue' = [queue EXCEPT ![s] = Pushed(s, m)]
       /\ fate' = [fate EXCEPT ![m] = "queued"]
    /\ call' = [call EXCEPT ![t] = "post"]
    /\ UNCHANGED <<ctxVars, cur_msg, sem, ctlVars, call_msg, call_srv,
                   call_grp, refcnt, budgetVars>>

\* The sem_post that ends a push or a resume, and the sender's eaf_msg_dec_ref.
CallPost(t) ==
    /\ call[t] = "post"
    /\ Post(GroupOf(call_srv[t]))
    /\ refcnt' = IF call_msg[t] = NoMsg THEN refcnt
                 ELSE [refcnt EXCEPT ![call_msg[t]] = @ - 1]
    /\ call' = [call EXCEPT ![t] = "idle"]
    /\ call_msg' = [call_msg EXCEPT ![t] = NoMsg]
    /\ call_srv' = [call_srv EXCEPT ![t] = NoService]
    /\ UNCHANGED <<ctxVars, listVars, msgqVars, ctlVars, call_grp, fate,
                   budgetVars>>

\* eaf_resume: it does not look at the context state.
ResumeCall(t) ==
    /\ InUserCode(t) /\ t \in Resumer /\ resumes < MaxResume
    /\ ctx_state # "none"
    /\ \E s \in entry :
          /\ call' = [call EXCEPT ![t] = "resume"]
          /\ call_srv' = [call_srv EXCEPT ![t] = s]
    /\ resumes' = resumes + 1
    /\ UNCHANGED <<ctxVars, listVars, msgqVars, sem, ctlVars, call_msg,
                   call_grp, msgVars, yields, quits>>

\* Only a service in state yield is resumed.
Resumable(s) == state[s] = "yield"

ResumeLock(t) ==
    /\ call[t] = "resume"
    /\ IF Resumable(call_srv[t])
       THEN /\ SetState(call_srv[t], "busy")
            /\ call' = [call EXCEPT ![t] = "post"]
            /\ UNCHANGED call_srv
       ELSE /\ call' = [call EXCEPT ![t] = "idle"]
            /\ call_srv' = [call_srv EXCEPT ![t] = NoService]
            /\ UNCHANGED listVars
    /\ UNCHANGED <<ctxVars, msgqVars, sem, ctlVars, call_msg, call_grp,
                   msgVars, budgetVars>>

\* eaf_exit and eaf_teardown up to their check of the context state.
QuitCall(t) ==
    /\ InUserCode(t) /\ t \in Quitter /\ quits < MaxQuit
    /\ \E op \in QuitOps :
          /\ ctx_state \notin {"none", op}
          /\ call' = [call EXCEPT ![t] = op]
    /\ quits' = quits + 1
    /\ UNCHANGED <<ctxVars, listVars, msgqVars, sem, ctlVars, call_msg,
                   call_srv, call_grp, msgVars, yields, resumes>>

\* _eaf_exit: set the context state, then wake every group.
QuitSet(t) ==
    /\ call[t] \in {"exit", "teardown"}
    /\ ctx_state' = call[t]
    /\ call' = [call EXCEPT ![t] = "wake"]
    /\ call_grp' = [call_grp EXCEPT ![t] = 1]
    /\ UNCHANGED <<ready, main_pc, main_grp, main_srv, entry, listVars,
                   msgqVars, sem, ctlVars, call_msg, call_srv, msgVars,
                   budgetVars>>

QuitWake(t) ==
    /\ call[t] = "wake"
    /\ Post(call_grp[t])
    /\ IF LastGroup(call_grp[t])
       THEN /\ call' = [call EXCEPT ![t] = "idle"]
            /\ call_grp' = [call_grp EXCEPT ![t] = 1]
       ELSE /\ call_grp' = [call_grp EXCEPT ![t] = @ + 1]
            /\ UNCHANGED call
    /\ UNCHANGED <<ctxVars, listVars, msgqVars, ctlVars, call_msg, call_srv,
                   msgVars, budgetVars>>

\* A thread begins a call; a thread continues the call it is in.
CallStart(t) == SendCall(t) \/ ResumeCall(t) \/ QuitCall(t)
CallStep(t) ==
    \/ SendCheck(t) \/ PushAlloc(t) \/ PushFail(t) \/ PushQueue(t) \/ CallPost(t)
    \/ ResumeLock(t)
    \/ QuitSet(t) \/ QuitWake(t)

-----------------------------------------------------------------------------
\* The working thread of group g (_eaf_thread).

Jump(g, label) == pc' = [pc EXCEPT ![g] = label]
At(g, label) == pc[g] = label /\ call[g] = "idle"

\* while (ctx->state == init) sem_pend: a working thread waits for eaf_load.
WaitStart(g) ==
    /\ At(g, "start")
    /\ Jump(g, CASE ctx_state = "init" -> "startpend"
                 [] ctx_state = "busy" -> "init"
                 [] OTHER -> "end")
    /\ UNCHANGED <<restCtl, phase, idx, cur_run, init_count>>

\* sem_pend(INFINITY), in that loop or because no service is busy.
Pend(g) ==
    /\ pc[g] \in {"startpend", "pend"} /\ sem[g] > 0
    /\ sem' = [sem EXCEPT ![g] = @ - 1]
    /\ Jump(g, IF pc[g] = "pend" THEN "loop" ELSE "start")
    /\ UNCHANGED <<ctxVars, listVars, msgqVars, phase, idx, cur_run,
                   init_count, callVars, msgVars, budgetVars>>

\* One iteration of _eaf_group_init_necessary.
InitNext(g) ==
    /\ At(g, "init") /\ idx[g] <= Len(Table[g])
    /\ LET s == Table[g][idx[g]] IN
       /\ cur_run' = [cur_run EXCEPT ![g] = s]
       /\ IF state[s] = "init1"
          THEN Jump(g, "oninit") /\ UNCHANGED idx
          ELSE idx' = [idx EXCEPT ![g] = @ + 1] /\ UNCHANGED pc
    /\ UNCHANGED <<restCtl, phase, init_count>>

InitDone(g) ==
    /\ At(g, "init") /\ idx[g] > Len(Table[g])
    /\ Jump(g, "ready")
    /\ UNCHANGED <<restCtl, phase, idx, cur_run, init_count>>

\* on_init returns; _eaf_group_finish_service_init_lock makes the service idle,
\* or busy when a message is already queued.
InitialisedIdle(s) == "idle"     \* faulty: queued messages are overlooked
Initialised(s) == IF queue[s] = <<>> THEN "idle" ELSE "busy"

OnInitReturn(g) ==
    /\ At(g, "oninit")
    /\ SetState(cur_run[g], Initialised(cur_run[g]))
    /\ IF phase[g] = "init"
       THEN /\ Jump(g, "init")
            /\ idx' = [idx EXCEPT ![g] = @ + 1]
            /\ init_count' = [init_count EXCEPT ![g] = @ + 1]
       ELSE /\ Jump(g, "dispatch")
            /\ UNCHANGED <<idx, init_count>>
    /\ UNCHANGED <<ctxVars, msgqVars, sem, phase, cur_run, callVars, msgVars,
                   budgetVars>>

\* Post g_eaf_ctx->ready; a thread that initialised no service returns.
PostReadyIfInit(g) ==            \* faulty: a thread with nothing to do is silent
    /\ At(g, "ready")
    /\ ready' = IF init_count[g] <= 0 THEN ready ELSE ready + 1
    /\ Jump(g, IF init_count[g] <= 0 THEN "end" ELSE "loop")
    /\ phase' = [phase EXCEPT ![g] = "busy"]
    /\ UNCHANGED <<ctx_state, main_pc, main_grp, main_srv, entry, listVars,
                   msgqVars, sem, idx, cur_run, init_count, callVars, msgVars,
                   budgetVars>>
PostReady(g) ==
    /\ At(g, "ready")
    /\ ready' = ready + 1
    /\ Jump(g, IF init_count[g] <= 0 THEN "end" ELSE "loop")
    /\ phase' = [phase EXCEPT ![g] = "busy"]
    /\ UNCHANGED <<ctx_state, main_pc, main_grp, main_srv, entry, listVars,
                   msgqVars, sem, idx, cur_run, init_count, callVars,
                   msgVars, budgetVars>>

\* The conditions of the two event loops.
LoopCheck(g) ==
    /\ At(g, "loop")
    /\ CASE ctx_state = phase[g] -> Jump(g, "pick") /\ UNCHANGED <<phase, idx>>
         [] ctx_state # phase[g] /\ phase[g] = "busy" ->
                Jump(g, "ifteardown") /\ UNCHANGED <<phase, idx>>
         [] OTHER -> /\ Jump(g, "groupexit")
                     /\ phase' = [phase EXCEPT ![g] = "exit"]
                     /\ idx' = [idx EXCEPT ![g] = Len(Table[g])]
    /\ UNCHANGED <<restCtl, cur_run, init_count>>

IfTeardown(g) ==
    /\ At(g, "ifteardown")
    /\ IF ctx_state = "teardown"
       THEN /\ Jump(g, "teardown")
            /\ phase' = [phase EXCEPT ![g] = "drain"]
            /\ idx' = [idx EXCEPT ![g] = 1]
       ELSE /\ Jump(g, "loop")
            /\ phase' = [phase EXCEPT ![g] = "teardown"]
            /\ UNCHANGED idx
    /\ UNCHANGED <<restCtl, cur_run, init_count>>

\* _eaf_get_first_busy_service_lock
Pick(g) ==
    /\ At(g, "pick")
    /\ IF busy_list[g] = <<>>
       THEN Jump(g, "pend") /\ UNCHANGED cur_run
       ELSE Jump(g, "try") /\ cur_run' = [cur_run EXCEPT ![g] = Head(busy_list[g])]
    /\ UNCHANGED <<restCtl, phase, idx, init_count>>

\* sem_pend(0): a token is taken if there is one.
TryPend(g) ==
    /\ At(g, "try")
    /\ sem' = [sem EXCEPT ![g] = IF @ > 0 THEN @ - 1 ELSE @]
    /\ Jump(g, "dispatch")
    /\ UNCHANGED <<ctxVars, listVars, msgqVars, phase, idx, cur_run,
                   init_count, callVars, msgVars, budgetVars>>

\* _eaf_handle_new_message: the delayed initialisation.
DispatchInit(g) ==
    /\ At(g, "dispatch") /\ state[cur_run[g]] = "init1"
    /\ Jump(g, "oninit")
    /\ UNCHANGED <<restCtl, phase, idx, cur_run, init_count>>

\* _eaf_handle_new_message: continue a yielded handler, or pop a message, or
\* find the queue empty and become idle.
SuspendedNever(s) == FALSE       \* faulty: a yielded handler is forgotten
Suspended(s) == cur_msg[s] # NoMsg
PeekFront(s) == queue[s]         \* faulty: the message stays queued
PopFront(s) == Tail(queue[s])

Dispatch(g) ==
    /\ At(g, "dispatch") /\ state[cur_run[g]] # "init1"
    /\ LET s == cur_run[g] IN
       CASE Suspended(s) -> Jump(g, "run") /\ UNCHANGED <<listVars, msgqVars>>
         [] ~Suspended(s) /\ queue[s] = <<>> ->
                Jump(g, "loop") /\ SetState(s, "idle") /\ UNCHANGED msgqVars
         [] OTHER -> /\ Jump(g, "handle")
                     /\ cur_msg' = [cur_msg EXCEPT ![s] = Head(queue[s])]
                     /\ queue' = [queue EXCEPT ![s] = PopFront(s)]
                     /\ UNCHANGED listVars
    /\ UNCHANGED <<ctxVars, sem, phase, idx, cur_run, init_count, callVars,
                   msgVars, budgetVars>>

\* _eaf_service_reset: the record of the current message is destroyed.
Reset(s, what) ==
    /\ cur_msg' = [cur_msg EXCEPT ![s] = NoMsg]
    /\ refcnt' = [refcnt EXCEPT ![cur_msg[s]] = @ - 1]
    /\ fate' = [fate EXCEPT ![cur_msg[s]] = what]

\* The hook on_message_handle_before.
HandleBefore(g) ==
    /\ At(g, "handle")
    /\ LET s == cur_run[g] IN
       IF cur_msg[s] \in HandleVeto
       THEN Jump(g, "loop") /\ Reset(s, "vetoed")
       ELSE Jump(g, "run") /\ UNCHANGED <<cur_msg, msgVars>>
    /\ UNCHANGED <<ctxVars, listVars, queue, sem, phase, idx, cur_run,
                   init_count, callVars, budgetVars>>

\* _eaf_service_resume_message: the handler returns, with EAF_SERVICE_CC0_YIELD
\* set or not.
HandlerReturn(g) ==
    /\ At(g, "run")
    /\ Jump(g, "loop")
    /\ Reset(cur_run[g], "handled")
    /\ UNCHANGED <<ctxVars, listVars, queue, sem, phase, idx, cur_run,
                   init_count, callVars, budgetVars>>

HandlerYield(g) ==
    /\ At(g, "run")
    /\ cur_msg[cur_run[g]] \in MayYield /\ yields < MaxYield
    /\ Jump(g, "yieldhook")
    /\ SetState(cur_run[g], "yield")
    /\ yields' = yields + 1
    /\ UNCHANGED <<ctxVars, msgqVars, sem, phase, idx, cur_run, init_count,
                   callVars, msgVars, resumes, quits>>

YieldHookReturn(g) ==
    /\ At(g, "yieldhook")
    /\ Jump(g, "loop")
    /\ UNCHANGED <<restCtl, phase, idx, cur_run, init_count>>

\* _eaf_service_teardown: on_exit of every service that is not alive, in table
\* order; cur_run keeps its value.
TeardownNext(g) ==
    /\ At(g, "teardown") /\ idx[g] <= Len(Table[g])
    /\ LET s == Table[g][idx[g]] IN
       IF s \in Alive \/ s \notin entry
       THEN idx' = [idx EXCEPT ![g] = @ + 1] /\ UNCHANGED <<pc, listVars>>
       ELSE Jump(g, "onexit") /\ SetState(s, "exit0") /\ UNCHANGED idx
    /\ UNCHANGED <<ctxVars, msgqVars, sem, phase, cur_run, init_count,
                   callVars, msgVars, budgetVars>>

TeardownDone(g) ==
    /\ At(g, "teardown") /\ idx[g] > Len(Table[g])
    /\ Jump(g, "loop")
    /\ phase' = [phase EXCEPT ![g] = "teardown"]
    /\ UNCHANGED <<restCtl, idx, cur_run, init_count>>

\* One iteration of _eaf_group_exit, which goes down from the last service.
ExitedNever(s) == FALSE          \* faulty: services are exited again
Exited(s) == state[s] = "exit1"

GroupExitNext(g) ==
    /\ At(g, "groupexit") /\ idx[g] > 0
    /\ LET s == Table[g][idx[g]] IN
       IF Exited(s) \/ s \notin entry
       THEN idx' = [idx EXCEPT ![g] = @ - 1] /\ UNCHANGED <<pc, cur_run, listVars>>
       ELSE /\ Jump(g, "onexit")
            /\ cur_run' = [cur_run EXCEPT ![g] = s]
            /\ SetState(s, "exit0")
            /\ UNCHANGED idx
    /\ UNCHANGED <<ctxVars, msgqVars, sem, phase, init_count, callVars,
                   msgVars, budgetVars>>

GroupExitDone(g) ==
    /\ At(g, "groupexit") /\ idx[g] = 0
    /\ Jump(g, "end")
    /\ UNCHANGED <<restCtl, phase, idx, cur_run, init_count>>

\* on_exit returns: the teardown goes on to drain the queue, _eaf_group_exit
\* marks the service dead.
OnExitReturn(g) ==
    /\ At(g, "onexit")
    /\ IF phase[g] = "drain"
       THEN Jump(g, "drain") /\ UNCHANGED <<idx, listVars>>
       ELSE /\ Jump(g, "groupexit")
            /\ SetState(Table[g][idx[g]], "exit1")
            /\ idx' = [idx EXCEPT ![g] = @ - 1]
    /\ UNCHANGED <<ctxVars, msgqVars, sem, phase, cur_run, init_count,
                   callVars, msgVars, budgetVars>>

\* _eaf_service_teardown_cleanup_msgq takes the current message, then the
\* queued ones, and answers a request with the default response.  The record in
\* the hands of the thread is cur_msg here; nobody else reads it.
DrainNext(g) ==
    /\ At(g, "drain")
    /\ LET s == Table[g][idx[g]]
           m == IF cur_msg[s] # NoMsg THEN cur_msg[s] ELSE Head(queue[s])
       IN  /\ cur_msg[s] # NoMsg \/ queue[s] # <<>>
           /\ cur_msg' = [cur_msg EXCEPT ![s] = m]
           /\ queue' = IF cur_msg[s] # NoMsg THEN queue
                       ELSE [queue EXCEPT ![s] = PopFront(s)]
           /\ IF m.kind = "req" THEN StartSend(g, Dflt(m.id))
              ELSE UNCHANGED <<callVars, msgVars>>
    /\ Jump(g, "drop")
    /\ UNCHANGED <<ctxVars, listVars, sem, phase, idx, cur_run, init_count,
                   budgetVars>>

Drop(g) ==
    /\ At(g, "drop")
    /\ Jump(g, "drain")
    /\ Reset(Table[g][idx[g]], "dropped")
    /\ UNCHANGED <<ctxVars, listVars, queue, sem, phase, idx, cur_run,
                   init_count, callVars, budgetVars>>

DrainDone(g) ==
    /\ At(g, "drain")
    /\ LET s == Table[g][idx[g]] IN
       /\ cur_msg[s] = NoMsg /\ queue[s] = <<>>
       /\ SetState(s, "exit1")
    /\ Jump(g, "teardown")
    /\ idx' = [idx EXCEPT ![g] = @ + 1]
    /\ UNCHANGED <<ctxVars, msgqVars, sem, phase, cur_run, init_count,
                   callVars, msgVars, budgetVars>>

GroupStep(g) ==
    \/ WaitStart(g) \/ Pend(g)
    \/ InitNext(g) \/ InitDone(g) \/ OnInitReturn(g) \/ PostReady(g)
    \/ LoopCheck(g) \/ IfTeardown(g) \/ Pick(g) \/ TryPend(g)
    \/ DispatchInit(g) \/ Dispatch(g) \/ HandleBefore(g)
    \/ HandlerReturn(g) \/ HandlerYield(g) \/ YieldHookReturn(g)
    \/ TeardownNext(g) \/ TeardownDone(g) \/ GroupExitNext(g) \/ GroupExitDone(g)
    \/ OnExitReturn(g) \/ DrainNext(g) \/ Drop(g) \/ DrainDone(g)

-----------------------------------------------------------------------------
\* The thread that brings EAF up and takes it down.

MainAt(label) == main_pc = label /\ call[Main] = "idle"

\* eaf_init, successful: every group is created and its thread is running.
EafInit ==
    /\ MainAt("new")
    /\ main_pc' = "boot"
    /\ ctx_state' = "init"
    /\ wait_list' = [g \in Group |-> {s \in Service : GroupOf(s) = g}]
    /\ pc' = [g \in Group |-> "start"]
    /\ UNCHANGED <<ready, main_grp, main_srv, entry, state, busy_list,
                   msgqVars, sem, phase, idx, cur_run, init_count,
                   callVars, msgVars, budgetVars>>

\* eaf_register
Register(s) ==
    /\ MainAt("boot") /\ ctx_state = "init" /\ s \notin entry
    /\ entry' = entry \cup {s}
    /\ UNCHANGED <<restMain, ctx_state, ready, main_pc, main_grp, main_srv>>

\* eaf_load up to _eaf_load_fix_state
LoadCall ==
    /\ MainAt("boot")
    /\ main_pc' = IF ctx_state = "init" THEN "fix" ELSE "rejected"
    /\ UNCHANGED <<restMain, ctx_state, ready, main_grp, main_srv, entry>>

\* One service of _eaf_load_fix_state.  The lock is held for a whole group; what
\* the others can see of a service (it is not in state yield) does not change.
LoadFix ==
    /\ main_pc = "fix" /\ main_grp <= NumGroup
    /\ IF main_srv > Len(Table[main_grp])
       THEN main_grp' = main_grp + 1 /\ main_srv' = 1 /\ UNCHANGED listVars
       ELSE LET s == Table[main_grp][main_srv] IN
            /\ SetState(s, CASE s \notin entry -> "exit1"
                             [] s \in entry \cap Lazy -> "init2"
                             [] OTHER -> "init1")
            /\ main_srv' = main_srv + 1 /\ UNCHANGED main_grp
    /\ UNCHANGED <<ctx_state, ready, main_pc, entry, msgqVars, sem, ctlVars,
                   callVars, msgVars, budgetVars>>

\* The context becomes busy, whatever it is by now.
LoadStart ==
    /\ main_pc = "fix" /\ main_grp > NumGroup
    /\ ctx_state' = "busy"
    /\ main_pc' = "wake" /\ main_grp' = 1
    /\ UNCHANGED <<restMain, ready, main_srv, entry>>

LoadWake ==
    /\ main_pc = "wake"
    /\ Post(main_grp)
    /\ IF LastGroup(main_grp) THEN main_pc' = "wait" /\ main_grp' = 1
       ELSE UNCHANGED main_pc /\ main_grp' = main_grp + 1
    /\ UNCHANGED <<ctx_state, ready, main_srv, entry, listVars, msgqVars,
                   ctlVars, callVars, msgVars, budgetVars>>

\* sem_pend(ready), once per group
LoadWait ==
    /\ main_pc = "wait" /\ ready > 0
    /\ ready' = ready - 1
    /\ IF LastGroup(main_grp) THEN main_pc' = "up" /\ main_grp' = 1
       ELSE UNCHANGED main_pc /\ main_grp' = main_grp + 1
    /\ UNCHANGED <<restMain, ctx_state, main_srv, entry>>

CleanupCall ==
    /\ main_pc \in {"up", "rejected"} /\ call[Main] = "idle"
    /\ main_pc' = "join" /\ main_grp' = 1
    /\ UNCHANGED <<restMain, ctx_state, ready, main_srv, entry>>

\* _eaf_cleanup_group: join the thread, release the messages of every service,
\* destroy the lock and the semaphore.
Held(s) == ToSet(queue[s]) \cup ({cur_msg[s]} \ {NoMsg})

CleanupGroup ==
    /\ main_pc = "join" /\ pc[main_grp] = "end"
    /\ LET mine == {s \in Service : GroupOf(s) = main_grp}
           held == UNION {Held(s) : s \in mine}
       IN  /\ queue' = [s \in Service |-> IF s \in mine THEN <<>> ELSE queue[s]]
           /\ cur_msg' = [s \in Service |-> IF s \in mine THEN NoMsg ELSE cur_msg[s]]
           /\ refcnt' = [m \in Msg |-> IF m \in held THEN refcnt[m] - 1 ELSE refcnt[m]]
           /\ fate' = [m \in Msg |-> IF m \in held THEN "freed" ELSE fate[m]]
    /\ IF LastGroup(main_grp) THEN main_pc' = "free" /\ UNCHANGED main_grp
       ELSE UNCHANGED main_pc /\ main_grp' = main_grp + 1
    /\ UNCHANGED <<ctx_state, ready, main_srv, entry, listVars, sem, ctlVars,
                   callVars, budgetVars>>

\* The context is released and g_eaf_ctx becomes NULL.
CleanupFree ==
    /\ main_pc = "free"
    /\ main_pc' = "gone"
    /\ ctx_state' = "none"
    /\ UNCHANGED <<restMain, ready, main_grp, main_srv, entry>>

\* The steps Main takes without the user's code deciding anything.
MainStep == LoadFix \/ LoadStart \/ LoadWake \/ LoadWait \/ CleanupGroup \/ CleanupFree

Next ==
    \/ EafInit
    \/ \E s \in Service : Register(s)
    \/ LoadCall
    \/ CleanupCall
    \/ MainStep
    \/ \E t \in Thread : CallStart(t) \/ CallStep(t)
    \/ \E g \in Group : GroupStep(g)

\* Every thread keeps running, a callback returns, and main.c of an application
\* calls eaf_init and eaf_load; nothing forces a new call of the API.
Fairness ==
    /\ WF_vars(EafInit) /\ WF_vars(LoadCall) /\ WF_vars(MainStep)
    /\ \A t \in Thread : WF_vars(CallStep(t))
    /\ \A g \in Group : WF_vars(GroupStep(g))

Spec == Init /\ [][Next]_vars
FairSpec == Spec /\ Fairness
=============================================================================
