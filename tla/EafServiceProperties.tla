------------------------ MODULE EafServiceProperties ------------------------
(***************************************************************************)
(* What should hold of the service runtime: its type invariant, safety,    *)
(* action and liveness properties, the promise of Mailbox, the inductive   *)
(* invariant of the proofs, and four statements that one expects to hold   *)
(* of the code, three of them promised by its documentation, and do not.   *)
(***************************************************************************)
EXTENDS EafService

\* Every variable ranges over what the C type and its use allow.
CtxTypeOK ==
    /\ ctx_state \in CtxState /\ ready \in Nat
    /\ main_pc \in MainPc /\ main_grp \in 1 .. NumGroup + 1 /\ main_srv \in Nat \ {0}
    /\ entry \subseteq Service
ListTypeOK ==
    /\ state \in [Service -> WaitState \cup BusyState]
    /\ busy_list \in [Group -> Seq(Service)]
    /\ wait_list \in [Group -> SUBSET Service]
MsgqTypeOK ==
    /\ queue \in [Service -> Seq(Msg)]
    /\ cur_msg \in [Service -> Msg \cup {NoMsg}]
    /\ sem \in [Group -> Nat]
CtlTypeOK ==
    /\ pc \in [Group -> Pc]
    /\ phase \in [Group -> Phase]
    /\ idx \in [Group -> Nat]
    /\ cur_run \in [Group -> Service \cup {NoService}]
    /\ init_count \in [Group -> Nat]
CallTypeOK ==
    /\ call \in [Thread -> CallPc]
    /\ call_msg \in [Thread -> Msg \cup {NoMsg}]
    /\ call_srv \in [Thread -> Service \cup {NoService}]
    /\ call_grp \in [Thread -> Group]
MsgTypeOK ==
    /\ refcnt \in [Msg -> Int]
    /\ fate \in [Msg -> Fate]
    /\ yields \in Nat /\ resumes \in Nat /\ quits \in Nat
TypeOK == CtxTypeOK /\ ListTypeOK /\ MsgqTypeOK /\ CtlTypeOK /\ CallTypeOK /\ MsgTypeOK

\* A service is on the busy list of its own group exactly while its state is
\* init1, busy or exit0, never twice, and on the wait list otherwise: the
\* intrusive node is erased from the list it is on, by every thread that moves it.
GroupLists(g) ==
    /\ ToSet(busy_list[g]) = {s \in Service : GroupOf(s) = g /\ state[s] \in BusyState}
    /\ wait_list[g] = {s \in Service : GroupOf(s) = g /\ state[s] \in WaitState}
    /\ \A i, j \in 1 .. Len(busy_list[g]) : busy_list[g][i] = busy_list[g][j] => i = j
ListsAgree == main_pc # "new" => \A g \in Group : GroupLists(g)

\* assert(state == busy) in _eaf_handle_new_message: the service picked from
\* the busy list is still busy when its message is taken, although other
\* threads change states between the two critical sections, and a delayed
\* initialisation leaves it busy.
DispatchedIsBusy ==
    \A g \in Group : pc[g] = "dispatch" => state[cur_run[g]] \in {"busy", "init1"}

\* A message never waits behind a service that nobody will schedule: with a
\* message queued the service is not idle and not waiting for its first request.
QueuedIsScheduled ==
    \A s \in Service : queue[s] # <<>> => state[s] \notin {"idle", "init0", "init2"}

\* No lost wakeup: a working thread that has found its busy list empty, and
\* sleeps or is about to, owns a semaphore token or is about to get one as soon
\* as a service of its group becomes busy.
OwedPost(g) ==
    \E t \in Thread : call[t] = "post" /\ GroupOf(call_srv[t]) = g
NoLostWakeup ==
    \A g \in Group :
        pc[g] = "pend" /\ busy_list[g] # <<>> => sem[g] > 0 \/ OwedPost(g)

\* A working thread does not sleep through a change of the context state: once
\* the state is not the one its loop runs in, a token is there or will come from
\* the thread in _eaf_exit.
OwedWake(g) ==
    \E t \in Thread : call[t] = "wake" /\ call_grp[t] <= g
ExitIsNoticed ==
    \A g \in Group :
        pc[g] \in {"pick", "pend"} /\ ctx_state # phase[g] /\ ctx_state # "none"
            => sem[g] > 0 \/ OwedWake(g)

\* Conservation: an accepted message that was not yet handled, refused or
\* discarded is in exactly one place, the queue or the hands of its receiver;
\* every other message is in none.
Copies(m) ==
    LET positions(s) == {i \in 1 .. Len(queue[s]) : queue[s][i] = m}
                            \cup (IF cur_msg[s] = m THEN {0} ELSE {})
    IN  UNION {{s} \X positions(s) : s \in Service}
QueuedOnce ==
    \A m \in Msg :
        /\ Cardinality(Copies(m)) = IF fate[m] = "queued" THEN 1 ELSE 0
        /\ \A c \in Copies(m) : c[1] = Dest(m)

\* The reference count of a message is the number of its records plus that of
\* its sender: it is released once, by whoever is last, on every path.
RefCountExact ==
    \A m \in Msg :
        refcnt[m] = Cardinality(Copies(m))
                    + Cardinality({t \in Thread : call_msg[t] = m})
                    + Cardinality({t \in Thread : call_msg[t] = m /\ call[t] = "push"})

\* A service has no current message before on_init or while idle, and one while
\* it has yielded: eaf_resume always finds a handler to go back to.
CurrentMatchesState ==
    \A s \in Service :
        /\ state[s] \in {"init0", "init1", "init2", "idle"} => cur_msg[s] = NoMsg
        /\ state[s] = "yield" => cur_msg[s] # NoMsg

\* msgq.capacity bounds the requests in a queue up to the senders that read its
\* size before the others pushed: at most one too many per further thread that
\* can have a request for the service.
SenderOf(r) == IF From[r] = External THEN Client \cup {Main} ELSE {GroupOf(From[r])}
RequestsBounded ==
    \A s \in Service :
        LET requests == {i \in 1 .. Len(queue[s]) : queue[s][i].kind = "req"}
            senders == UNION {SenderOf(r) : r \in {r \in Request : To[r] = s}}
        IN  requests # {} => Cardinality(requests) <= Capacity[s] + Cardinality(senders) - 1

\* eaf_load returns after every service that is not lazy has been through
\* on_init, whatever the other threads did meanwhile.
LoadedIsInitialised ==
    main_pc = "up" => \A s \in entry \ Lazy : state[s] \notin {"init0", "init1"}

\* A service is exited at most once, whatever eaf_teardown, eaf_exit, senders and
\* resumers do: exit0 leads only to exit1, and exit1 is final.  Whether it was
\* initialised before is another matter, see ExitedAfterInit.
ExitIsFinal ==
    [][\A s \in Service :
          /\ state[s] = "exit0" => state'[s] \in {"exit0", "exit1"}
          /\ state[s] = "exit1" => state'[s] = "exit1"]_vars

\* The runtime implements Mailbox: an accepted message is served by its
\* receiver, once, in order, never while another of its handlers is suspended,
\* and by no service whose group eaf_cleanup has taken down.
CleanedUp(g) ==
    \/ main_pc \in {"free", "gone"}
    \/ main_pc = "join" /\ g < main_grp
closedFates == {"handled", "vetoed", "dropped", "freed"}
Box == INSTANCE Mailbox WITH
    inbox <- queue,
    serving <- cur_msg,
    accepted <- {m \in Msg : fate[m] \in closedFates \cup {"queued"}},
    closed <- {m \in Msg : fate[m] \in closedFates},
    gone <- {s \in Service : CleanedUp(GroupOf(s))}
ImplementsMailbox == Box!Spec

\* A thread that saw EAF exit before it saw it start has left without posting ready,
\* and nobody else serves its group, also if eaf_load makes the context busy again.
LeftUnready(g) == pc[g] = "end" /\ phase[g] = "init"

\* While EAF runs, a message accepted by a group that has a service to
\* initialise eagerly is taken from the queue and its handler returns, unless the
\* thread of the group has left before the start.
HasEager(g) == \E s \in entry \ Lazy : GroupOf(s) = g
Delivered ==
    \A m \in Msg :
        fate[m] = "queued" /\ HasEager(GroupOf(Dest(m)))
            ~> fate[m] # "queued" \/ ctx_state # "busy" \/ LeftUnready(GroupOf(Dest(m)))

\* After eaf_exit, eaf_cleanup returns, unless an eaf_teardown takes the exit back:
\* then the threads go on until the next eaf_exit.
CleanupReturns ==
    main_pc = "join" /\ ctx_state = "exit"
        ~> main_pc = "gone" \/ ctx_state = "teardown"

\* eaf_load returns, unless the thread of a group has left before the start, which
\* an exit in an on_init of another group is enough for (LoadAlwaysReturns): whoever
\* exits EAF at whatever moment, nothing else keeps it waiting.
LoadReturns == main_pc = "wait" ~> main_pc = "up" \/ \E g \in Group : LeftUnready(g)

-----------------------------------------------------------------------------
\* The inductive invariant of the proofs

\* A working thread that acts for a service acts for one of its own group, and
\* its index is inside the table wherever it is used.
ThreadInv ==
    \A g \in Group :
        /\ pc[g] \in {"oninit", "try", "dispatch", "handle", "run", "yieldhook"}
              => cur_run[g] \in Service /\ GroupOf(cur_run[g]) = g
        /\ pc[g] \in {"onexit", "drain", "drop", "groupexit"} => idx[g] <= Len(Table[g])
        /\ pc[g] \notin {"groupexit", "end"} => idx[g] >= 1

\* A call has the message and the service its next step uses.
CallInv ==
    \A t \in Thread :
        /\ call[t] \in {"check", "alloc", "push"} => call_msg[t] \in Msg
        /\ call[t] \in {"alloc", "push", "resume", "post"} => call_srv[t] \in Service

\* Before the context is busy no working thread has left its start loop, and
\* before eaf_init nothing has happened at all.
MainInv ==
    /\ main_pc \in {"wake", "wait", "join"} => main_grp \in Group
    /\ main_pc \in {"new", "boot", "fix"} =>
          /\ ctx_state # "busy"
          /\ \A g \in Group : pc[g] \in {"none", "start", "startpend", "end"}
    /\ main_pc = "new" =>
          /\ ctx_state = "none"
          /\ \A g \in Group : pc[g] = "none" /\ busy_list[g] = <<>>
          /\ \A t \in Thread : call[t] \in {"idle", "check"}
          /\ \A s \in Service : state[s] = "init0"

IInv == TypeOK /\ ListsAgree /\ ThreadInv /\ CallInv /\ MainInv

-----------------------------------------------------------------------------
\* What a working thread, the services of its group and their messages have to
\* do with each other: the invariant of the proofs about the states of a service

Members(g) == {s \in Service : GroupOf(s) = g}

\* The part of _eaf_thread that a label belongs to.
InitPc == {"none", "start", "startpend", "init", "ready"}
LoopPc == {"loop", "pick", "pend", "try", "dispatch", "handle", "run", "yieldhook"}
ExitPc == {"onexit", "drain", "drop"}
PhaseOK(g) ==
    /\ pc[g] \in InitPc => phase[g] = "init"
    /\ pc[g] \in LoopPc => phase[g] \in {"busy", "teardown"}
    /\ pc[g] = "ifteardown" => phase[g] = "busy"
    /\ pc[g] = "oninit" => phase[g] \in {"init", "busy", "teardown"}
    /\ pc[g] \in {"teardown", "drain", "drop"} => phase[g] = "drain"
    /\ pc[g] = "onexit" => phase[g] \in {"drain", "exit"}
    /\ pc[g] = "groupexit" => phase[g] = "exit"
    /\ pc[g] \in {"none", "start", "startpend"} => idx[g] = 1
    /\ pc[g] = "oninit" /\ phase[g] = "init" =>
          idx[g] <= Len(Table[g]) /\ cur_run[g] = Table[g][idx[g]]

\* A thread that acts for a service finds it in the state the action is for,
\* with the message it is about to use.
RunOK(g) ==
    /\ pc[g] = "oninit" => state[cur_run[g]] = "init1"
    /\ pc[g] \in {"try", "dispatch"} => state[cur_run[g]] \in {"init1", "busy"}
    /\ pc[g] \in {"handle", "run"} => state[cur_run[g]] = "busy"
    /\ pc[g] = "yieldhook" => state[cur_run[g]] \in {"busy", "yield"}
    /\ pc[g] \in {"handle", "run", "yieldhook"} => cur_msg[cur_run[g]] # NoMsg
    /\ pc[g] \in ExitPc => state[Table[g][idx[g]]] = "exit0"
    /\ pc[g] = "drop" => cur_msg[Table[g][idx[g]]] # NoMsg

\* What the state of a service says about its messages and about its thread.
ServiceOK(g) ==
    \A s \in Members(g) :
        /\ state[s] = "exit0" => pc[g] \in ExitPc /\ Table[g][idx[g]] = s
        /\ state[s] \in {"init0", "init1", "init2", "idle"} => cur_msg[s] = NoMsg
        /\ state[s] = "yield" => cur_msg[s] # NoMsg /\ pc[g] # "end"
        /\ state[s] \in {"init0", "init2", "idle"} => queue[s] = <<>>
        /\ state[s] = "init1" /\ s \in Lazy /\ pc[g] # "end" => queue[s] # <<>>
        /\ phase[g] = "init" => cur_msg[s] = NoMsg
        /\ phase[g] \in {"init", "busy"} /\ s \in entry => state[s] \notin {"exit0", "exit1"}
        /\ (phase[g] # "init" \/ pc[g] = "ready") /\ s \in entry \ Lazy
              => state[s] \notin {"init0", "init1"}

\* What the loops over the service table have done up to their index.
WalkOK(g) ==
    \A i \in 1 .. Len(Table[g]) :
        LET s == Table[g][i] IN
        /\ pc[g] \in {"init", "oninit"} /\ phase[g] = "init" /\ i < idx[g] /\ s \in entry \ Lazy
              => state[s] \notin {"init0", "init1"}
        /\ phase[g] = "drain" /\ s \in entry /\ (i > idx[g] \/ (i = idx[g] /\ pc[g] = "teardown"))
              => state[s] \notin {"exit0", "exit1"}
        /\ phase[g] = "exit" /\ i > idx[g] => state[s] = "exit1"

GroupInv(g) == PhaseOK(g) /\ RunOK(g) /\ ServiceOK(g) /\ WalkOK(g)

\* eaf_load gives every service its first state before anything else can happen
\* to it.
Fixed(s) ==
    /\ state[s] # "init0"
    /\ s \notin entry => state[s] = "exit1"
    /\ s \in entry \ Lazy => state[s] # "init2"
AllFixed == \A s \in Service : Fixed(s)
Before == {"new", "boot", "fix"}
Started ==
    \/ ctx_state = "busy"
    \/ main_pc \in {"wake", "wait", "up"}
    \/ \E g \in Group : pc[g] \notin {"none", "start", "startpend", "end"}
    \/ \E t \in Thread : call[t] \in {"alloc", "push"}
FixInv ==
    /\ main_pc \in {"new", "boot"} =>
          main_grp = 1 /\ main_srv = 1 /\ \A s \in Service : state[s] = "init0"
    /\ main_pc \in Before =>
          /\ \A s \in Service : cur_msg[s] = NoMsg /\ queue[s] = <<>>
          /\ \A g \in Group : phase[g] = "init"
          /\ \A t \in Thread : call[t] \notin {"alloc", "push"}
    /\ main_pc = "fix" =>
          \A g \in Group : \A i \in 1 .. Len(Table[g]) :
              IF g > main_grp \/ (g = main_grp /\ i >= main_srv)
              THEN state[Table[g][i]] = "init0" ELSE Fixed(Table[g][i])
    /\ Started => AllFixed

\* eaf_load has taken one token of every group it has counted.
Posted == {g \in Group : phase[g] # "init"}
ReadyInv ==
    /\ main_pc \in Before \cup {"wake"} => ready = Cardinality(Posted)
    /\ main_pc = "wait" => ready + (main_grp - 1) = Cardinality(Posted)
    /\ main_pc = "up" => Posted = Group

\* eaf_cleanup joins the threads one after the other.
JoinInv == \A g \in Group : CleanedUp(g) => pc[g] = "end"

StateInv == (\A g \in Group : GroupInv(g)) /\ FixInv /\ ReadyInv /\ JoinInv

-----------------------------------------------------------------------------
\* Where a message is: the invariant of the proofs about its conservation

\* An API call has the message it sends to itself.
SendInv ==
    \A t \in Thread :
        /\ call[t] \in {"idle", "resume", "exit", "teardown", "wake"} => call_msg[t] = NoMsg
        /\ call[t] \in {"check", "alloc", "push"} => fate[call_msg[t]] = "sending"
        /\ call[t] \in {"alloc", "push"} => call_srv[t] = Dest(call_msg[t])
        /\ call_msg[t] # NoMsg => fate[call_msg[t]] # "fresh"
        /\ \A u \in Thread : call_msg[t] = call_msg[u] /\ call_msg[t] # NoMsg => t = u

\* A message is queued exactly while its receiver has it, in one place.
PlaceInv ==
    /\ \A s \in Service :
          /\ \A i, j \in 1 .. Len(queue[s]) : queue[s][i] = queue[s][j] => i = j
          /\ cur_msg[s] \notin ToSet(queue[s])
          /\ \A m \in Held(s) : fate[m] = "queued" /\ Dest(m) = s
    /\ \A m \in Msg : fate[m] = "queued" => Dest(m) \in Service /\ m \in Held(Dest(m))

\* A default response is created for a request that is being discarded, or was.
DfltInv ==
    \A r \in Request :
        fate[Dflt(r)] # "fresh" =>
            \/ fate[Req(r)] = "dropped"
            \/ \E g \in Group : pc[g] = "drop" /\ cur_msg[Table[g][idx[g]]] = Req(r)

\* The references to a message: its receiver's, its sender's, and that of the
\* record which a sender is about to queue.
Ref(b) == IF b THEN 1 ELSE 0
RefInv ==
    \A m \in Msg :
        refcnt[m] = Ref(fate[m] = "queued")
                    + Ref(\E t \in Thread : call_msg[t] = m)
                    + Ref(\E t \in Thread : call_msg[t] = m /\ call[t] = "push")

FlowInv == SendInv /\ PlaceInv /\ DfltInv /\ RefInv

-----------------------------------------------------------------------------
\* How many requests a service can have: the invariant of the proofs about its
\* capacity

\* A request is sent by a thread that may act for its sender; those that are
\* queued, and those that passed the capacity check and are about to be, are
\* too many by less than the number of such threads.
Senders(s) == UNION {SenderOf(r) : r \in {r \in Request : To[r] = s}}
RequestsAt(s) == {m \in ToSet(queue[s]) : m.kind = "req"}
Pushing(s) ==
    {t \in Thread : call[t] = "push" /\ call_srv[t] = s /\ call_msg[t].kind = "req"}
Bounded(s) ==
    RequestsAt(s) # {} \/ Pushing(s) # {} =>
        Cardinality(RequestsAt(s)) + Cardinality(Pushing(s))
            <= Capacity[s] + Cardinality(Senders(s)) - 1
BoundInv ==
    /\ \A t \in Thread : call_msg[t] # NoMsg /\ call_msg[t].kind = "req"
                             => t \in SenderOf(call_msg[t].id)
    /\ \A s \in Service : Bounded(s)

FullInv == IInv /\ StateInv /\ FlowInv /\ BoundInv

-----------------------------------------------------------------------------
\* What the documentation promises, or one expects, and the code does not do

\* on_exit is called for a service that has been through on_init.  But both
\* _eaf_group_exit (service.c:502) and the teardown (service.c:593) exit a lazy
\* service that is still waiting, in init2, for its first request.
ExitedAfterInit ==
    [][\A s \in Service : state[s] = "init2" => state'[s] # "exit0"]_vars

\* service.c:553 "Send default response", include/eaf/core/message.h:33: a
\* request discarded by the teardown is answered, if its sender can be.
DiscardIsAnswered ==
    \A r \in Request :
        fate[Req(r)] = "dropped" /\ From[r] \in entry => fate[Dflt(r)] # "failed"

\* include/eaf/core/service.h:299: eaf_load returns with every registered
\* service initialised or exited, also when EAF exits meanwhile.
LoadAlwaysReturns == main_pc = "wait" ~> main_pc = "up"

\* include/eaf/core/service.h:330: eaf_cleanup releases all resources.
CleanupReleasesAll == main_pc = "gone" => \A m \in Msg : refcnt[m] = 0

=============================================================================
