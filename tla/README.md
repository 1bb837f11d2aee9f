# EAF: a TLA+ development of the service runtime and its PowerPack

EAF (Embedded Application Framework) runs *services*, small message driven
objects, on the threads of *groups*.  The modules in this directory model the
runtime of `src/src/core/service.c`, the components of the PowerPack built on it
that have state of their own (ring buffer, timer, fiber call, watchdog, monitor,
the thread of the libuv loop, clock arithmetic), and the list and the ordered map
that all of them use.  They are written from the code, state what it must
guarantee, check that with TLC on small instances, and prove the most important
parts for every number of groups, services, messages, calls, hooks and records.

Paths below that begin with `src/` are in the repository.

## 1. Inventory of the system

| component | source | state it keeps | operations | what must hold |
|---|---|---|---|---|
| service runtime | `src/src/core/service.c` | context state, `ready` semaphore; per group a busy list, a wait list, a semaphore, the thread's position; per service a state, a message queue, the current message | `eaf_init`, `eaf_register`, `eaf_load`, `eaf_send_req`, `eaf_send_rsp`, `eaf_resume`, `eaf_teardown`, `eaf_exit`, `eaf_cleanup`, the working thread | no lost wakeup, no lost or doubled message, order, a service on the right list, exact reference counts, exit noticed by every group, cleanup returns |
| messages | `src/src/core/message.c` | reference count, sender, receiver, receipt | create, add/dec reference, receipts and tokens | released once, by the last owner |
| linked list | `src/src/utils/list.c` | head, tail and size of a list, two links of each node of the user | push and pop at both ends, insert before and after, erase | the links and the size describe one sequence in both directions |
| map | `src/src/utils/map.c`, `map_low.c` | a red-black tree through nodes of the user, a size | insert, erase, find, find lower, find upper, iterate both ways | the tree stays balanced, queries and iteration agree with the set of nodes |
| ring buffer | `src/powerpack/src/powerpack/ringbuffer.c` | a byte array used as a ring of nodes with states | reserve, consume, commit, discard | nodes never overlap, oldest data first, overwriting only what nobody holds |
| fiber call | `src/powerpack/src/powerpack/message.c` | tables of pending and ready calls | the macro `EAF_MESSAGE_CALL_FILBER`, its yield hook, the response handler, finalize | a response resumes the call that waits for it, once, and references are exact |
| timer service | `src/powerpack/src/powerpack/timer.c` | idle, busy and dead queues | delay request, notification, expiry and close in the libuv thread, exit | a record is in one place, answered once, `on_exit` leaves none behind |
| watchdog | `src/powerpack/src/powerpack/watchdog.c` | records in `idle_stack`, or in `busy_stack` and `busy_table` while a heartbeat request is on its way; two deadlines and a count of late answers each | init and exit, the scan by the timer, the handler of heartbeat responses | a record is in one place, no false alarm, a service that answers is asked again |
| monitor | `src/powerpack/src/powerpack/monitor.c` | counters of each service, group and path, written by hooks in every thread | the hooks of send and handle, the resets by timer and request, init and exit | no message uncounted or counted twice, a report after a reset is fresh |
| PowerPack loop | `src/powerpack/src/powerpack.c` | the libuv thread, two points where it meets the user's thread, the hook table | init, exit, hook registration, the hooks of the runtime | requests and answers pair off, hooks are up while services run, calls return |
| clock arithmetic | `src/powerpack/src/powerpack/time.c` | none | sum, normalisation, difference | carry, borrow and overflow at the boundaries |
| net | `src/powerpack/src/powerpack/net.c` | poll handles | add, modify, close | handles closed once |
| OS layer | `src/src/infra/*.c` | pthread and Win32 objects | lock, semaphore, thread, clock | taken as given |
| log, string, hash, random, errno | `src/powerpack/src/powerpack/*.c`, `src/src/utils/errno.c` | none shared | formatting, pure computation | outside this development |

How they interact.  A sender (a working thread inside a callback, or any thread
of the application) allocates a record, pushes it on the receiver's queue under
the lock of the receiver's group, moves the receiver to the busy list and posts
the group's semaphore.  The working thread of the group takes the first service
of the busy list in one critical section, takes the message in a second one,
and runs the handler without the lock.  A handler may set the yield flag; its
service then waits until somebody calls `eaf_resume`.  `eaf_exit` and
`eaf_teardown` write the context state without a lock and post every
semaphore.  `eaf_cleanup` joins the threads and releases what is left.  The
PowerPack services are built on this API: they are services with handlers,
some with a second thread (libuv) that calls `eaf_send_rsp` or `eaf_resume`.  That
thread waits until `eaf_load` lets its hooks open their handles, and is stopped by
`eaf_cleanup`.  The watchdog is a service that sends and waits for the timer
service; the monitor is called inside every send and every handling.

What is hard to test: every state read without a lock (`g_eaf_ctx->state`, the
queue size, the head of the busy list between two critical sections); the order
of a push, its post, and the check of a thread about to sleep; exit requests in
any callback, from any thread, more than once; the teardown running while
senders push; lazy initialisation racing with the first requests; the
reference count on the error paths; counters that hooks write without locks while
a service resets them; two threads that each wait for the other at start and
stop; rotations and links that only a long sequence of calls brings about.
`PROJECT.json` lists each at its line.

## 2. Modules

| module | role |
|---|---|
| `EafService` | the runtime: state, actions, fairness |
| `EafServiceProperties` | type invariant, safety, action and liveness properties, the refinement mapping, the inductive invariant |
| `Mailbox` | the abstract specification of message delivery, which `EafService` implements |
| `EafServiceProofs` | proofs in three parts: list agreement, no lost wakeup, exits are noticed; what the place of a thread tells of the states of its services, `eaf_load` and the exits; where every message is, references, capacities, and that the runtime implements `Mailbox` |
| `RingBuffer`, `RingBufferProperties` | the ring buffer and its properties |
| `RingLog` | the abstract specification of the ring buffer, a log, which `RingBuffer` implements |
| `RingBufferProofs` | proofs: the structure of the ring buffer is sound, and it implements `RingLog` |
| `Timer`, `TimerProofs` | the timer service with its two threads and its properties; proofs of its safety properties |
| `FiberCall`, `FiberCallProofs` | the call of the Message Service and its properties; proofs of its safety properties |
| `QueueLemmas` | what several proofs share: induction over the natural numbers, parts of sequences, what appending, popping and erasing do to the set of a queue |
| `Watchdog`, `WatchdogProperties` | the watchdog; its properties, whose proofs are the last part of `MapProofs` |
| `Monitor`, `MonitorProperties`, `MonitorProofs` | the monitor, hooks and service; its properties; proofs of its safety properties |
| `Powerpack`, `PowerpackProperties`, `PowerpackProofs` | the libuv thread and the user's thread; properties; proofs of its safety properties, and of those of `List` and `Clock` in two parts of their own |
| `MapLow`, `Map`, `MapProperties` | the red-black tree as pure operators on a tree; the operations of the map; its properties |
| `MapProofs` | proofs: the red-black tree stays sound, every query is right, the map implements `SortedSet`; and those of the watchdog, which keeps its records in maps |
| `SortedSet` | the abstract specification of the map, a set of nodes with distinct keys, which `Map` implements |
| `List`, `ListProperties` | the doubly linked list; its properties against sequences |
| `Clock`, `ClockProperties` | clock arithmetic; its properties against numbers |
| `MC*` | the instances for TLC, one `.cfg` per run |

How they compose.  `FiberCall`, `Watchdog` and `Monitor` stand on the promises that
`EafService` is checked for: a service in state yield runs again only after
`eaf_resume`, an accepted message is handled once, handlers of a group run one
at a time.  `Watchdog` and `Monitor` take the timer service as what `Timer` shows it
to be: a delay is answered at most once, and possibly with an error.  `Powerpack`
reduces the runtime to the state of its context.  The queues, tables and
stacks of these modules are sequences and sets, as `List` and `Map` implement them.
`MCUtils` puts `Map`, `List` and `Clock`, which share nothing, side by side in one
instance: a behaviour is one of one of them, as `used` says.

### How `EafService` corresponds to the code

Granularity.  A step is one critical section of `group->objlock`, one semaphore
operation, one unlocked read of shared memory that decides a branch, or one
entry to or return from a callback of the user.  Between two such points a
thread touches only what is its own, so a finer model would show no more.
`call[t]` is the frame of an API call made by thread t (an application thread, a
working thread inside a callback, or the main thread); `pc[g]` is where the
working thread of group g is in `_eaf_thread`; `main_pc` is where the main
thread is in `eaf_init`, `eaf_load` and `eaf_cleanup`.

| code | model |
|---|---|
| `service->runtime.local.state` | `state[s]`, one of init0, init1, init2, idle, busy, yield, exit0, exit1 |
| `coroutine.busy_list`, `wait_list` | a sequence and a set (the order of the wait list is never read) |
| `msgq.queue`, `msgq.cur_msg`, `msgq.sem` | `queue[s]`, `cur_msg[s]`, `sem[g]` |
| `_eaf_service_set_state_nolock` | `SetState` |
| `eaf_send_req`, `eaf_send_rsp`, `_eaf_service_push_msg` | `SendCall`, `SendCheck`, `PushAlloc`, `PushFail`, `PushQueue`, `CallPost` |
| `eaf_resume` | `ResumeCall`, `ResumeLock`, `CallPost` |
| `eaf_exit`, `eaf_teardown`, `_eaf_exit` | `QuitCall`, `QuitSet`, `QuitWake` |
| `_eaf_thread`, start | `WaitStart`, `Pend`, `InitNext`, `OnInitReturn`, `InitDone`, `PostReady` |
| `_eaf_group_event_loop` and its helpers | `LoopCheck`, `Pick`, `TryPend`, `Pend`, `DispatchInit`, `Dispatch`, `HandleBefore`, `HandlerReturn`, `HandlerYield`, `YieldHookReturn` |
| `_eaf_service_teardown`, `..._cleanup_msgq` | `IfTeardown`, `TeardownNext`, `OnExitReturn`, `DrainNext`, `Drop`, `DrainDone`, `TeardownDone` |
| `_eaf_group_exit` | `GroupExitNext`, `OnExitReturn`, `GroupExitDone` |
| `eaf_init`, `eaf_register`, `eaf_load`, `eaf_cleanup` | `EafInit`, `Register`, `LoadCall` to `LoadWait`, `CleanupCall` to `CleanupFree` |

Abstractions.
- A message is a kind (request, response, the teardown's default response) and
  the identity of its request.  The lookup of receiver and handler by id is
  `Dest(m) \in entry`: service ids are distinct, and a registered service has a
  handler for the messages sent to it.
- `cur_run` is written when the service is picked and not after the
  `sem_pend(0)` that follows; only the thread itself reads it.
- While the teardown discards a message popped from the queue, the record in
  the hands of the thread is kept in `cur_msg`; nobody else reads that field.
- User code is any code within these limits: a request is sent on behalf of its
  sender, a response by the handler of its request (or the hook that runs at
  its yield) and at most once; `Resumer`, `Quitter` and `QuitOps` say who may
  call the other functions; `MaxYield`, `MaxResume` and `MaxQuit` bound how
  often.  Each message identity is used once, which bounds a behaviour.

### How the PowerPack modules correspond to the code

Ring buffer.  Memory is counted in machine words, to which `eaf_ringbuffer_node_cost`
aligns every node; a node is named by its first word and its size includes the
header.  `node` is a function on the nodes in use only, so following a pointer to
a deleted or overwritten node has no value and TLC reports it.  `OnlyNode`,
`Place`, `Overwrite`, `DeleteNode` keep the early returns of the code: a reserve
that returns NULL and a discard that returns -1 change nothing and are no steps.
The caller serialises the calls (the module has no lock), so a call is one step;
any number of users may hold tokens between calls.  `intact` is a history
variable: after an overwrite that took the HEAD the chains of the code refer to
memory of the new node, so nothing is said about later calls.

| code | model |
|---|---|
| `_ring_buffer_reserve_empty`, `_none_empty`, `_insert_new_node` | `ReserveEmpty`, `Place`, `ReserveFree` |
| `_ring_buffer_reserve_try_overwrite`, `_perform_overwrite` | `OverwriteNeeded`, `OverwriteOnly`, `StartPoint`, `Run`, `Ends`, `Overwrite` |
| `eaf_ringbuffer_consume` | `Consume` |
| `eaf_ringbuffer_commit` | `CommitWrite`, `DiscardWrite`, `CommitRead`, `DiscardRead`, all deleting through `DeleteNode` |

Timer.  A step is one critical section of `glock` or one unlocked access to what
the thread of the service and the libuv thread share; the order in which
`_timer_on_exit` evaluates its three sizes is unspecified in C, so `ExitRead`
takes them in any order.  libuv is external: it runs one callback at a time,
merges notifications (`uv_async_send`), and calls back every closed handle once.
`MayFail` says which of its calls may fail; the notification in `on_exit`, whose
result the code ignores, is assumed to succeed.  `answers` is a history variable: what
became of each response, whose result the code does not look at (`timer.c:37`).  The
runtime refuses it when the context is not busy ("exiting"), and a hook, a receiver or
the allocator may refuse it at any time ("refused", if `"send"` is in `MayFail`).
`EafExit` is a step of its own, so a timer may expire between `eaf_exit` and the
`on_exit` of the service.  Allocation and release of a record is `alloc`.

| code | model |
|---|---|
| `_timer_on_req_delay` | `ReqDelay`, `Push`, `PushFails` |
| `_timer_send_delay_rsp`, and `eaf_send_rsp` as far as it matters | `Answer`, `Sent` |
| `eaf_exit`, `eaf_teardown` | `EafExit` |
| `_timer_on_exit` | `OnExit`, `ExitNotify`, `ExitRead`, `ExitCheck` |
| `_timer_on_uv_notify`, `_timer_handle_idle_record` | `UvNotify`, `UvCheck`, `UvPop`, `UvInit`, `UvInitFails`, `UvStart`, `UvStartFails`, `UvFailed` |
| `_timer_close_all_timer` | `UvCloseBusy`, `UvDropIdle` |
| `_timer_on_active`, `_timer_on_timer_close`, `_timer_on_libuv_loop_exit` | `UvActive` and `UvExpired`, `UvClosed`, `UvLoopExit` |

Fiber call.  A call is one use of the macro: its request, response and record
share an identity, which is their `uuid`.  A step is one critical section of
`objlock`, one call of the runtime, or the entry to or return from a callback.
Each caller and the Message Service have a thread of their own, which allows
more interleavings than services that share one.  Of the runtime the module
keeps state yield, `eaf_resume`, the queue of the Message Service, the possible
refusal of a request and the exit.  Only the Message Service resumes a caller:
the documentation gives nobody else a reason to.  A response is pushed
with `PUSH_FLAG_FORCE`, so no capacity refuses it; only an exit does.

| code | model |
|---|---|
| `EAF_MESSAGE_CALL_FILBER` | `StartCall`, `Reenter`, `Finalize`, `Deserialize` |
| `eaf_message_internal_proxy` | `Insert`, `SendReq`, `SendReqFails`, `SaveError`, `WakeUp` |
| `eaf_message_internal_response_handler` | `MsgTake`, `MsgFind`, `MsgResume`, `MsgReturn` |
| `eaf_message_internal_finalize` | `Finalize` |
| the receiver's handler and the runtime around it | `Respond`, `RespondRefused`, `HandlerReturn`, `Discard`, `ServiceExit`, `MsgExit`, `Exit` |

Watchdog.  The handlers run in one group, one at a time; a step is one handler.
Time is relative to the present: `begin` and `end` count down at every `Tick`, not
further than any comparison looks (`Past`), so that time goes on for ever in
finitely many states.  A record's token is its index in the table of the user, and
so its identity here.  `intact` is a
history variable: after an exit with a request on its way the records left in
`busy_table` are freed memory, and nothing is said beyond the first use of it.
`recent` keeps the last answers for `NoFalseAlarm`.

| code | model |
|---|---|
| `eaf_watchdog_init`, `_watchdog_on_init`, `eaf_watchdog_exit` | `WatchdogInit`, `WatchdogExit` |
| `_watchdog_on_timer`, `_watchdog_check_idle`, `_watchdog_check_busy` | `OnTimer`, `CheckIdle`, `CheckBusy` |
| `_watchdog_on_heartbeat_rsp` | `OnHeartbeatRsp`, `Late`, `Errors` |
| the watched service, the timer service, the clock | `Answer`, `TimerFires`, `Tick` |

Monitor.  A step is one critical section, or one unlocked access to a counter: an
increment outside a lock is a read and a write (`seen`).  `Sends` says on behalf
of which service a thread sends, `Runs` which services a thread handles.  The
function of the code that fills the slot `on_message_send_before` is the one for
the start of a handling (`monitor.c:61`), and that is what `SendBefore` does.
`sent`, `received` and `before` are history variables.

| code | model |
|---|---|
| `eaf_monitor_init`, `_monitor_on_load_before`, `_monitor_on_service_init`, `eaf_monitor_exit` | `MonitorInit`, `LoadBefore`, `MonitorExit` |
| the hook in the slot `on_message_send_before` | `SendBefore` |
| `_monitor_on_message_send_after`, the dataflow and its insertion | `Push`, `FindPath`, `CountPath`, `InsertPath` |
| `_monitor_update_counter_send` | `CountFlush`, `CountTotal` |
| `_monitor_on_message_handle_after` | `HandleAfter`, `CountGroup` |
| `_monitor_on_timer`, `_monitor_on_req_flush`, `_monitor_reset_flush_nolock` | `BeginReset`, `ResetRecord`, `ResetGroup`, `EndReset` |

PowerPack loop.  A step is one operation on a semaphore of a point, or what a
thread does between two of them.  The user's thread makes one call at a time;
`main` is the call, `wait` what it waits for.

| code | model |
|---|---|
| `pp_sync_dial_once`, `pp_sync_dial`, `pp_sync_wait`, `pp_sync_answer` | `DialOnce`, `Dialled`, `SyncWait`, `SyncAnswer` |
| `_pp_notify_exit_thread`, `_pp_on_uv_async_mode` | `NotifyExitThread`, `OnAsync` |
| `eaf_powerpack_init`, `eaf_powerpack_exit` | `PpInit`; `PpExit`, `Join`, `Joined` |
| `eaf_powerpack_hook_register`, `..._unregister` | `HookRegister`, `HookUnregister` |
| the hooks `on_load_before` and `on_exit_after`, in `eaf_load` and `eaf_cleanup` | `Load`, `Loaded`, `Cleanup`, `CleanedUp` |
| `_pp_thread`, `_pp_call_init`, the loop | `WaitInit`, `CallInit`, `InitFails`, `AnswerInit`, `LoopEnds`, `AnswerExit` |

Map, list and clock.  A tree is one value, and every function of `map_low.c` is an
operator from trees to trees that writes the fields in the order of the code.
The code has each case twice, for left and for right; here the side is a
parameter.  A list is the fields of the C structures: `head`, `tail`, `size`,
`after`, `before`; erased nodes keep their links.  The clock has both fields with
their widths, which are constants.

| code | model |
|---|---|
| `__rb_insert`, `eaf_map_low_link_node`, `eaf_map_low_insert_color` | `LinkNode`, `InsertRotate`, `InsertColor` |
| `__rb_erase_augmented`, `____rb_erase_color`, `eaf_map_low_erase` | `Unlink`, `Replace`, `EraseAugmented`, `FillGap`, `EraseColor`, `Erase` |
| `eaf_map_low_first`, `_last`, `_next`, `_prev` | `FirstNode`, `LastNode`, `NextNode`, `PrevNode` |
| `eaf_map_insert`, `_erase`, `_find`, `_find_lower`, `_find_upper` | `Descend` and `MapInsert`, `MapErase`, `MapFind`, `MapFindLower`, `MapFindUpper` |
| `eaf_list_push_back`, `_push_front`, `_insert_before`, `_insert_after`, `_erase`, the pops | `PushBack`, `PushFront`, `InsertBefore`, `InsertAfter`, `EraseItem`, `PopFront`, `PopBack` |
| `eaf_time_fmtclock_ext`, `eaf_time_addclock_ext`, `_msec`, `eaf_time_diffclock` | `Fmt` over `Carry`; `AddClockExt` over `AddSec` and `AddNsec`, `OfMsec`; `DiffClock` over `Subtract` |

## 3. The properties and the runs

| run | instance | what it shows |
|---|---|---|
| `pair` | two groups, one service each, a request across the groups and two from outside against a queue of capacity one, `eaf_exit` from main at any time | `RequestsBounded` (how far the unlocked capacity check can be overrun: by one request per thread that sends); `ListsAgree`; `NoLostWakeup`; `ExitIsNoticed`; `QueuedOnce` (an accepted message is in one place); `RefCountExact`; `LoadedIsInitialised` |
| `solo` | one group with an eager and a lazy service, one alive attribute, an external thread that sends and resumes, a handler that yields, a refused message, `eaf_exit` and `eaf_teardown` in any order | the inductive invariant `FullInv`, `DispatchedIsBusy`, `QueuedIsScheduled`, `CurrentMatchesState`, `ExitIsFinal`, and that the runtime implements `Mailbox` |
| `live` | two groups of one eager service each, a request from outside, up to two calls of `eaf_exit` and `eaf_teardown` in the callbacks of the first group (also in its `on_init`, before the other has started), under fairness | `Delivered` (an accepted message is handled while EAF runs), `CleanupReturns` (after an exit, if no teardown takes it back), `LoadReturns` (unless a thread has left before the start) |
| `cleanup` | `eaf_exit` while a handler of the second group sends to the first | `CleanupReleasesAll` fails |
| `ring` | nodes of three sizes in nine words, all calls in any order | `StructureSound` (no stale link, no two nodes share memory, both chains lead through every node, the nodes being read are the oldest, the counters are exact), and that the ring buffer implements `RingLog` |
| `delay` | three requests, every failure of libuv, refused responses, exit at any time, under fairness | `RecordsSound` (a record is in one place, and libuv holds the timers its queues say), `AnsweredOnce` (one response is sent, and a record released without it only when EAF exits), `Answered`, `ExitReturns` |
| `call` | two services, three calls, one of which may be refused, `eaf_exit` at any time, under fairness | `RecordsSound`, `ResumedWhenReady`, `ResumeAccepted`, `RefsExact`, `CallReturns` |
| `watch` | two services with jitters 0 and 1, the second may refuse and fall silent, two cycles, under fairness | `OnePlace` (an answer finds the record it is for), `NoFalseAlarm`, `KeepsAsking` |
| `silence` | the same | `SilenceIsReported` fails |
| `monitor` | two services in two groups that send to each other, a third thread, resets by timer and request | `CountsExact` (no message uncounted or counted twice, where one thread sends), `FlushIsFresh` (after a reset no reception and no group time holds a message from before) |
| `loop` | two hooks, one of which may fail, two cycles of init and exit, under fairness | `TokensPaired`, `HooksAroundServices`, `CallsReturn` |
| `utils` | eight map nodes, two with one key; three list nodes and two lists; every pair of small times | `MapSound` (red-black balance, queries and iteration agree with the set, `find_lower` in the sense of its code and `find_upper` for absent keys), `ChainsSound`, `OperationsExact`, `ClockExact` (sums, the order of two times, the seconds of a difference, and its nanoseconds without a borrow), and that the map implements `SortedSet` |

Two runs show that the code does not do what its documentation says; each is a
finding in `PROJECT.json` with the line quoted.
- `cleanup`: `eaf_cleanup` takes the groups down one after the other; a handler
  of a later group can still push into an earlier one, whose lock and semaphore
  are gone, and nobody releases the record (`service.h:330` promises to "cleanup
  all resources").
- `silence`: the scan of the expired records compares the deadline with itself
  plus a grace (`watchdog.c:154`), which is never later, and does not look at the
  time.  A service that stops answering is never reported (`watchdog.h:76-77`).

Other disagreements are stated as formulas in the modules, which TLC refutes when
they are put into a run of their own; no run of the project has them.

| formula | what the code does |
|---|---|
| `DiscardIsAnswered` (`EafServiceProperties`) | the default response of a discarded request goes through `eaf_send_rsp`, which refuses every context state but busy, while the teardown runs only in state teardown (`service.c:558`) |
| `LoadAlwaysReturns` (`EafServiceProperties`) | a thread that wakes up after the context has left busy, because an `on_init` of another group has called `eaf_exit`, returns without posting `ready`, for which `eaf_load` waits for ever (`service.c:631`, `service.h:299`); TLC refutes it on the instance of `live` |
| `ExitedAfterInit` (`EafServiceProperties`) | `_eaf_group_exit` and the teardown call `on_exit` of a lazy service that has never been through `on_init` (`service.c:502-514`, `:593`), as happens in `solo` |
| `ReservedCanBeConsumed` (`RingBufferProperties`) | an overwrite of everything up to the newest node leaves no node to become the oldest one; `oldest_reserve` is NULL in a buffer that is not empty (`ringbuffer.c:120`) |
| `ExitWaitsForAll` (`Timer`) | a record popped from the idle queue is in no queue until its timer is initialised; `on_exit` may see three empty queues meanwhile (`timer.c:226`) |
| `ResultHasResponse` (`FiberCall`) | `finalize` does not return the error that the hook has stored (`message.h:115`) |
| `NothingStale` (`WatchdogProperties`) | `eaf_watchdog_exit` does not empty `busy_table`, whose records it frees; the next cycle compares them (`watchdog.c:383`, `watchdog.c:256`) |
| `CleanupReturns` (`PowerpackProperties`) | when a hook fails, or EAF is cleaned up without a load, nobody answers at `exit_point`, and `eaf_cleanup` waits for ever (`service.h:330`) |
| `LowerIsFirstNotLess` (`MapProperties`) | `map.h:117` says of `eaf_map_find_lower` "the first element not less than the given key"; the code (`map.c:92`) and its test (`utils.map.c:182`) return the last one not greater, which is what `MapSound` checks |
| `UpperIsFirstGreater` (`MapProperties`) | `eaf_map_find_upper` of a present key returns the right child when there was no turn to the left, or an ancestor although the right subtree has smaller ones (`map.c:125`, `map.h:127`) |
| `BorrowExact` (`ClockProperties`) | with a borrow the nanoseconds of the difference are subtracted the wrong way round (`time.c:205`) |
| `OverflowIsTold` (`ClockProperties`) | with `EAF_TIME_IGNORE_OVERFLOW` an overflow of -1 and one of 1 add up to 0 (`time.c:263`, `time.h:115`) |
| `InsertSucceeds`, `AllCountsExact` (`MonitorProperties`), with `Sends <- SecondIsShared` | two threads that send as one service, as the timer service does, lose counts and insert one path twice (`monitor.c:219`, `:196`, `:247`) |
| `TimeIsOfMessage`, `ShareIsBounded` (`MonitorProperties`), with `Sends <- SecondIsShared` | the clock of a handling is started by the hook of a send, because its function is in the slot of `on_message_send_before` (`monitor.c:61`); a share may exceed the whole, which `monitor.c:263` cuts off |

Four more have no formula of their own.  A group that has only lazy services initialises none at
start, and its thread returns (`service.c:648`): a request to one of them stays
queued, so `Delivered` is stated for groups with an eager service.  The
response handler of the Message Service asserts that `eaf_resume` succeeds
(`message.c:155`), which an exit of the caller's group before the response
prevents: `ResumeAccepted` excepts an exiting runtime.  An `eaf_exit` that comes
before `eaf_load` has set the context busy is taken back by it (`service.c:1081`); a
thread that has seen the exit has left by then, its group accepts messages, and nobody
serves them: `Delivered` and `LoadReturns` except such a group (`LeftUnready`).  And a
timer that expires between `eaf_exit` and the `on_exit` of the timer service is not
answered, since `eaf_send_rsp` refuses and `timer.c:37` does not look: the record is
released and the requester never hears of it, while the service still takes itself to
be running.  `AnsweredOnce` allows that after an exit only.

Bounds.  Two groups are what an interaction between groups needs: the loops over
the group table have a first and a last iteration, and a message can cross.
Two services in a group make the order of the busy list and the eager/lazy split
matter; two requests and their responses fill a queue of capacity one and leave
something behind a yielded handler.  One resume and two exit requests allow each
order of the two calls.  `live` has eager services only and one message, which keeps
the graph small enough for liveness; lazy services are in `solo`, where
`QueuedIsScheduled` covers them; it and `NoLostWakeup`, which are the safety part of
delivery, are proved for every service table.  The two requests from outside in `pair`
are interchangeable (no other constant tells them apart), so that run is reduced
by symmetry; it checks invariants only.  Nine words hold up to four nodes of two
words, or nodes of two, three and five words with gaps between them: runs of
several nodes, runs cut by the end of the array, by a held node and by a break in
age all occur.  Three timers let one record be in each queue, or all in one; a
record beyond that changes no branch.  Three calls of two services overlap in
every way and give one service an earlier and a later call.  Eight map nodes give
trees of height four, in which a node is rebalanced at the root and below it, on
both sides; the eighth has the key of the fourth, so that an
insert is refused.  Three list nodes are an only, a first, a middle and a last one;
two lists show what a call leaves alone.  Seconds of six values and nanoseconds of
16 (four to the second) meet every carry and wrap of both fields; since the
functions keep nothing, one call per behaviour is all there is.  A watched service
with jitter 0 and one with jitter 1 are reported at once and after a second late
answer.  A second cycle of the watchdog and of the loop shows what the first
leaves behind.  The sends of the monitor's threads are bounded (two, one and one),
which puts messages before, into and after a reset.

`CHECK_DEADLOCK FALSE` is set because the system may idle when no more calls come,
and stops for good after `eaf_cleanup`; the same holds of a timer service without
requests, of the callers, of a full ring buffer, of a loop that is not started
again, of the watchdog and the monitor after their exits, and of the clock after
its one call.

Fairness.  Weak fairness of every thread's own steps, `eaf_init` and the main
thread inside a call: threads are scheduled, callbacks return, locks are granted.
A step of a group's thread stays enabled once enabled except for a wait on a
semaphore, which no other thread consumes, so weak fairness is enough.
Nothing forces a new API call: nobody needs to send, resume or exit.
In `Timer` the service's thread runs and libuv keeps calling back; the expiry of
a timer is not among the fair steps (a delay may outlast the program), and is the
premise of `Answered` only, so `ExitReturns` shows that an exit does not wait for
the timers.  In `FiberCall` every thread runs and receivers answer.  In `Powerpack`
the loop thread runs and a call returns as soon as it can; the user need not make
any call.  In `Watchdog` the group serves its queue in order, so each response is
handled; the timer fires, time goes on, and services answer that are not in
`Silent`.

## 4. What is proved

The theorems hold for all values of the constants that satisfy the named
assumptions of the component's module (for the runtime: the tables list each
service once, the sets of thread names are disjoint, and so on).  Each rests on an
inductive invariant `IInv` of its component, with one lemma per action.

The runtime.  Its inductive invariant `FullInv` has four parts, each inductive
relative to those before it; the run `solo` checks the whole.

`EafServiceProofs` proves, in its first part, `IInv`:
- `Invariance`: `Spec => []IInv`.  `IInv` is `TypeOK` and `ListsAgree`,
  strengthened by `ThreadInv` (a thread that acts for a service acts for one of
  its own group, and its index is inside the table), `CallInv` (a call has the
  message and the service its next step uses) and `MainInv` (before the context
  is busy no working thread has left its start loop).  The strengthening is
  needed because `SetState` touches the lists of `GroupOf(s)` only: without
  `ThreadInv` the thread could move a service of another group.  `SetStateLists`
  is the one fact about lists: erasing from the list the old state names and
  appending to the list the new one names keeps `GroupLists`.  It rests on
  `EraseProperties`, which counts the places of an element before and after.
- `TypeCorrect`, `ListsCorrect`: `Spec => []TypeOK`, `Spec => []ListsAgree`.
- `WakeupsArrive`: `Spec => []NoLostWakeup`, inductive relative to `IInv`.
  `GroupIsolation` and `ApiIsolation` say that a thread never takes a token of
  another group and that a frame that owes a post keeps owing it until it posts;
  the busy list of a sleeping group grows only in a step that leaves such a
  frame behind.
- `ExitsAreNoticed`: `Spec => []ExitIsNoticed`, in the same way: the state changes
  in `QuitSet`, which leaves a frame that posts every group from the first to the
  last, or in `eaf_load`, when no thread is in its loop yet.

Its second part proves `StateInv`, which says for every group which phase
its thread is in at each place (`PhaseOK`), what it knows of the service it acts
for (`RunOK`), what each state says of the message and the queue of a service
(`ServiceOK`) and what the loops over the service table have done up to their
index (`WalkOK`); for `eaf_load` how the tokens at `ready` and the groups waited
for add up to the groups that have posted (`ReadyInv`); and for `eaf_cleanup` that
a joined thread has ended (`JoinInv`).
- `DispatchFindsBusy`, `QueuedServicesAreScheduled`, `CurrentMatches`:
  `DispatchedIsBusy`, `QueuedIsScheduled` and `CurrentMatchesState`.  Between two
  critical sections of the thread, the other threads only append to a queue and
  move services between yield and busy, or idle and busy (`ApiFrame`).
- `LoadWaits`: `LoadedIsInitialised`.  Each group posts `ready` once, so when all
  posts are taken every group has been through its initialisation.
- `ExitsAreFinal`: the action property `ExitIsFinal`.

Its third part proves `FlowInv` and `BoundInv`.  `FlowInv` says which message
each frame has and that no two have the same (`SendInv`), that the queue and the
hands of a service hold exactly its messages that are accepted and not finished,
each once (`PlaceInv`), and that a reference count is the sum of three holders: the
place, the sender's frame, and the push before it has filled in the queue
(`RefInv`).  `BoundInv` counts, for each service, the requests queued and those whose
push has passed the unlocked check: each belongs to a thread that may act for its
sender.
- `FullInvariance`: `Spec => []FullInv`.
- `MessagesAreConserved`, `ReferencesAreCounted`, `CapacityIsKept`: `QueuedOnce`,
  `RefCountExact` and `RequestsBounded`.  The last needs that the threads are
  finitely many, which is an assumption (a process has finitely many threads).
- `RuntimeIsMailbox`: `Spec => ImplementsMailbox`, the refinement, step by step: a push
  is `Accept` (`PushAccepts`), taking a message, also to drain the queue of a service
  that exits, is `Serve`, `_eaf_service_reset` is `Finish` (`ResetFinishes`) and the
  cleanup of a group `Discard` (`CleanupDiscards`); every other step is a stutter.
  That no service is served after it is gone is `JoinInv`.

The fiber call, `FiberCallProofs`: `RecordsAreSound`, `ResumesAreDue`,
`ResumesAreAccepted` and `ReferencesAreExact` prove the four invariants of the run
`call` for any number of services and calls.  `IInv` says in `CallersInv` what the
place of a caller tells of its call, in `FlightInv` that what is on its way (an
unanswered request, a queued response, the response in the hands of the Message
Service) is there once and belongs to a pending record of a sleeping caller, and in
`MsgInv` the same of the response being handled.  `FlightInv` is what the
invariants lack alone: they say nothing of a request before its response is
queued.  Counts are proved as sums over who holds a reference (`RefsBy`).

The watchdog, last part of `MapProofs`: `PlacesAreOne` and `AlarmsAreTrue`, for any intervals,
timeouts and jitters.  The invariant ties the error count to the recent answers
(`Counts`: the last `cerrc` of them were late); the lemma `Window` keeps that when
an answer enters the window and another leaves it.  That the scan reports nobody,
whatever the grace, is a lemma (`GraceNat`) and part of the proof.

The monitor, `MonitorProofs`: `CountsAreExact` and `FlushesAreFresh`, for any number of
services, groups and threads, whoever sends as whom.  The properties speak of sums
over paths and over the services of a group, taken with the library's sum of a
function on a finite set.
- `SumAdds` (one summand grows by one), `SumGrows` (greater summands), `SumZero` and
  `SumNat` are what the rest needs of a sum.  The library defines it by a recursive
  function; that such a function exists is `SumExists`, which solves the equation
  for the parts of at most n elements, for one n after the other.
- An increment outside a lock is a read and a write.  `PathInv` and `SendInv` say for
  a path, and for a service, that one thread alone writes, that this thread has read
  what is still there: `seen` is the count when it writes it back, and a path it
  has not found is still not there when it inserts it.  `RecvInv` is the same for what
  is handled; that one thread handles the messages of a service makes it hold.
- `FreshInv` relates the progress of a reset to what it leaves behind: what was
  counted since the reset began bounds the counters of the records and groups that it
  has been to, although every one of them counts on.

The loop, the first part of `PowerpackProofs`: `PointsPairOff` and `HooksStay`, for any hooks, any of
which may fail.  `TokenInv` says where the one token of each point is, `CallInv` which
call of the user's thread is possible when, `LoopInv` which hooks have handles
by where the loop thread is.

The list, the second part of `PowerpackProofs`: `ChainsAreSound` and `OperationsAreExact`,
for any number of lists and nodes.  `ChainsSound` follows the links from the head
and from the tail, and nothing can be said of a list that is being relinked by
following it.  `ListInv` names the sequence instead: for each list there is an `s` with
its nodes, each once, of which head and tail are the ends and the links the
neighbours (`Chain`); a node outside has whatever links it was left with.
- `WalkIs` shows that following the links gives `s`, so that `ListInv` implies
  `ChainsSound` (`InvIsChains`), which also counts the nodes (`ChainCounts`).
- A call links one node in (`LinkedIn`) or out (`LinkedOut`); `ChainGrows` and
  `ChainShrinks` say that a chain remains, and `FrontIn`, `BackIn`, `BetweenIn` and
  `ItemOut` that each case of the code is one of the two.  A list the call is not
  about keeps its chain because its nodes are others (`OthersStay`).
- `ListAssumption`, that a missing node is no node, is what a null pointer is.

The clock, its third part: `ClockIsExact`, for any number of nanoseconds in a second
and any width of the fields that holds four to five seconds of nanoseconds, as 32
bits do.  Every function is a chain of carries, and each of them keeps the number
of nanoseconds up to a multiple of `Full`, which its return value tells
(`CarryExact`, `AddSecExact`, `AddNsecExact`, `AddClockExact`).  The difference is
exact where `DiffExact` says so (`DiffClockExact`): with a borrow its whole seconds are
right and its nanoseconds are not, which is `BorrowExact` of section 3.

The timer service, `TimerProofs`: `RecordsAreSound` and `AnswersAreOnce`.  `PlaceInv` is
`OnePlace` as a partition: the three queues, seen as sets, and the two hands exclude
one another and cover the allocated records.  `StateInv` says which timers are in
which queue, also between the two calls of libuv that start one, and inside the
callback that moves a record and closes its handle in two steps; `AnswerInv` when a
response is still to be sent, and that one refused as exiting means that EAF exits;
`LoopInv` that the service stops looping only then.  The queues are treated as sets by `QueueLemmas`: each
holds a record at most once, which makes `eaf_list_erase` remove all of it.

The ring buffer, `RingBufferProofs`: `StructureIsSound` and `RingIsLog`, for any
capacity and any sizes of nodes.  `StructureSound` speaks of `ByAge`, which follows
the links from TAIL on, and is not inductive as it stands: nothing can be said of
a chain that is being rewritten by following it.  `IInv` names the order of the nodes
instead: there are `len`, a bijection `s` from `1 .. len` to the nodes and a number
`k` such that every `newer` and `older` is the neighbour in `s`, HEAD and TAIL are
its ends, the nodes being read are the first `k`, and `oldest_reserve` is the next
(`Order`); chain_pos is a ring in which no node is between a node and its right
neighbour (`Circle`), nodes do not overlap (`Apart`), and the counters count
(`Counted`).
- `ByAgeIs` shows that the chain of the properties is that order, and `InvIsSound`
  that `IInv` implies `StructureSound`.  The induction along the chain, and the one
  along the run of an overwrite, is the induction over a set of natural numbers that
  `Induct` derives from the well-founded order.
- Each operation is a change of `s`: a node changes its state (`ChangeShape`), leaves
  (`DeleteShape`), or enters at the newest end while the nodes after the first `k` make
  room (`Reserved`).  The ring loses a node (`CircleShrinks`) or has a part cut out
  and closed over a new node (`CircleGrows`).
- The hard operation is the overwrite.  `RunIsTaken` shows that the loop, which goes
  on to the right as long as position and age agree, takes the nodes `s[k + 1]` to
  `s[m]` and no other, although it removes an interval of addresses; `OverwritePlace`
  that the new node fits between the nodes that are left.
- `NextMaps` maps each change of `s` to a step of `RingLog`; `FirstIs` shows that its
  first node not being read is `s[k + 1]`.  The overwrite of the newest node is what the
  theorems except, as the property does (`intact`): what is left then is proved to have
  its type only.

The map, `MapProofs`: `MapIsSound` and `SetRefinement`, for any finite set of nodes and
any integer keys (`MapAssumption`, `ProbeAssumption`: `NULL` is no node, and the
comparison is that of integers; any total order of finitely many nodes is one).
- The inductive invariant `MapInv` says that the tree is `Sound` for the linked nodes
  M and that the size is their number.  `Sound(t, M)` names two functions that the
  program does not keep: `sub`, the nodes of every subtree, with which the links have
  the `Shape` of a search tree (up undoes down, the subtree of a child is the nodes of
  its parent's with the smaller, or greater, keys), and `bh`, the black nodes below each
  node, with which the tree is `Balanced`; and no red node has a red child.  The
  properties speak of what is reached from the root and of the black nodes counted
  upwards; `ReachAll` and `BlacksAboveIs` derive both from the invariant.
- `RotateShape` is the one fact about rotations and `sub`; the code writes a rotation
  in two parts that are not a tree in between, and `FinishRotation` shows that they
  make one.  `RedRotation` and `GapRotation` say what a rotation does to the colors.
- Insertion: `LinkReady` (a new red leaf spoils the tree at most towards its parent),
  then `InsertPass`: each pass of the loop repairs the tree or moves the spoilt place two
  levels up.  Removal: `EraseTrims` (the tree without the node, by way of `RenameShape`
  and `CutShape` when its successor takes its place, with one path short of a black
  node), then `ErasePass`: each pass closes the gap or moves it one level up.
- A loop is a recursive function on trees and nodes.  That such a function exists, also
  where the loop it stands for would not end, is `LoopExists`; that these loops end is
  the induction over a tree, from the leaves up (`BottomUp`) or from the root down
  (`TopDown`), on the size of subtrees.
- The queries: `ExtremeIs`, `ClimbIs` and `NearestStep` for the iteration, `DescendIs` and
  `SearchIs` for the look-ups.  That `find_upper` of a key in the map may miss is the
  disagreement of section 3; the theorem, as the property, claims it for absent keys.
  `find_lower` is proved to be what its code and test say, not what `map.h:117` says.

Only model-checked: the eight liveness properties (`Delivered`, `CleanupReturns`,
`LoadReturns`, `Answered`, `ExitReturns`, `CallReturns`, `CallsReturn`, `KeepsAsking`),
which are outside what the proof system can do with fairness and `ENABLED`.  Every
safety invariant, every action property and every refinement that a passing run checks
is a theorem.

## 5. What is not modelled

Of the service runtime: failures of allocation and of thread creation (and the
unwinding of `eaf_init`), the hook injection and iteration functions, hooks
other than the two that can refuse a message, a working thread that cannot set its
thread local storage and returns at once (`service.c:621-624`; `eaf_load` would wait
for it), a yield in `on_init` (an assertion
of the code excludes it), and calls in flight after `eaf_cleanup` has released
the context (the caller must not make them).  Of the messages: the receipt and
token encoding.  Of the ring buffer: `eaf_ringbuffer_begin` and `_next`, which read
only, and the bytes of a node's header (a new node that begins a few words before
the first overwritten one overlaps its header while the links are rewritten; the
code reads each field before it writes it).  Of the timer and of the Message
Service: their init and exit functions, and data races on single words beyond the
order of the accesses.  Of the monitor: the texts of its reports, and failures of
memory and of mutexes.  Of the PowerPack loop: the hooks that only call the same
function of every entry of the table, and the tables of `net` and `log`.  Of the
clock: `eaf_time_getclock` and the calendar, which read the system's clock.  The
comparison function of the map is a comparison of integer keys.

Not modelled at all: `net` (callbacks of libuv pollers; its reference count is all
the state it has), the operating system layer (its meaning is assumed: mutual
exclusion, counting semaphores, join), logging, strings, hashing and random
numbers, and the errno table.

## 6. Remaining work

1. `EafService`: the failure path of `eaf_init`; hook injection while EAF runs.
2. The receipts and tokens of `message.c`; the poll handles of `net.c`.
3. Proofs: what the liveness properties rest on is proved (no lost wakeup, exits are
   noticed, requests are answered once); the properties themselves need a prover for
   fairness.
