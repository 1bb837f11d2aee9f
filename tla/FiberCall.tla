----------------------------- MODULE FiberCall -----------------------------
(***************************************************************************)
(* The call of the Message Service (powerpack/message.c and the macro      *)
(* EAF_MESSAGE_CALL_FILBER): a handler yields, its yield hook sends the    *)
(* request on behalf of the Message Service, whose thread gets the         *)
(* response and resumes the handler, which fetches the result.             *)
(*                                                                         *)
(* A step is one critical section of objlock, one call of the runtime, or  *)
(* the entry to or return from a callback.  Every caller and the Message   *)
(* Service have a working thread of their own; sharing one only removes    *)
(* interleavings.  Of the runtime, state yield, eaf_resume, the queue of   *)
(* the Message Service and the exit are kept; see EafService for the rest. *)
(***************************************************************************)
EXTENDS Integers, Sequences, SequencesExt

CONSTANTS
    Service,    \* the services that call
    Call,       \* the calls, each with its request, response and record
    MayRefuse,  \* calls whose request the runtime may refuse
    None

ASSUME CallAssumption == MayRefuse \subseteq Call /\ None \notin Call

VARIABLES
    pc,         \* pc[s]: where the thread of s is in the macro
    state,      \* state[s]: busy, yield or exit
    cur,        \* cur[s]: the call s executes
    pend_table, ready_table,    \* the records, by call
    orig_rsp    \* calls whose record holds a response
VARIABLES
    asked,      \* requests queued for their receiver
    serving,    \* requests answered, by a handler that has not returned
    inbox,      \* responses queued for the Message Service
    msg_pc, msg_cur,    \* where its thread is, the response it handles
    exiting     \* eaf_exit was called
VARIABLES
    req_ref, rsp_ref,   \* reference counts of requests and responses
    result      \* history: what the macro got

runVars == <<pc, state, cur>>
tableVars == <<pend_table, ready_table, orig_rsp>>
netVars == <<asked, serving, inbox>>
msgVars == <<msg_pc, msg_cur>>
refVars == <<req_ref, rsp_ref>>
vars == <<runVars, tableVars, netVars, msgVars, exiting, refVars, result>>

Init ==
    /\ pc = [s \in Service |-> "run"]
    /\ state = [s \in Service |-> "busy"]
    /\ cur = [s \in Service |-> None]
    /\ pend_table = {} /\ ready_table = {} /\ orig_rsp = {}
    /\ asked = {} /\ serving = {} /\ inbox = << >>
    /\ msg_pc = "idle" /\ msg_cur = None
    /\ exiting = FALSE
    /\ req_ref = [c \in Call |-> 0] /\ rsp_ref = [c \in Call |-> 0]
    /\ result = [c \in Call |-> "none"]

At(s, label) == pc[s] = label
Jump(s, label) == pc' = [pc EXCEPT ![s] = label]
Inc(ref, c) == [ref EXCEPT ![c] = @ + 1]
Dec(ref, c) == [ref EXCEPT ![c] = @ - 1]

\* eaf_resume
NoResume(s) == UNCHANGED state         \* faulty: the handler is left asleep
Resume(s) == state' = IF state[s] = "yield" THEN [state EXCEPT ![s] = "busy"] ELSE state

-----------------------------------------------------------------------------
\* The caller: the macro and its yield hook eaf_message_internal_proxy

\* The request is created and the handler returns with the yield flag; the
\* runtime sets the state before it runs the hook.
StayBusy(s) == UNCHANGED state         \* faulty: the hook runs before the state is set
Yield(s) == state' = [state EXCEPT ![s] = "yield"]

StartCall(s, c) ==
    /\ At(s, "run") /\ result[c] = "none" /\ req_ref[c] = 0
    /\ \A t \in Service : cur[t] # c
    /\ cur' = [cur EXCEPT ![s] = c]
    /\ req_ref' = Inc(req_ref, c)
    /\ Yield(s)
    /\ Jump(s, "insert")
    /\ UNCHANGED <<tableVars, netVars, msgVars, exiting, rsp_ref, result>>

Insert(s) ==
    /\ At(s, "insert")
    /\ pend_table' = pend_table \cup {cur[s]}
    /\ Jump(s, "send")
    /\ UNCHANGED <<state, cur, ready_table, orig_rsp, netVars, msgVars, exiting, refVars, result>>

SendReq(s) ==
    /\ At(s, "send")
    /\ asked' = asked \cup {cur[s]}
    /\ req_ref' = Inc(req_ref, cur[s])
    /\ Jump(s, "loop")
    /\ UNCHANGED <<state, cur, tableVars, serving, inbox, msgVars, exiting, rsp_ref, result>>

\* eaf_send_req refuses: the receiver, its queue, a hook, or the exit.
SendReqFails(s) ==
    /\ At(s, "send")
    /\ exiting \/ cur[s] \in MayRefuse
    /\ Jump(s, "fail")
    /\ UNCHANGED <<state, cur, tableVars, netVars, msgVars, exiting, refVars, result>>

\* The record moves to the ready table, with an error code nobody reads.
SaveError(s) ==
    /\ At(s, "fail")
    /\ pend_table' = pend_table \ {cur[s]}
    /\ ready_table' = ready_table \cup {cur[s]}
    /\ Jump(s, "wake")
    /\ UNCHANGED <<state, cur, orig_rsp, netVars, msgVars, exiting, refVars, result>>

WakeUp(s) ==
    /\ At(s, "wake")
    /\ Resume(s)
    /\ Jump(s, "loop")
    /\ UNCHANGED <<cur, tableVars, netVars, msgVars, exiting, refVars, result>>

\* The thread finds the service busy again and goes back into its handler.
Reenter(s) ==
    /\ At(s, "loop") /\ state[s] = "busy"
    /\ Jump(s, "finalize")
    /\ UNCHANGED <<state, cur, tableVars, netVars, msgVars, exiting, refVars, result>>

\* eaf_message_internal_finalize: it returns success for every record it finds
\* (and finds one: ResumedWhenReady).
KeepReq(c) == UNCHANGED req_ref        \* faulty: the request is never released
DropReq(c) == req_ref' = Dec(req_ref, c)

Finalize(s) ==
    /\ At(s, "finalize") /\ cur[s] \in ready_table
    /\ ready_table' = ready_table \ {cur[s]}
    /\ result' = [result EXCEPT ![cur[s]] =
                     IF cur[s] \in orig_rsp THEN "response" ELSE "null"]
    /\ DropReq(cur[s])
    /\ Jump(s, "deserialize")
    /\ UNCHANGED <<state, cur, pend_table, orig_rsp, netVars, msgVars, exiting, rsp_ref>>

\* code_deserialize and eaf_msg_dec_ref(_1); with _1 NULL neither is defined.
Deserialize(s) ==
    /\ At(s, "deserialize") /\ result[cur[s]] = "response"
    /\ rsp_ref' = Dec(rsp_ref, cur[s])
    /\ cur' = [cur EXCEPT ![s] = None]
    /\ Jump(s, "run")
    /\ UNCHANGED <<state, tableVars, netVars, msgVars, exiting, req_ref, result>>

\* The group of s exits between two callbacks.
ServiceExit(s) ==
    /\ exiting /\ pc[s] \in {"run", "loop"} /\ state[s] # "exit"
    /\ state' = [state EXCEPT ![s] = "exit"]
    /\ Jump(s, "exited")
    /\ UNCHANGED <<cur, tableVars, netVars, msgVars, exiting, refVars, result>>

-----------------------------------------------------------------------------
\* The receiver: its handler answers, returns, and the runtime releases the
\* request.  In an exiting system it may be discarded.

Respond(c) ==
    /\ c \in asked
    /\ asked' = asked \ {c}
    /\ serving' = serving \cup {c}
    /\ rsp_ref' = Inc(rsp_ref, c)
    /\ inbox' = Append(inbox, c)
    /\ UNCHANGED <<runVars, tableVars, msgVars, exiting, req_ref, result>>

\* eaf_send_rsp refuses in an exiting system; the handler releases the response.
RespondRefused(c) ==
    /\ exiting /\ c \in asked
    /\ asked' = asked \ {c}
    /\ serving' = serving \cup {c}
    /\ UNCHANGED <<runVars, tableVars, inbox, msgVars, exiting, refVars, result>>

HandlerReturn(c) ==
    /\ c \in serving
    /\ serving' = serving \ {c}
    /\ req_ref' = Dec(req_ref, c)
    /\ UNCHANGED <<runVars, tableVars, asked, inbox, msgVars, exiting, rsp_ref, result>>

Discard(c) ==
    /\ exiting /\ c \in asked
    /\ asked' = asked \ {c}
    /\ req_ref' = Dec(req_ref, c)
    /\ UNCHANGED <<runVars, tableVars, serving, inbox, msgVars, exiting, rsp_ref, result>>

-----------------------------------------------------------------------------
\* The Message Service: eaf_message_internal_response_handler

MsgJump(label) == msg_pc' = label
Caller(c) == CHOOSE s \in Service : cur[s] = c

AddRef(c) == rsp_ref' = Inc(rsp_ref, c)

MsgTake ==
    /\ msg_pc = "idle" /\ inbox # << >>
    /\ msg_cur' = Head(inbox)
    /\ inbox' = Tail(inbox)
    /\ AddRef(Head(inbox))
    /\ MsgJump("find")
    /\ UNCHANGED <<runVars, tableVars, asked, serving, exiting, req_ref, result>>

KeepPending(c) == UNCHANGED pend_table \* faulty: the record stays pending as well
ErasePending(c) == pend_table' = pend_table \ {c}

MsgFind ==
    /\ msg_pc = "find"
    /\ ErasePending(msg_cur)
    /\ ready_table' = ready_table \cup {msg_cur}
    /\ orig_rsp' = orig_rsp \cup {msg_cur}
    /\ MsgJump("resume")
    /\ UNCHANGED <<runVars, netVars, msg_cur, exiting, refVars, result>>

MsgResume ==
    /\ msg_pc = "resume"
    /\ Resume(Caller(msg_cur))
    /\ MsgJump("return")
    /\ UNCHANGED <<pc, cur, tableVars, netVars, msg_cur, exiting, refVars, result>>

MsgReturn ==
    /\ msg_pc = "return"
    /\ rsp_ref' = Dec(rsp_ref, msg_cur)
    /\ msg_cur' = None
    /\ MsgJump("idle")
    /\ UNCHANGED <<runVars, tableVars, netVars, exiting, req_ref, result>>

MsgExit ==
    /\ exiting /\ msg_pc = "idle"
    /\ MsgJump("exited")
    /\ UNCHANGED <<runVars, tableVars, netVars, msg_cur, exiting, refVars, result>>

Exit ==
    /\ ~exiting
    /\ exiting' = TRUE
    /\ UNCHANGED <<runVars, tableVars, netVars, msgVars, refVars, result>>

CallerStep(s) ==
    \/ Insert(s) \/ SendReq(s) \/ SendReqFails(s) \/ SaveError(s) \/ WakeUp(s)
    \/ Reenter(s) \/ Finalize(s) \/ Deserialize(s)
ReceiverStep(c) == Respond(c) \/ RespondRefused(c) \/ HandlerReturn(c) \/ Discard(c)
MsgStep == MsgTake \/ MsgFind \/ MsgResume \/ MsgReturn

Next ==
    \/ \E s \in Service, c \in Call : StartCall(s, c)
    \/ \E s \in Service : CallerStep(s) \/ ServiceExit(s)
    \/ \E c \in Call : ReceiverStep(c)
    \/ MsgStep \/ MsgExit
    \/ Exit

Spec == Init /\ [][Next]_vars

\* Every thread runs and receivers answer.
FairSpec ==
    /\ Spec
    /\ \A s \in Service : WF_vars(CallerStep(s))
    /\ \A c \in Call : WF_vars(ReceiverStep(c))
    /\ WF_vars(MsgStep)

-----------------------------------------------------------------------------
\* Every variable ranges over what the code can store in it; no reference count
\* falls below zero.
TypeOK ==
    /\ pc \in [Service -> {"run", "insert", "send", "fail", "wake", "loop", "finalize",
                           "deserialize", "exited"}]
    /\ state \in [Service -> {"busy", "yield", "exit"}]
    /\ cur \in [Service -> Call \cup {None}]
    /\ pend_table \cup ready_table \cup orig_rsp \cup asked \cup serving \subseteq Call
    /\ inbox \in Seq(Call) /\ msg_cur \in Call \cup {None}
    /\ msg_pc \in {"idle", "find", "resume", "return", "exited"}
    /\ exiting \in BOOLEAN
    /\ req_ref \in [Call -> Nat] /\ rsp_ref \in [Call -> Nat]
    /\ result \in [Call -> {"none", "response", "null"}]

\* A call has one record from the insertion by the hook to finalize, in one of
\* the tables, and the response handler finds it where its assertion says.
InCall(s) == pc[s] \in {"send", "fail", "wake", "loop", "finalize"}
Left(s) == pc[s] = "exited" /\ cur[s] # None
OneTable ==
    /\ pend_table \cap ready_table = {}
    /\ pend_table \cup ready_table = {cur[s] : s \in {s \in Service : InCall(s) \/ Left(s)}}
    /\ msg_pc = "find" => msg_cur \in pend_table
\* The same of a state in which every variable has its type.
RecordsSound == TypeOK /\ OneTable

\* A handler that goes on after its yield finds its result: it is not resumed
\* before its record is ready, and the result is that of its own call.
ResumedWhenReady ==
    \A s \in Service :
        \/ state[s] = "busy" /\ pc[s] \in {"loop", "finalize"}
        \/ pc[s] = "finalize"
        => cur[s] \in ready_table

\* The assertion that eaf_resume succeeds in the response handler: the service
\* is asleep when its response is there, unless it has exited meanwhile.
ResumeAccepted ==
    msg_pc = "resume" => state[Caller(msg_cur)] = "yield" \/ exiting

\* Requests and responses are released exactly when nobody uses them any more:
\* the record, the queues and both handlers hold a reference each.
Holds(b) == IF b THEN 1 ELSE 0
RefsExact ==
    \A c \in Call :
        /\ req_ref[c] = Holds(c \in asked \cup serving)
                        + Holds(\E s \in Service : cur[s] = c /\ pc[s] # "deserialize")
        /\ rsp_ref[c] = Holds(c \in ToSet(inbox) \/ msg_cur = c)
                        + Holds(msg_cur = c /\ msg_pc = "find")
                        + Holds(c \in orig_rsp /\ \E s \in Service : cur[s] = c)

\* A call whose request was sent or refused comes back to its handler.
CallReturns ==
    \A s \in Service : pc[s] = "send" ~> pc[s] = "deserialize" \/ exiting

\* message.h:115: finalize gives back "The response message with reference count
\* set to 1", and its result is that of the operation.
ResultHasResponse == \A c \in Call : result[c] # "null"

=============================================================================
