--------------------------- MODULE FiberCallProofs ---------------------------
(***************************************************************************)
(* Proofs about the call of the Message Service, for all sets of services  *)
(* and calls, any refusals and an exit at any time.                        *)
(***************************************************************************)
EXTENDS FiberCall, QueueLemmas

\* Calls whose request or response is on its way to the record that waits for it.
Flight == asked \cup ToSet(inbox) \cup (IF msg_pc = "find" THEN {msg_cur} ELSE {})

\* A service sleeps in the call c, or has left it for good.
Asleep(c) ==
    \E s \in Service :
        cur[s] = c /\ ((pc[s] = "loop" /\ state[s] = "yield") \/ pc[s] = "exited")

\* What the place of a caller says of its call.
CallerInv(s) ==
    /\ pc[s] = "run" => cur[s] = None
    /\ pc[s] \notin {"run", "exited"} => cur[s] \in Call
    /\ pc[s] = "exited" => exiting /\ state[s] = "exit"
    /\ pc[s] \in {"insert", "send", "fail", "wake"} => state[s] = "yield"
    /\ pc[s] \in {"insert", "send"} => cur[s] \notin orig_rsp \cup serving
    /\ pc[s] \in {"send", "fail"} => cur[s] \in pend_table
    /\ pc[s] \in {"wake", "finalize"} => cur[s] \in ready_table
    /\ pc[s] = "loop" /\ state[s] = "busy" => cur[s] \in ready_table
    /\ pc[s] = "deserialize" => (result[cur[s]] = "response" <=> cur[s] \in orig_rsp)

CallersInv ==
    /\ \A s \in Service : CallerInv(s)
    /\ \A s, t \in Service : cur[s] = cur[t] => s = t \/ cur[s] = None

\* What is on its way is on its way once, to a record that is pending.
FlightInv ==
    /\ \A c \in Flight : c \in pend_table /\ c \notin orig_rsp /\ Asleep(c)
    /\ asked \cap ToSet(inbox) = {} /\ asked \cap serving = {}
    /\ msg_pc = "find" => msg_cur \notin asked \cup ToSet(inbox)
    /\ Distinct(inbox)

\* Where the thread of the Message Service is with its response.
MsgInv ==
    /\ msg_pc \in {"idle", "exited"} <=> msg_cur = None
    /\ msg_pc \in {"resume", "return"} => msg_cur \in orig_rsp
    /\ msg_pc = "resume" => msg_cur \in ready_table /\ Asleep(msg_cur)
    /\ \A c \in orig_rsp : (\E s \in Service : cur[s] = c) \/ result[c] # "none"

\* OneTable, call by call.
Tables ==
    /\ pend_table \cap ready_table = {}
    /\ \A c \in Call :
          c \in pend_table \cup ready_table
              <=> \E s \in Service : cur[s] = c /\ (InCall(s) \/ Left(s))

\* Who holds a reference of a request or of a response: the terms of RefsExact.
ReqUsed(c) == c \in asked \cup serving
ReqOwned(c) == \E s \in Service : cur[s] = c /\ pc[s] # "deserialize"
RspQueued(c) == c \in ToSet(inbox) \/ msg_cur = c
RspSought(c) == msg_cur = c /\ msg_pc = "find"
RspKept(c) == c \in orig_rsp /\ \E s \in Service : cur[s] = c

\* RefsExact, in these terms.
RefsBy ==
    \A c \in Call :
        /\ req_ref[c] = Holds(ReqUsed(c)) + Holds(ReqOwned(c))
        /\ rsp_ref[c] = Holds(RspQueued(c)) + Holds(RspSought(c)) + Holds(RspKept(c))

IInv == TypeOK /\ Tables /\ CallersInv /\ FlightInv /\ MsgInv /\ RefsBy

-----------------------------------------------------------------------------
\* A call begins: nothing of it is on its way yet.
LEMMA StartCallStep == ASSUME IInv, NEW s \in Service, NEW c \in Call, StartCall(s, c) PROVE IInv'
<1> USE CallAssumption DEF StartCall, Yield, At, Jump, Inc, Dec,
        runVars, tableVars, netVars, msgVars, refVars
<1>1. RefsBy'
  <2>1. ~ReqOwned(c) /\ c \notin orig_rsp
    BY DEF IInv, TypeOK, ReqOwned, FlightInv, Flight, MsgInv
  <2>2. \A d \in Call :
           /\ ReqUsed(d)' <=> ReqUsed(d)
           /\ ReqOwned(d)' <=> ReqOwned(d) \/ d = c
           /\ RspQueued(d)' <=> RspQueued(d)
           /\ RspSought(d)' <=> RspSought(d)
           /\ RspKept(d)' <=> RspKept(d)
    BY <2>1
       DEF IInv, TypeOK, CallersInv, CallerInv, ReqUsed, ReqOwned, RspQueued, RspSought,
           RspKept
  <2> QED BY <2>1, <2>2 DEF IInv, TypeOK, RefsBy, Holds
<1>2. TypeOK'
  BY DEF IInv, TypeOK
<1>3. Tables'
  BY DEF IInv, TypeOK, Tables, InCall, Left, CallersInv, CallerInv
<1>4. CallersInv'
  <2>1. c \notin orig_rsp \cup serving
    <3>1. c \notin orig_rsp
      BY DEF IInv, MsgInv
    <3>2. req_ref[c] = Holds(c \in asked \cup serving) + Holds(ReqOwned(c))
      BY DEF IInv, RefsBy, ReqUsed
    <3>3. c \notin serving
      BY <3>2 DEF Holds
    <3> QED BY <3>1, <3>3
  <2>2. \A t \in Service : CallerInv(t)'
    BY <2>1 DEF IInv, TypeOK, CallersInv, CallerInv
  <2>3. \A t, u \in Service : cur'[t] = cur'[u] => t = u \/ cur'[t] = None
    BY DEF IInv, TypeOK, CallersInv
  <2> QED BY <2>2, <2>3 DEF CallersInv
<1>5. FlightInv'
  BY DEF IInv, TypeOK, FlightInv, Flight, Asleep
<1>6. MsgInv'
  BY DEF IInv, TypeOK, MsgInv, Asleep, CallersInv, CallerInv
<1> QED BY <1>1, <1>2, <1>3, <1>4, <1>5, <1>6 DEF IInv

\* The hook inserts the record.
LEMMA InsertStep == ASSUME IInv, NEW s \in Service, Insert(s) PROVE IInv'
<1> USE CallAssumption DEF Insert, At, Jump, Inc, Dec,
        runVars, tableVars, netVars, msgVars, refVars
<1>0. cur[s] \in Call /\ \A t \in Service : cur[t] = cur[s] => t = s
  BY DEF IInv, CallersInv, CallerInv
<1>1. RefsBy'
  <2>1. \A d \in Call :
           /\ ReqUsed(d)' <=> ReqUsed(d)
           /\ ReqOwned(d)' <=> ReqOwned(d)
           /\ RspQueued(d)' <=> RspQueued(d)
           /\ RspSought(d)' <=> RspSought(d)
           /\ RspKept(d)' <=> RspKept(d)
    BY <1>0 DEF IInv, TypeOK, ReqUsed, ReqOwned, RspQueued, RspSought, RspKept
  <2> QED BY <1>0, <2>1 DEF IInv, TypeOK, RefsBy, Holds
<1>2. TypeOK'
  <2>1. pend_table' \subseteq Call
    BY <1>0 DEF IInv, TypeOK
  <2> QED BY <2>1 DEF IInv, TypeOK
<1>3. Tables'
  <2>1. \A t \in Service : InCall(t)' \/ Left(t)' <=> InCall(t) \/ Left(t) \/ t = s
    BY <1>0 DEF IInv, TypeOK, CallersInv, CallerInv, InCall, Left
  <2>2. ~InCall(s) /\ ~Left(s)
    BY <1>0 DEF IInv, TypeOK, CallersInv, CallerInv, InCall, Left
  <2> QED BY <1>0, <2>1, <2>2 DEF IInv, TypeOK, Tables
<1>4. CallersInv'
  BY <1>0 DEF IInv, TypeOK, CallersInv, CallerInv
<1>5. FlightInv'
  BY <1>0 DEF IInv, TypeOK, FlightInv, Flight, Asleep
<1>6. MsgInv'
  BY <1>0 DEF IInv, TypeOK, MsgInv, Asleep
<1> QED BY <1>1, <1>2, <1>3, <1>4, <1>5, <1>6 DEF IInv

\* The request goes on its way.
LEMMA SendReqStep == ASSUME IInv, NEW s \in Service, SendReq(s) PROVE IInv'
<1> USE CallAssumption DEF SendReq, At, Jump, Inc, Dec,
        runVars, tableVars, netVars, msgVars, refVars
<1>0. /\ cur[s] \in Call /\ (\A t \in Service : cur[t] = cur[s] => t = s)
      /\ cur[s] \notin Flight
  BY DEF IInv, CallersInv, CallerInv, FlightInv, Asleep
<1>1. RefsBy'
  <2>1. \A d \in Call :
           /\ ReqUsed(d)' <=> ReqUsed(d) \/ d = cur[s]
           /\ ReqOwned(d)' <=> ReqOwned(d)
           /\ RspQueued(d)' <=> RspQueued(d)
           /\ RspSought(d)' <=> RspSought(d)
           /\ RspKept(d)' <=> RspKept(d)
    BY <1>0 DEF IInv, TypeOK, ReqUsed, ReqOwned, RspQueued, RspSought, RspKept
  <2>2. ~ReqUsed(cur[s]) /\ cur[s] \in Call
    BY <1>0 DEF IInv, TypeOK, ReqUsed, CallersInv, CallerInv, FlightInv, Flight, MsgInv
  <2> QED BY <1>0, <2>1, <2>2 DEF IInv, TypeOK, RefsBy, Holds
<1>2. TypeOK'
  BY <1>0 DEF IInv, TypeOK
<1>3. Tables'
  BY <1>0 DEF IInv, TypeOK, Tables, InCall, Left
<1>4. CallersInv'
  BY <1>0 DEF IInv, TypeOK, CallersInv, CallerInv
<1>5. FlightInv'
  <2>1. Flight' = Flight \cup {cur[s]}
    BY DEF Flight
  <2>2. \A d \in Flight : Asleep(d)'
    BY DEF IInv, TypeOK, FlightInv, Asleep
  <2>3. Asleep(cur[s])' /\ cur[s] \in pend_table /\ cur[s] \notin orig_rsp \cup serving
    BY DEF IInv, TypeOK, CallersInv, CallerInv, Asleep
  <2>4. /\ asked' \cap ToSet(inbox') = {} /\ asked' \cap serving' = {}
        /\ msg_pc' = "find" => msg_cur' \notin asked' \cup ToSet(inbox')
    BY <1>0, <2>3 DEF IInv, FlightInv, Flight
  <2> QED BY <2>1, <2>2, <2>3, <2>4 DEF IInv, FlightInv
<1>6. MsgInv'
  BY <1>0 DEF IInv, TypeOK, MsgInv, Asleep
<1> QED BY <1>1, <1>2, <1>3, <1>4, <1>5, <1>6 DEF IInv

\* The request is refused.
LEMMA SendReqFailsStep == ASSUME IInv, NEW s \in Service, SendReqFails(s) PROVE IInv'
<1> USE CallAssumption DEF SendReqFails, At, Jump, Inc, Dec,
        runVars, tableVars, netVars, msgVars, refVars
<1>1. RefsBy'
  <2>1. \A d \in Call :
           /\ ReqUsed(d)' <=> ReqUsed(d)
           /\ ReqOwned(d)' <=> ReqOwned(d)
           /\ RspQueued(d)' <=> RspQueued(d)
           /\ RspSought(d)' <=> RspSought(d)
           /\ RspKept(d)' <=> RspKept(d)
    BY DEF IInv, TypeOK, ReqUsed, ReqOwned, RspQueued, RspSought, RspKept
  <2> QED BY <2>1 DEF IInv, TypeOK, RefsBy, Holds
<1>2. TypeOK'
  BY DEF IInv, TypeOK
<1>3. Tables'
  BY DEF IInv, TypeOK, Tables, InCall, Left
<1>4. CallersInv'
  BY DEF IInv, TypeOK, CallersInv, CallerInv
<1>5. FlightInv'
  BY DEF IInv, TypeOK, FlightInv, Flight, Asleep
<1>6. MsgInv'
  BY DEF IInv, TypeOK, MsgInv, Asleep
<1> QED BY <1>1, <1>2, <1>3, <1>4, <1>5, <1>6 DEF IInv

\* The record of a refused request becomes ready.
LEMMA SaveErrorStep == ASSUME IInv, NEW s \in Service, SaveError(s) PROVE IInv'
<1> USE CallAssumption DEF SaveError, At, Jump, Inc, Dec,
        runVars, tableVars, netVars, msgVars, refVars
<1>0. /\ cur[s] \in Call /\ (\A t \in Service : cur[t] = cur[s] => t = s)
      /\ cur[s] \notin Flight
  BY DEF IInv, CallersInv, CallerInv, FlightInv, Asleep
<1>1. RefsBy'
  <2>1. \A d \in Call :
           /\ ReqUsed(d)' <=> ReqUsed(d)
           /\ ReqOwned(d)' <=> ReqOwned(d)
           /\ RspQueued(d)' <=> RspQueued(d)
           /\ RspSought(d)' <=> RspSought(d)
           /\ RspKept(d)' <=> RspKept(d)
    BY <1>0 DEF IInv, TypeOK, ReqUsed, ReqOwned, RspQueued, RspSought, RspKept
  <2> QED BY <1>0, <2>1 DEF IInv, TypeOK, RefsBy, Holds
<1>2. TypeOK'
  BY <1>0 DEF IInv, TypeOK
<1>3. Tables'
  BY <1>0 DEF IInv, TypeOK, Tables, InCall, Left
<1>4. CallersInv'
  BY <1>0 DEF IInv, TypeOK, CallersInv, CallerInv
<1>5. FlightInv'
  <2>1. Flight' = Flight
    BY DEF Flight
  <2>2. \A d \in Flight : Asleep(d)'
    BY DEF IInv, TypeOK, FlightInv, Asleep
  <2> QED BY <1>0, <2>1, <2>2 DEF IInv, FlightInv
<1>6. MsgInv'
  BY <1>0 DEF IInv, TypeOK, MsgInv, Asleep
<1> QED BY <1>1, <1>2, <1>3, <1>4, <1>5, <1>6 DEF IInv

\* The caller of a refused request wakes itself up.
LEMMA WakeUpStep == ASSUME IInv, NEW s \in Service, WakeUp(s) PROVE IInv'
<1> USE CallAssumption DEF WakeUp, Resume, At, Jump, Inc, Dec,
        runVars, tableVars, netVars, msgVars, refVars
<1>1. RefsBy'
  <2>1. \A d \in Call :
           /\ ReqUsed(d)' <=> ReqUsed(d)
           /\ ReqOwned(d)' <=> ReqOwned(d)
           /\ RspQueued(d)' <=> RspQueued(d)
           /\ RspSought(d)' <=> RspSought(d)
           /\ RspKept(d)' <=> RspKept(d)
    BY DEF IInv, TypeOK, ReqUsed, ReqOwned, RspQueued, RspSought, RspKept
  <2> QED BY <2>1 DEF IInv, TypeOK, RefsBy, Holds
<1>2. TypeOK'
  BY DEF IInv, TypeOK
<1>3. Tables'
  BY DEF IInv, TypeOK, Tables, InCall, Left
<1>4. CallersInv'
  BY DEF IInv, TypeOK, CallersInv, CallerInv
<1>5. FlightInv'
  BY DEF IInv, TypeOK, FlightInv, Flight, Asleep
<1>6. MsgInv'
  BY DEF IInv, TypeOK, MsgInv, Asleep
<1> QED BY <1>1, <1>2, <1>3, <1>4, <1>5, <1>6 DEF IInv

\* The thread goes back into the handler.
LEMMA ReenterStep == ASSUME IInv, NEW s \in Service, Reenter(s) PROVE IInv'
<1> USE CallAssumption DEF Reenter, At, Jump, Inc, Dec,
        runVars, tableVars, netVars, msgVars, refVars
<1>1. RefsBy'
  <2>1. \A d \in Call :
           /\ ReqUsed(d)' <=> ReqUsed(d)
           /\ ReqOwned(d)' <=> ReqOwned(d)
           /\ RspQueued(d)' <=> RspQueued(d)
           /\ RspSought(d)' <=> RspSought(d)
           /\ RspKept(d)' <=> RspKept(d)
    BY DEF IInv, TypeOK, ReqUsed, ReqOwned, RspQueued, RspSought, RspKept
  <2> QED BY <2>1 DEF IInv, TypeOK, RefsBy, Holds
<1>2. TypeOK'
  BY DEF IInv, TypeOK
<1>3. Tables'
  BY DEF IInv, TypeOK, Tables, InCall, Left
<1>4. CallersInv'
  BY DEF IInv, TypeOK, CallersInv, CallerInv
<1>5. FlightInv'
  BY DEF IInv, TypeOK, FlightInv, Flight, Asleep
<1>6. MsgInv'
  BY DEF IInv, TypeOK, MsgInv, Asleep
<1> QED BY <1>1, <1>2, <1>3, <1>4, <1>5, <1>6 DEF IInv

\* The caller takes its record and releases its request.
LEMMA FinalizeStep == ASSUME IInv, NEW s \in Service, Finalize(s) PROVE IInv'
<1> USE CallAssumption DEF Finalize, DropReq, At, Jump, Inc, Dec,
        runVars, tableVars, netVars, msgVars, refVars
<1>0. cur[s] \in Call /\ \A t \in Service : cur[t] = cur[s] => t = s
  BY DEF IInv, CallersInv, CallerInv
<1>1. RefsBy'
  <2>1. \A d \in Call :
           /\ ReqUsed(d)' <=> ReqUsed(d)
           /\ ReqOwned(d)' <=> ReqOwned(d) /\ d # cur[s]
           /\ RspQueued(d)' <=> RspQueued(d)
           /\ RspSought(d)' <=> RspSought(d)
           /\ RspKept(d)' <=> RspKept(d)
    BY <1>0 DEF IInv, TypeOK, ReqUsed, ReqOwned, RspQueued, RspSought, RspKept
  <2>2. ReqOwned(cur[s]) /\ cur[s] \in Call
    BY <1>0 DEF IInv, TypeOK, ReqOwned
  <2> QED BY <1>0, <2>1, <2>2 DEF IInv, TypeOK, RefsBy, Holds
<1>2. TypeOK'
  <2>1. req_ref[cur[s]] \in Nat \ {0}
    <3>1. req_ref[cur[s]] = Holds(ReqUsed(cur[s])) + 1
      BY <1>0 DEF IInv, RefsBy, Holds, ReqOwned
    <3> QED BY <3>1 DEF Holds
  <2>2. req_ref' \in [Call -> Nat] /\ result' \in [Call -> {"none", "response", "null"}]
    BY <1>0, <2>1 DEF IInv, TypeOK
  <2> QED BY <2>2 DEF IInv, TypeOK
<1>3. Tables'
  <2>1. \A t \in Service : InCall(t)' \/ Left(t)' <=> (InCall(t) \/ Left(t)) /\ t # s
    BY <1>0 DEF IInv, TypeOK, Tables, CallersInv, CallerInv, InCall, Left
  <2>2. InCall(s) /\ cur[s] \notin pend_table
    BY <1>0 DEF IInv, TypeOK, Tables, CallersInv, CallerInv, InCall, Left
  <2> QED BY <1>0, <2>1, <2>2 DEF IInv, TypeOK, Tables
<1>4. CallersInv'
  BY <1>0 DEF IInv, TypeOK, CallersInv, CallerInv
<1>5. FlightInv'
  BY <1>0 DEF IInv, TypeOK, FlightInv, Flight, Asleep
<1>6. MsgInv'
  BY <1>0 DEF IInv, TypeOK, MsgInv, Asleep
<1> QED BY <1>1, <1>2, <1>3, <1>4, <1>5, <1>6 DEF IInv

\* The caller releases its response.
LEMMA DeserializeStep == ASSUME IInv, NEW s \in Service, Deserialize(s) PROVE IInv'
<1> USE CallAssumption DEF Deserialize, At, Jump, Inc, Dec,
        runVars, tableVars, netVars, msgVars, refVars
<1>0. cur[s] \in Call /\ \A t \in Service : cur[t] = cur[s] => t = s
  BY DEF IInv, CallersInv, CallerInv
<1>1. RefsBy'
  <2>1. \A d \in Call :
           /\ ReqUsed(d)' <=> ReqUsed(d)
           /\ ReqOwned(d)' <=> ReqOwned(d)
           /\ RspQueued(d)' <=> RspQueued(d)
           /\ RspSought(d)' <=> RspSought(d)
           /\ RspKept(d)' <=> RspKept(d) /\ d # cur[s]
    BY <1>0 DEF IInv, TypeOK, ReqUsed, ReqOwned, RspQueued, RspSought, RspKept
  <2>2. RspKept(cur[s]) /\ cur[s] \in Call
    BY <1>0 DEF IInv, TypeOK, RspKept, CallersInv, CallerInv
  <2> QED BY <1>0, <2>1, <2>2 DEF IInv, TypeOK, RefsBy, Holds
<1>2. TypeOK'
  <2>1. rsp_ref[cur[s]] \in Nat \ {0}
    <3>1. cur[s] \in orig_rsp
      BY DEF IInv, CallersInv, CallerInv
    <3>2. rsp_ref[cur[s]] = Holds(RspQueued(cur[s])) + Holds(RspSought(cur[s])) + 1
      BY <1>0, <3>1 DEF IInv, RefsBy, Holds, RspKept
    <3> QED BY <3>2 DEF Holds
  <2>2. rsp_ref' \in [Call -> Nat] /\ cur' \in [Service -> Call \cup {None}]
    BY <1>0, <2>1 DEF IInv, TypeOK
  <2> QED BY <2>2 DEF IInv, TypeOK
<1>3. Tables'
  <2>1. \A t \in Service : InCall(t)' \/ Left(t)' <=> InCall(t) \/ Left(t)
    BY <1>0 DEF IInv, TypeOK, CallersInv, CallerInv, InCall, Left
  <2>2. ~InCall(s) /\ ~Left(s)
    BY <1>0 DEF IInv, TypeOK, CallersInv, CallerInv, InCall, Left
  <2> QED BY <1>0, <2>1, <2>2 DEF IInv, TypeOK, Tables
<1>4. CallersInv'
  BY <1>0 DEF IInv, TypeOK, CallersInv, CallerInv
<1>5. FlightInv'
  BY <1>0 DEF IInv, TypeOK, FlightInv, Flight, Asleep
<1>6. MsgInv'
  <2>1. msg_pc = "resume" => Asleep(msg_cur)'
    BY DEF IInv, TypeOK, MsgInv, Asleep
  <2>2. \A d \in orig_rsp : (\E t \in Service : cur'[t] = d) \/ result[d] # "none"
    <3> SUFFICES ASSUME NEW d \in orig_rsp
                 PROVE  (\E t \in Service : cur'[t] = d) \/ result[d] # "none"
      OBVIOUS
    <3>1. CASE d = cur[s]
      BY <3>1
    <3>2. CASE d # cur[s]
      BY <3>2 DEF IInv, TypeOK, MsgInv
    <3> QED BY <3>1, <3>2
  <2> QED BY <2>1, <2>2 DEF IInv, MsgInv
<1> QED BY <1>1, <1>2, <1>3, <1>4, <1>5, <1>6 DEF IInv

\* The caller exits between two callbacks.
LEMMA ServiceExitStep == ASSUME IInv, NEW s \in Service, ServiceExit(s) PROVE IInv'
<1> USE CallAssumption DEF ServiceExit, At, Jump, Inc, Dec,
        runVars, tableVars, netVars, msgVars, refVars
<1>1. RefsBy'
  <2>1. \A d \in Call :
           /\ ReqUsed(d)' <=> ReqUsed(d)
           /\ ReqOwned(d)' <=> ReqOwned(d)
           /\ RspQueued(d)' <=> RspQueued(d)
           /\ RspSought(d)' <=> RspSought(d)
           /\ RspKept(d)' <=> RspKept(d)
    BY DEF IInv, TypeOK, ReqUsed, ReqOwned, RspQueued, RspSought, RspKept
  <2> QED BY <2>1 DEF IInv, TypeOK, RefsBy, Holds
<1>2. TypeOK'
  BY DEF IInv, TypeOK
<1>3. Tables'
  <2>1. \A t \in Service :
           InCall(t)' \/ Left(t)' <=> IF t = s THEN cur[s] # None ELSE InCall(t) \/ Left(t)
    BY DEF IInv, TypeOK, CallersInv, CallerInv, InCall, Left
  <2>2. None \notin Call /\ (InCall(s) \/ cur[s] = None)
    BY DEF IInv, TypeOK, CallersInv, CallerInv, InCall, Left
  <2> QED BY <2>1, <2>2 DEF IInv, TypeOK, Tables
<1>4. CallersInv'
  BY DEF IInv, TypeOK, CallersInv, CallerInv
<1>5. FlightInv'
  BY DEF IInv, TypeOK, FlightInv, Flight, Asleep
<1>6. MsgInv'
  BY DEF IInv, TypeOK, MsgInv, Asleep
<1> QED BY <1>1, <1>2, <1>3, <1>4, <1>5, <1>6 DEF IInv

\* The receiver answers.
LEMMA RespondStep == ASSUME IInv, NEW c \in Call, Respond(c) PROVE IInv'
<1> USE CallAssumption DEF Respond, At, Jump, Inc, Dec,
        runVars, tableVars, netVars, msgVars, refVars
<1>0. /\ inbox' \in Seq(Call) /\ Distinct(inbox') /\ ToSet(inbox') = ToSet(inbox) \cup {c}
  BY AppendSet DEF IInv, TypeOK, FlightInv
<1>1. RefsBy'
  <2>1. \A d \in Call :
           /\ ReqUsed(d)' <=> ReqUsed(d)
           /\ ReqOwned(d)' <=> ReqOwned(d)
           /\ RspQueued(d)' <=> RspQueued(d) \/ d = c
           /\ RspSought(d)' <=> RspSought(d)
           /\ RspKept(d)' <=> RspKept(d)
    BY <1>0
       DEF IInv, TypeOK, ReqUsed, ReqOwned, RspQueued, RspSought, RspKept, CallersInv,
           CallerInv, FlightInv, Flight, Asleep, MsgInv, Tables, InCall, Left
  <2>2. ~RspQueued(c)
    BY <1>0 DEF IInv, TypeOK, RspQueued, FlightInv, Flight, MsgInv
  <2> SUFFICES ASSUME NEW d \in Call
               PROVE  /\ req_ref'[d] = Holds(ReqUsed(d)') + Holds(ReqOwned(d)')
                      /\ rsp_ref'[d] = Holds(RspQueued(d)') + Holds(RspSought(d)')
                                       + Holds(RspKept(d)')
    BY DEF RefsBy, Holds
  <2>3. CASE d = c
    BY <2>1, <2>2, <2>3 DEF IInv, TypeOK, RefsBy, Holds
  <2>4. CASE d # c
    BY <2>1, <2>2, <2>4 DEF IInv, TypeOK, RefsBy, Holds
  <2> QED BY <2>3, <2>4
<1>2. TypeOK'
  BY <1>0 DEF IInv, TypeOK
<1>3. Tables'
  BY <1>0 DEF IInv, TypeOK, Tables, InCall, Left
<1>4. CallersInv'
  BY <1>0 DEF IInv, TypeOK, CallersInv, CallerInv, FlightInv, Flight, Asleep
<1>5. FlightInv'
  BY <1>0 DEF IInv, TypeOK, FlightInv, Flight, Asleep
<1>6. MsgInv'
  BY <1>0 DEF IInv, TypeOK, MsgInv, Asleep
<1> QED BY <1>1, <1>2, <1>3, <1>4, <1>5, <1>6 DEF IInv

\* The response is refused.
LEMMA RespondRefusedStep == ASSUME IInv, NEW c \in Call, RespondRefused(c) PROVE IInv'
<1> USE CallAssumption DEF RespondRefused, At, Jump, Inc, Dec,
        runVars, tableVars, netVars, msgVars, refVars
<1>1. RefsBy'
  <2>1. \A d \in Call :
           /\ ReqUsed(d)' <=> ReqUsed(d)
           /\ ReqOwned(d)' <=> ReqOwned(d)
           /\ RspQueued(d)' <=> RspQueued(d)
           /\ RspSought(d)' <=> RspSought(d)
           /\ RspKept(d)' <=> RspKept(d)
    BY DEF IInv, TypeOK, ReqUsed, ReqOwned, RspQueued, RspSought, RspKept
  <2> QED BY <2>1 DEF IInv, TypeOK, RefsBy, Holds
<1>2. TypeOK'
  BY DEF IInv, TypeOK
<1>3. Tables'
  BY DEF IInv, TypeOK, Tables, InCall, Left
<1>4. CallersInv'
  BY DEF IInv, TypeOK, CallersInv, CallerInv, FlightInv, Flight, Asleep
<1>5. FlightInv'
  BY DEF IInv, TypeOK, FlightInv, Flight, Asleep
<1>6. MsgInv'
  BY DEF IInv, TypeOK, MsgInv, Asleep
<1> QED BY <1>1, <1>2, <1>3, <1>4, <1>5, <1>6 DEF IInv

\* The runtime releases an answered request.
LEMMA HandlerReturnStep == ASSUME IInv, NEW c \in Call, HandlerReturn(c) PROVE IInv'
<1> USE CallAssumption DEF HandlerReturn, At, Jump, Inc, Dec,
        runVars, tableVars, netVars, msgVars, refVars
<1>1. RefsBy'
  <2>1. \A d \in Call :
           /\ ReqUsed(d)' <=> ReqUsed(d) /\ d # c
           /\ ReqOwned(d)' <=> ReqOwned(d)
           /\ RspQueued(d)' <=> RspQueued(d)
           /\ RspSought(d)' <=> RspSought(d)
           /\ RspKept(d)' <=> RspKept(d)
    BY
       DEF IInv, TypeOK, ReqUsed, ReqOwned, RspQueued, RspSought, RspKept, FlightInv, Flight,
           MsgInv
  <2>2. ReqUsed(c)
    BY DEF IInv, TypeOK, ReqUsed
  <2> QED BY <2>1, <2>2 DEF IInv, TypeOK, RefsBy, Holds
<1>2. TypeOK'
  BY DEF IInv, TypeOK, RefsBy, Holds, ReqUsed, ReqOwned, RspQueued, RspSought, RspKept
<1>3. Tables'
  BY DEF IInv, TypeOK, Tables, InCall, Left
<1>4. CallersInv'
  BY DEF IInv, TypeOK, CallersInv, CallerInv
<1>5. FlightInv'
  BY DEF IInv, TypeOK, FlightInv, Flight, Asleep
<1>6. MsgInv'
  BY DEF IInv, TypeOK, MsgInv, Asleep
<1> QED BY <1>1, <1>2, <1>3, <1>4, <1>5, <1>6 DEF IInv

\* The runtime discards a request.
LEMMA DiscardStep == ASSUME IInv, NEW c \in Call, Discard(c) PROVE IInv'
<1> USE CallAssumption DEF Discard, At, Jump, Inc, Dec,
        runVars, tableVars, netVars, msgVars, refVars
<1>1. RefsBy'
  <2>1. \A d \in Call :
           /\ ReqUsed(d)' <=> ReqUsed(d) /\ d # c
           /\ ReqOwned(d)' <=> ReqOwned(d)
           /\ RspQueued(d)' <=> RspQueued(d)
           /\ RspSought(d)' <=> RspSought(d)
           /\ RspKept(d)' <=> RspKept(d)
    <3> SUFFICES ASSUME NEW d \in Call
                 PROVE  /\ ReqUsed(d)' <=> ReqUsed(d) /\ d # c
                        /\ ReqOwned(d)' <=> ReqOwned(d)
                        /\ RspQueued(d)' <=> RspQueued(d)
                        /\ RspSought(d)' <=> RspSought(d)
                        /\ RspKept(d)' <=> RspKept(d)
      OBVIOUS
    <3>1. ReqUsed(d)' <=> ReqUsed(d) /\ d # c
      BY DEF IInv, TypeOK, ReqUsed, FlightInv, Flight, MsgInv
    <3>2. ReqOwned(d)' <=> ReqOwned(d)
      BY DEF IInv, TypeOK, ReqOwned
    <3>3. RspQueued(d)' <=> RspQueued(d)
      BY DEF IInv, TypeOK, RspQueued
    <3>4. (RspSought(d)' <=> RspSought(d)) /\ (RspKept(d)' <=> RspKept(d))
      BY DEF IInv, TypeOK, RspSought, RspKept
    <3> QED BY <3>1, <3>2, <3>3, <3>4
  <2>2. ReqUsed(c)
    BY DEF IInv, TypeOK, ReqUsed
  <2>3. \A d \in Call : /\ req_ref'[d] = req_ref[d] - Holds(d = c)
                        /\ rsp_ref'[d] = rsp_ref[d]
    BY DEF IInv, TypeOK, Holds
  <2>4. \A d \in Call : Holds(ReqUsed(d))' = Holds(ReqUsed(d)) - Holds(d = c)
    BY <2>1, <2>2 DEF Holds
  <2>5. \A d \in Call : Holds(ReqUsed(d)) \in Int /\ Holds(ReqOwned(d)) \in Int
                        /\ Holds(d = c) \in Int
    BY DEF Holds
  <2>6. \A d \in Call : /\ Holds(ReqOwned(d))' = Holds(ReqOwned(d))
                        /\ Holds(RspQueued(d))' = Holds(RspQueued(d))
                        /\ Holds(RspSought(d))' = Holds(RspSought(d))
                        /\ Holds(RspKept(d))' = Holds(RspKept(d))
    BY <2>1 DEF Holds
  <2> HIDE DEF Discard
  <2> QED BY <2>3, <2>4, <2>5, <2>6 DEF IInv, RefsBy
<1>2. TypeOK'
  BY DEF IInv, TypeOK, RefsBy, Holds, ReqUsed, ReqOwned, RspQueued, RspSought, RspKept
<1>3. Tables'
  BY DEF IInv, TypeOK, Tables, InCall, Left
<1>4. CallersInv'
  BY DEF IInv, TypeOK, CallersInv, CallerInv
<1>5. FlightInv'
  BY DEF IInv, TypeOK, FlightInv, Flight, Asleep
<1>6. MsgInv'
  BY DEF IInv, TypeOK, MsgInv, Asleep
<1> QED BY <1>1, <1>2, <1>3, <1>4, <1>5, <1>6 DEF IInv

\* The Message Service takes a response.
LEMMA MsgTakeStep == ASSUME IInv, MsgTake PROVE IInv'
<1> USE CallAssumption DEF MsgTake, AddRef, MsgJump, At, Jump, Inc, Dec,
        runVars, tableVars, netVars, msgVars, refVars
<1>0. /\ Head(inbox) \in Call /\ Head(inbox) \in ToSet(inbox)
      /\ inbox' \in Seq(Call) /\ Distinct(inbox') /\ ToSet(inbox') = ToSet(inbox) \ {Head(inbox)}
  BY TailSet DEF IInv, TypeOK, FlightInv
<1>1. RefsBy'
  <2>1. \A d \in Call :
           /\ ReqUsed(d)' <=> ReqUsed(d)
           /\ ReqOwned(d)' <=> ReqOwned(d)
           /\ RspQueued(d)' <=> RspQueued(d)
           /\ RspSought(d)' <=> d = Head(inbox)
           /\ RspKept(d)' <=> RspKept(d)
    <3> SUFFICES ASSUME NEW d \in Call
                 PROVE  /\ ReqUsed(d)' <=> ReqUsed(d)
                        /\ ReqOwned(d)' <=> ReqOwned(d)
                        /\ RspQueued(d)' <=> RspQueued(d)
                        /\ RspSought(d)' <=> d = Head(inbox)
                        /\ RspKept(d)' <=> RspKept(d)
      OBVIOUS
    <3>1. ReqUsed(d)' <=> ReqUsed(d)
      BY <1>0 DEF IInv, TypeOK, ReqUsed
    <3>2. ReqOwned(d)' <=> ReqOwned(d)
      BY <1>0 DEF IInv, TypeOK, ReqOwned
    <3>3. RspQueued(d)' <=> RspQueued(d)
      BY <1>0 DEF IInv, TypeOK, RspQueued, FlightInv, Flight, MsgInv
    <3>4. RspSought(d)' <=> d = Head(inbox)
      BY <1>0 DEF IInv, TypeOK, RspSought
    <3>5. RspKept(d)' <=> RspKept(d)
      BY <1>0 DEF IInv, TypeOK, RspKept
    <3> QED BY <3>1, <3>2, <3>3, <3>4, <3>5
  <2>2. \A d \in Call : ~RspSought(d)
    BY <1>0 DEF IInv, TypeOK, RspSought
  <2>3. \A d \in Call : /\ req_ref'[d] = req_ref[d]
                        /\ rsp_ref'[d] = rsp_ref[d] + Holds(d = Head(inbox))
    BY <1>0 DEF IInv, TypeOK, Holds
  <2>4. \A d \in Call : /\ Holds(RspSought(d))' = Holds(d = Head(inbox))
                        /\ Holds(RspSought(d)) = 0
                        /\ Holds(ReqUsed(d))' = Holds(ReqUsed(d))
                        /\ Holds(ReqOwned(d))' = Holds(ReqOwned(d))
                        /\ Holds(RspQueued(d))' = Holds(RspQueued(d))
                        /\ Holds(RspKept(d))' = Holds(RspKept(d))
    BY <2>1, <2>2 DEF Holds
  <2>5. \A d \in Call : Holds(RspQueued(d)) \in Int /\ Holds(RspKept(d)) \in Int
                        /\ Holds(d = Head(inbox)) \in Int
    BY DEF Holds
  <2> HIDE DEF MsgTake
  <2> QED BY <2>3, <2>4, <2>5 DEF IInv, RefsBy
<1>2. TypeOK'
  BY <1>0 DEF IInv, TypeOK
<1>3. Tables'
  BY <1>0 DEF IInv, TypeOK, Tables, InCall, Left
<1>4. CallersInv'
  BY <1>0 DEF IInv, TypeOK, CallersInv, CallerInv
<1>5. FlightInv'
  BY <1>0 DEF IInv, TypeOK, FlightInv, Flight, Asleep
<1>6. MsgInv'
  BY <1>0 DEF IInv, TypeOK, MsgInv, Asleep
<1> QED BY <1>1, <1>2, <1>3, <1>4, <1>5, <1>6 DEF IInv

\* It moves the record to the ready table.
LEMMA MsgFindStep == ASSUME IInv, MsgFind PROVE IInv'
<1> USE CallAssumption DEF MsgFind, ErasePending, MsgJump, At, Jump, Inc, Dec,
        runVars, tableVars, netVars, msgVars, refVars
<1>1. RefsBy'
  <2>1. \A d \in Call :
           /\ ReqUsed(d)' <=> ReqUsed(d)
           /\ ReqOwned(d)' <=> ReqOwned(d)
           /\ RspQueued(d)' <=> RspQueued(d)
           /\ RspSought(d)' <=> FALSE
           /\ RspKept(d)' <=> RspKept(d) \/ d = msg_cur
    BY
       DEF IInv, TypeOK, ReqUsed, ReqOwned, RspQueued, RspSought, RspKept, CallersInv,
           CallerInv, FlightInv, Flight, Asleep, MsgInv, Tables, InCall, Left
  <2>2. /\ \A d \in Call : RspSought(d) <=> d = msg_cur
        /\ ~RspKept(msg_cur) /\ msg_cur \in Call
    BY DEF IInv, TypeOK, RspSought, RspKept, FlightInv, Flight, MsgInv
  <2> SUFFICES ASSUME NEW d \in Call
               PROVE  /\ req_ref'[d] = Holds(ReqUsed(d)') + Holds(ReqOwned(d)')
                      /\ rsp_ref'[d] = Holds(RspQueued(d)') + Holds(RspSought(d)')
                                       + Holds(RspKept(d)')
    BY DEF RefsBy, Holds
  <2>3. CASE d = msg_cur
    BY <2>1, <2>2, <2>3 DEF IInv, RefsBy, Holds
  <2>4. CASE d # msg_cur
    BY <2>1, <2>2, <2>4 DEF IInv, RefsBy, Holds
  <2> QED BY <2>3, <2>4
<1>2. TypeOK'
  BY
     DEF IInv, TypeOK, CallersInv, CallerInv, RefsBy, Holds, ReqUsed, ReqOwned, RspQueued,
         RspSought, RspKept, FlightInv, Flight, MsgInv
<1>3. Tables'
  BY DEF IInv, TypeOK, Tables, InCall, Left, FlightInv, Flight, MsgInv
<1>4. CallersInv'
  BY DEF IInv, TypeOK, CallersInv, CallerInv, FlightInv, Flight, Asleep
<1>5. FlightInv'
  BY DEF IInv, TypeOK, FlightInv, Flight, Asleep
<1>6. MsgInv'
  BY DEF IInv, TypeOK, MsgInv, Asleep, FlightInv, Flight
<1> QED BY <1>1, <1>2, <1>3, <1>4, <1>5, <1>6 DEF IInv

\* It resumes the caller.
LEMMA MsgResumeStep == ASSUME IInv, MsgResume PROVE IInv'
<1> USE CallAssumption DEF MsgResume, Resume, MsgJump, Caller, At, Jump, Inc, Dec,
        runVars, tableVars, netVars, msgVars, refVars
<1>1. RefsBy'
  <2>1. \A d \in Call :
           /\ ReqUsed(d)' <=> ReqUsed(d)
           /\ ReqOwned(d)' <=> ReqOwned(d)
           /\ RspQueued(d)' <=> RspQueued(d)
           /\ RspSought(d)' <=> RspSought(d)
           /\ RspKept(d)' <=> RspKept(d)
    BY DEF IInv, TypeOK, ReqUsed, ReqOwned, RspQueued, RspSought, RspKept
  <2> QED BY <2>1 DEF IInv, TypeOK, RefsBy, Holds
<1>2. TypeOK'
  BY DEF IInv, TypeOK
<1>3. Tables'
  BY DEF IInv, TypeOK, Tables, InCall, Left
<1>4. CallersInv'
  BY DEF IInv, TypeOK, CallersInv, CallerInv, MsgInv, Asleep
<1>5. FlightInv'
  BY DEF IInv, TypeOK, FlightInv, Flight, Asleep, MsgInv
<1>6. MsgInv'
  BY DEF IInv, TypeOK, MsgInv, Asleep
<1> QED BY <1>1, <1>2, <1>3, <1>4, <1>5, <1>6 DEF IInv

\* The runtime releases the response.
LEMMA MsgReturnStep == ASSUME IInv, MsgReturn PROVE IInv'
<1> USE CallAssumption DEF MsgReturn, MsgJump, At, Jump, Inc, Dec,
        runVars, tableVars, netVars, msgVars, refVars
<1>1. RefsBy'
  <2>1. \A d \in Call :
           /\ ReqUsed(d)' <=> ReqUsed(d)
           /\ ReqOwned(d)' <=> ReqOwned(d)
           /\ RspQueued(d)' <=> RspQueued(d) /\ d # msg_cur
           /\ RspSought(d)' <=> RspSought(d)
           /\ RspKept(d)' <=> RspKept(d)
    BY
       DEF IInv, TypeOK, ReqUsed, ReqOwned, RspQueued, RspSought, RspKept, FlightInv, Flight,
           MsgInv
  <2>2. RspQueued(msg_cur) /\ msg_cur \in Call
    BY DEF IInv, TypeOK, RspQueued, FlightInv, Flight, MsgInv
  <2> QED BY <2>1, <2>2 DEF IInv, TypeOK, RefsBy, Holds
<1>2. TypeOK'
  BY
     DEF IInv, TypeOK, CallersInv, CallerInv, RefsBy, Holds, ReqUsed, ReqOwned, RspQueued,
         RspSought, RspKept, FlightInv, Flight, MsgInv
<1>3. Tables'
  BY DEF IInv, TypeOK, Tables, InCall, Left
<1>4. CallersInv'
  BY DEF IInv, TypeOK, CallersInv, CallerInv
<1>5. FlightInv'
  BY DEF IInv, TypeOK, FlightInv, Flight, Asleep
<1>6. MsgInv'
  BY DEF IInv, TypeOK, MsgInv, Asleep
<1> QED BY <1>1, <1>2, <1>3, <1>4, <1>5, <1>6 DEF IInv

-----------------------------------------------------------------------------
\* The initial state satisfies the invariant.
LEMMA InitIInv == Init => IInv
<1> SUFFICES ASSUME Init PROVE IInv
  OBVIOUS
<1>1. ToSet(inbox) = {} /\ inbox \in Seq(Call) /\ Distinct(inbox)
  BY DEF Init, ToSet, Distinct
<1>2. TypeOK
  BY <1>1, Zenon DEF Init, TypeOK
<1>3. Tables /\ CallersInv
  BY CallAssumption DEF Init, Tables, InCall, Left, CallersInv, CallerInv
<1>4. FlightInv /\ MsgInv
  BY <1>1 DEF Init, FlightInv, Flight, MsgInv
<1>5. RefsBy
  BY <1>1, CallAssumption
     DEF Init, RefsBy, Holds, ReqUsed, ReqOwned, RspQueued, RspSought, RspKept
<1> QED BY <1>2, <1>3, <1>4, <1>5 DEF IInv

\* Nothing moves when the Message Service or the user exits, or when nothing happens.
LEMMA ExitStep == ASSUME IInv, MsgExit \/ Exit \/ UNCHANGED vars PROVE IInv'
<1> USE DEF MsgExit, MsgJump, Exit, vars, runVars, tableVars, netVars, msgVars, refVars
<1>1. msg_pc' # "find" <=> msg_pc # "find"
  OBVIOUS
<1>2. TypeOK'
  BY DEF IInv, TypeOK
<1>6. Tables'
  BY DEF IInv, Tables, InCall, Left
<1>3. CallersInv' /\ FlightInv' /\ MsgInv'
  BY <1>1 DEF IInv, CallersInv, CallerInv, FlightInv, Flight, Asleep, MsgInv
<1>4. RefsBy'
  BY <1>1 DEF IInv, RefsBy, Holds, ReqUsed, ReqOwned, RspQueued, RspSought, RspKept
<1> QED BY <1>2, <1>3, <1>4, <1>6 DEF IInv

\* Every step of the callers, the receivers and the Message Service keeps the
\* invariant.
LEMMA Step == IInv /\ [Next]_vars => IInv'
<1> SUFFICES ASSUME IInv, [Next]_vars PROVE IInv'
  OBVIOUS
<1>1. ASSUME NEW s \in Service, NEW c \in Call, StartCall(s, c) PROVE IInv'
  BY <1>1, StartCallStep
<1>2. ASSUME NEW s \in Service, CallerStep(s) \/ ServiceExit(s) PROVE IInv'
  BY <1>2, InsertStep, SendReqStep, SendReqFailsStep, SaveErrorStep, WakeUpStep, ReenterStep,
     FinalizeStep, DeserializeStep, ServiceExitStep DEF CallerStep
<1>3. ASSUME NEW c \in Call, ReceiverStep(c) PROVE IInv'
  BY <1>3, RespondStep, RespondRefusedStep, HandlerReturnStep, DiscardStep DEF ReceiverStep
<1>4. CASE MsgStep
  BY <1>4, MsgTakeStep, MsgFindStep, MsgResumeStep, MsgReturnStep DEF MsgStep
<1>5. CASE MsgExit \/ Exit \/ UNCHANGED vars
  BY <1>5, ExitStep
<1> QED BY <1>1, <1>2, <1>3, <1>4, <1>5 DEF Next

-----------------------------------------------------------------------------
\* Callers, records, messages and references fit together in every reachable state
\* of the call (powerpack/message.c and its macro).
THEOREM Invariance == Spec => []IInv
BY InitIInv, Step, PTL DEF Spec

\* A call has one record from its insertion to finalize, in one table, and the
\* response handler finds it pending (the assertion of message.c:141).
THEOREM RecordsAreSound == Spec => []RecordsSound
<1>1. IInv => RecordsSound
  <2> SUFFICES ASSUME IInv PROVE RecordsSound
    OBVIOUS
  <2> DEFINE Open == {cur[s] : s \in {s \in Service : InCall(s) \/ Left(s)}}
  <2>1. \A s \in Service : InCall(s) \/ Left(s) => cur[s] \in Call
    BY DEF IInv, TypeOK, CallersInv, CallerInv, InCall, Left
  <2>2. pend_table \cup ready_table \subseteq Open
    BY DEF IInv, TypeOK, Tables
  <2>3. Open \subseteq pend_table \cup ready_table
    BY <2>1 DEF IInv, Tables
  <2>4. msg_pc = "find" => msg_cur \in pend_table
    BY DEF IInv, FlightInv, Flight
  <2> QED BY <2>2, <2>3, <2>4 DEF IInv, RecordsSound, OneTable, Tables
<1> QED BY <1>1, Invariance, PTL

\* A handler that goes on after its yield finds its own result: nobody resumes it
\* before (eaf_message_internal_response_handler and ..._proxy).
THEOREM ResumesAreDue == Spec => []ResumedWhenReady
<1>1. IInv => ResumedWhenReady
  BY DEF IInv, CallersInv, CallerInv, ResumedWhenReady
<1> QED BY <1>1, Invariance, PTL

\* eaf_resume finds the caller asleep when its response is there, unless EAF exits
\* (the assertion of message.c:155).
THEOREM ResumesAreAccepted == Spec => []ResumeAccepted
<1>1. IInv => ResumeAccepted
  BY CallAssumption
     DEF IInv, TypeOK, MsgInv, Asleep, CallersInv, CallerInv, ResumeAccepted, Caller
<1> QED BY <1>1, Invariance, PTL

\* Requests and responses are released exactly when nobody holds them any more
\* (eaf_msg_add_ref and eaf_msg_dec_ref in the macro, the handlers and the runtime).
THEOREM ReferencesAreExact == Spec => []RefsExact
<1>1. IInv => RefsExact
  BY DEF IInv, RefsBy, RefsExact, ReqUsed, ReqOwned, RspQueued, RspSought, RspKept
<1> QED BY <1>1, Invariance, PTL
==============================================================================
