----------------------------- MODULE TimerProofs -----------------------------
(***************************************************************************)
(* Proofs about the timer service, for every set of records, whichever of  *)
(* the calls fail and whenever the service exits.                          *)
(***************************************************************************)
EXTENDS Timer, QueueLemmas, FiniteSetTheorems

\* The queues as sets.
Idle == ToSet(queue["idle"])
Busy == ToSet(queue["busy"])
Dead == ToSet(queue["dead"])

QueueInv ==
    /\ queue \in [Queue -> Seq(Record)]
    /\ \A q \in Queue : Distinct(queue[q])

InUv(r) == uv = "init" /\ uv_rec = r

\* The places of a record exclude one another, and a record is in one of them
\* exactly when it is allocated.
PlaceInv ==
    /\ Idle \cup Busy \cup Dead \subseteq Record
    /\ Idle \cap Busy = {} /\ Idle \cap Dead = {} /\ Busy \cap Dead = {}
    /\ svc_rec \notin Idle \cup Busy \cup Dead
    /\ uv = "init" => uv_rec \notin Idle \cup Busy \cup Dead
    /\ svc_rec # None => svc_rec # uv_rec
    /\ \A r \in Record :
          alloc[r] = "made" <=> r \in Idle \cup Busy \cup Dead \/ svc_rec = r \/ InUv(r)

\* Who has a record in hand, and which timer is in which queue.
StateInv ==
    /\ svc = "push" <=> svc_rec # None
    /\ uv \in {"init", "start", "failed", "expired"} <=> uv_rec # None
    /\ \A r \in Record :
          /\ r \in Busy <=> timer[r] = "started" \/ (uv = "start" /\ uv_rec = r)
          /\ r \in Dead <=> timer[r] = "closing" \/ (uv = "failed" /\ uv_rec = r)
          /\ timer[r] = "init" <=> uv \in {"start", "failed"} /\ uv_rec = r
          /\ uv = "expired" /\ uv_rec = r => timer[r] = "started"
          /\ timer[r] = "closed" => alloc[r] = "freed"

\* No response is sent for a request until its timer expires, is closed or its record
\* released, and after that there is one unless the service has been told to exit.
AnswerInv ==
    \A r \in Record :
        /\ Len(answers[r]) <= 1
        /\ answers[r] = <<"exiting">> => ~running
        /\ alloc[r] # "freed" /\ timer[r] # "closing" /\ ~(uv = "expired" /\ uv_rec = r)
              => answers[r] = <<>>
        /\ uv = "expired" /\ uv_rec = r => answers[r] # <<>>
        /\ (alloc[r] = "freed" \/ timer[r] = "closing") /\ answers[r] = <<>> => ~looping

\* EAF exits before the service is told to, and the flag is cleared for good before
\* anything is closed.
LoopInv ==
    /\ uv = "close" => ~looping
    /\ looping <=> svc \in {"up", "push"}
    /\ svc \in {"notify", "read", "exited"} => ~running
    /\ svc = "new" =>
          uv \notin {"check", "close"} /\ ~notified /\ \A r \in Record : alloc[r] = "none"

IInv == TypeOK /\ QueueInv /\ PlaceInv /\ StateInv /\ AnswerInv /\ LoopInv

-----------------------------------------------------------------------------
\* What the operations on the queues do to the sets.
LEMMA Appended ==
    ASSUME IInv, NEW q \in Queue, NEW r \in Record, r \notin Idle \cup Busy \cup Dead
    PROVE  /\ Append(queue[q], r) \in Seq(Record) /\ Distinct(Append(queue[q], r))
           /\ ToSet(Append(queue[q], r)) = ToSet(queue[q]) \cup {r}
<1>1. r \notin ToSet(queue[q])
  BY DEF Queue, Idle, Busy, Dead
<1> QED BY <1>1, AppendSet DEF IInv, QueueInv

LEMMA Popped ==
    ASSUME IInv, NEW q \in Queue, queue[q] # <<>>
    PROVE  /\ Head(queue[q]) \in ToSet(queue[q])
           /\ PopFront(q) \in Seq(Record) /\ Distinct(PopFront(q))
           /\ ToSet(PopFront(q)) = ToSet(queue[q]) \ {Head(queue[q])}
BY TailSet DEF IInv, QueueInv, PopFront

LEMMA Erased ==
    ASSUME IInv, NEW q \in Queue, NEW r \in ToSet(queue[q])
    PROVE  /\ Without(q, r) \in Seq(Record) /\ Distinct(Without(q, r))
           /\ ToSet(Without(q, r)) = ToSet(queue[q]) \ {r}
<1> DEFINE k == CHOOSE i \in 1 .. Len(queue[q]) : queue[q][i] = r
<1>1. queue[q] \in Seq(Record) /\ Distinct(queue[q])
  BY DEF IInv, QueueInv
<1>2. \E i \in 1 .. Len(queue[q]) : queue[q][i] = r
  BY <1>1 DEF ToSet
<1>3. k \in 1 .. Len(queue[q]) /\ queue[q][k] = r
  BY <1>2
<1>4. Without(q, r) = RemoveAt(queue[q], k)
  BY DEF Without
<1> HIDE DEF k
<1> QED BY <1>1, <1>3, <1>4, RemoveSet

\* A step between two queues.
LEMMA Moved ==
    ASSUME IInv, NEW r \in Busy, Move(r, "busy", "dead")
    PROVE  /\ QueueInv'
           /\ Idle' = Idle /\ Busy' = Busy \ {r} /\ Dead' = Dead \cup {r}
<1>1. r \in Record /\ r \notin Dead
  BY DEF IInv, PlaceInv
<1>2. "busy" \in Queue /\ "dead" \in Queue /\ "idle" \in Queue
  BY DEF Queue
<1>3. /\ Append(queue["dead"], r) \in Seq(Record) /\ Distinct(Append(queue["dead"], r))
      /\ ToSet(Append(queue["dead"], r)) = Dead \cup {r}
  BY <1>1, <1>2, AppendSet DEF IInv, QueueInv, Dead
<1>4. /\ Without("busy", r) \in Seq(Record) /\ Distinct(Without("busy", r))
      /\ ToSet(Without("busy", r)) = Busy \ {r}
  BY <1>2, Erased DEF Busy
<1>5. queue' = [queue EXCEPT !["busy"] = Without("busy", r), !["dead"] = Append(@, r)]
  BY DEF Move
<1>6. /\ queue'["idle"] = queue["idle"] /\ queue'["busy"] = Without("busy", r)
      /\ queue'["dead"] = Append(queue["dead"], r)
      /\ queue' \in [Queue -> Seq(Record)]
  BY <1>2, <1>3, <1>4, <1>5 DEF IInv, QueueInv
<1>7. QueueInv'
  BY <1>3, <1>4, <1>6 DEF IInv, QueueInv, Queue
<1> QED BY <1>3, <1>4, <1>6, <1>7 DEF Idle, Busy, Dead

\* One queue q gets the contents l.
LEMMA Changed ==
    ASSUME IInv, NEW q \in Queue, NEW l \in Seq(Record), Distinct(l),
           queue' = [queue EXCEPT ![q] = l]
    PROVE  /\ QueueInv'
           /\ Idle' = IF q = "idle" THEN ToSet(l) ELSE Idle
           /\ Busy' = IF q = "busy" THEN ToSet(l) ELSE Busy
           /\ Dead' = IF q = "dead" THEN ToSet(l) ELSE Dead
<1>1. /\ queue' \in [Queue -> Seq(Record)]
      /\ \A p \in Queue : queue'[p] = IF p = q THEN l ELSE queue[p]
  BY DEF IInv, QueueInv
<1>2. QueueInv'
  BY <1>1 DEF IInv, QueueInv
<1> QED BY <1>1, <1>2 DEF Idle, Busy, Dead, Queue

\* Nothing happens to the queues.
LEMMA Kept ==
    ASSUME IInv, UNCHANGED queue
    PROVE  QueueInv' /\ Idle' = Idle /\ Busy' = Busy /\ Dead' = Dead
BY DEF IInv, QueueInv, Idle, Busy, Dead

\* The first response for a request, whatever becomes of it.
LEMMA FirstAnswer ==
    ASSUME IInv, NEW r \in Record, answers[r] = <<>>,
           NEW ret \in {"success", "unknown"}, Answer(r, ret)
    PROVE  /\ answers' \in [Record -> Seq({"success", "unknown", "refused", "exiting"})]
           /\ Len(answers'[r]) <= 1 /\ answers'[r] # <<>>
           /\ answers'[r] = <<"exiting">> => ~running
           /\ \A s \in Record \ {r} : answers'[s] = answers[s]
<1>1. PICK out \in Sent(ret) : answers' = [answers EXCEPT ![r] = Append(@, out)]
  BY DEF Answer
<1>2. /\ out \in {"success", "unknown", "refused", "exiting"}
      /\ out = "exiting" => ~running
  BY <1>1 DEF Sent
<1>3. Append(answers[r], out) = <<out>>
  BY <1>2
<1>4. answers \in [Record -> Seq({"success", "unknown", "refused", "exiting"})]
  BY DEF IInv, TypeOK
<1>5. /\ answers'[r] = <<out>>
      /\ \A s \in Record \ {r} : answers'[s] = answers[s]
  BY <1>1, <1>3, <1>4
<1>6. <<out>> \in Seq({"success", "unknown", "refused", "exiting"})
  BY <1>2
<1>7. answers' \in [Record -> Seq({"success", "unknown", "refused", "exiting"})]
  BY <1>1, <1>3, <1>4, <1>6
<1> QED BY <1>2, <1>5, <1>7

\* The initial state satisfies the invariant.
LEMMA InitIInv == Init => IInv
<1> SUFFICES ASSUME Init PROVE IInv
  OBVIOUS
<1>1. QueueInv /\ Idle = {} /\ Busy = {} /\ Dead = {}
  BY DEF Init, QueueInv, Queue, Idle, Busy, Dead, ToSet, Distinct
<1>2. TypeOK
  <2>1. <<>> \in Seq({"success", "unknown", "refused", "exiting"})
    OBVIOUS
  <2>2. answers \in [Record -> Seq({"success", "unknown", "refused", "exiting"})]
    BY <2>1 DEF Init
  <2> QED BY <1>1, <2>2 DEF Init, TypeOK, QueueInv
<1>3. PlaceInv
  BY <1>1, RecordAssumption DEF Init, PlaceInv, InUv
<1>4. StateInv
  BY <1>1 DEF Init, StateInv
<1>5. AnswerInv /\ LoopInv
  BY DEF Init, AnswerInv, LoopInv
<1> QED BY <1>1, <1>2, <1>3, <1>4, <1>5 DEF IInv

-----------------------------------------------------------------------------
(* One lemma per action. *)

\* EAF exits.
LEMMA EafExitStep ==
    ASSUME IInv, EafExit
    PROVE  IInv'
<1>1. QueueInv' /\ Idle' = Idle /\ Busy' = Busy /\ Dead' = Dead
  BY Kept DEF EafExit
<1>2. TypeOK'
  BY <1>1 DEF IInv, EafExit, TypeOK, QueueInv, svcVars, uvVars
<1>3. PlaceInv'
  BY <1>1, <1>2, RecordAssumption DEF IInv, EafExit, PlaceInv, InUv, svcVars, uvVars
<1>4. StateInv'
  BY <1>1, <1>2 DEF IInv, EafExit, StateInv, svcVars, uvVars
<1>5. AnswerInv'
  BY <1>1, <1>2 DEF IInv, EafExit, AnswerInv, svcVars, uvVars
<1>6. LoopInv'
  BY <1>1, <1>2 DEF IInv, EafExit, LoopInv, svcVars, uvVars
<1> QED BY <1>1, <1>2, <1>3, <1>4, <1>5, <1>6 DEF IInv

\* The service starts.
LEMMA OnInitStep ==
    ASSUME IInv, OnInit
    PROVE  IInv'
<1>1. QueueInv' /\ Idle' = Idle /\ Busy' = Busy /\ Dead' = Dead
  BY Kept DEF OnInit
<1>2. TypeOK'
  BY <1>1 DEF IInv, OnInit, TypeOK, QueueInv, svcVars, uvVars
<1>3. PlaceInv'
  BY <1>1, <1>2, RecordAssumption DEF IInv, OnInit, PlaceInv, InUv, svcVars, uvVars
<1>4. StateInv'
  BY <1>1, <1>2 DEF IInv, OnInit, StateInv, svcVars, uvVars
<1>5. AnswerInv'
  BY <1>1, <1>2 DEF IInv, OnInit, TypeOK, PlaceInv, StateInv, AnswerInv, LoopInv, InUv,
     QueueInv, svcVars, uvVars
<1>6. LoopInv'
  BY <1>1, <1>2 DEF IInv, OnInit, LoopInv, svcVars, uvVars
<1> QED BY <1>1, <1>2, <1>3, <1>4, <1>5, <1>6 DEF IInv

\* A request gets its record.
LEMMA ReqDelayStep ==
    ASSUME IInv, NEW r \in Record, ReqDelay(r)
    PROVE  IInv'
<1>1. QueueInv' /\ Idle' = Idle /\ Busy' = Busy /\ Dead' = Dead
  BY Kept DEF ReqDelay
<1>2. TypeOK'
  BY <1>1 DEF IInv, ReqDelay, TypeOK, QueueInv, svcVars, uvVars
<1>3. PlaceInv'
  BY <1>1, <1>2, RecordAssumption DEF IInv, ReqDelay, TypeOK, PlaceInv, StateInv, AnswerInv,
     LoopInv, InUv, QueueInv, svcVars, uvVars
<1>4. StateInv'
  BY <1>1, <1>2 DEF IInv, ReqDelay, TypeOK, PlaceInv, StateInv, AnswerInv, LoopInv, InUv,
     QueueInv, svcVars, uvVars
<1>5. AnswerInv'
  BY <1>1, <1>2 DEF IInv, ReqDelay, AnswerInv, svcVars, uvVars
<1>6. LoopInv'
  BY <1>1, <1>2 DEF IInv, ReqDelay, LoopInv, svcVars, uvVars
<1> QED BY <1>1, <1>2, <1>3, <1>4, <1>5, <1>6 DEF IInv

\* The record enters the idle queue.
LEMMA PushStep ==
    ASSUME IInv, Push
    PROVE  IInv'
<1>0. svc_rec \in Record /\ svc_rec \notin Idle \cup Busy \cup Dead
  BY DEF IInv, Push, TypeOK, StateInv, PlaceInv
<1>1. QueueInv' /\ Idle' = Idle \cup {svc_rec} /\ Busy' = Busy /\ Dead' = Dead
  <2>1. "idle" \in Queue
    BY DEF Queue
  <2>2. queue' = [queue EXCEPT !["idle"] = Append(queue["idle"], svc_rec)]
    BY DEF Push
  <2>3. /\ Append(queue["idle"], svc_rec) \in Seq(Record)
        /\ Distinct(Append(queue["idle"], svc_rec))
        /\ ToSet(Append(queue["idle"], svc_rec)) = Idle \cup {svc_rec}
    BY <1>0, <2>1, Appended DEF Idle
  <2> QED BY <2>1, <2>2, <2>3, Changed
<1>2. TypeOK'
  BY <1>0, <1>1 DEF IInv, Push, Notify, TypeOK, QueueInv, svcVars, uvVars
<1>3. PlaceInv'
  BY <1>0, <1>1, <1>2, RecordAssumption DEF IInv, Push, Notify, PlaceInv, InUv, svcVars, uvVars
<1>4. StateInv'
  BY <1>0, <1>1, <1>2 DEF IInv, Push, Notify, StateInv, svcVars, uvVars
<1>5. AnswerInv'
  BY <1>0, <1>1, <1>2 DEF IInv, Push, Notify, AnswerInv, svcVars, uvVars
<1>6. LoopInv'
  BY <1>0, <1>1, <1>2 DEF IInv, Push, Notify, LoopInv, svcVars, uvVars
<1> QED BY <1>1, <1>2, <1>3, <1>4, <1>5, <1>6 DEF IInv

\* The request is refused.
LEMMA PushFailsStep ==
    ASSUME IInv, PushFails
    PROVE  IInv'
<1>0. svc_rec \in Record /\ answers[svc_rec] = <<>>
  BY DEF IInv, PushFails, TypeOK, StateInv, PlaceInv, AnswerInv
<1>a. /\ answers' \in [Record -> Seq({"success", "unknown", "refused", "exiting"})]
      /\ Len(answers'[svc_rec]) <= 1 /\ answers'[svc_rec] # <<>>
      /\ answers'[svc_rec] = <<"exiting">> => ~running
      /\ \A s \in Record \ {svc_rec} : answers'[s] = answers[s]
  BY <1>0, FirstAnswer DEF PushFails
<1>1. QueueInv' /\ Idle' = Idle /\ Busy' = Busy /\ Dead' = Dead
  BY Kept DEF PushFails
<1>2. TypeOK'
  BY <1>0, <1>a, <1>1 DEF IInv, PushFails, Free, TypeOK, PlaceInv, StateInv, AnswerInv,
     LoopInv, InUv, QueueInv, svcVars, uvVars
<1>3. PlaceInv'
  BY <1>0, <1>a, <1>1, <1>2, RecordAssumption DEF IInv, PushFails, Free, TypeOK, PlaceInv,
     StateInv, AnswerInv, LoopInv, InUv, QueueInv, svcVars, uvVars
<1>4. StateInv'
  BY <1>0, <1>1, <1>2 DEF IInv, PushFails, Free, StateInv, svcVars, uvVars
<1>5. AnswerInv'
  <2>1. \A s \in Record \ {svc_rec} :
          /\ answers'[s] = answers[s] /\ alloc'[s] = alloc[s] /\ timer'[s] = timer[s]
          /\ uv' = "expired" /\ uv_rec' = s <=> uv = "expired" /\ uv_rec = s
    BY <1>0, <1>a, RecordAssumption DEF IInv, TypeOK, PushFails, Free, uvVars
  <2>2. \/ alloc'[svc_rec] = "freed" \/ timer'[svc_rec] = "closing"
        \/ uv' = "expired" /\ uv_rec' = svc_rec
    BY <1>0 DEF IInv, TypeOK, PushFails, Free, uvVars
  <2>3. UNCHANGED <<running, looping>>
    BY DEF PushFails, Free, uvVars
  <2>4. SUFFICES ASSUME NEW s \in Record
        PROVE  /\ Len(answers'[s]) <= 1
               /\ answers'[s] = <<"exiting">> => ~running'
               /\ alloc'[s] # "freed" /\ timer'[s] # "closing"
                     /\ ~(uv' = "expired" /\ uv_rec' = s) => answers'[s] = <<>>
               /\ uv' = "expired" /\ uv_rec' = s => answers'[s] # <<>>
               /\ (alloc'[s] = "freed" \/ timer'[s] = "closing") /\ answers'[s] = <<>>
                     => ~looping'
    BY DEF AnswerInv
  <2>5. CASE s = svc_rec
    <3>1. /\ Len(answers'[s]) <= 1 /\ answers'[s] # <<>>
          /\ answers'[s] = <<"exiting">> => ~running'
      BY <1>a, <2>3, <2>5, Zenon
    <3>2. \/ alloc'[s] = "freed" \/ timer'[s] = "closing"
          \/ uv' = "expired" /\ uv_rec' = s
      BY <2>2, <2>5
    <3> QED BY <3>1, <3>2
  <2>6. CASE s # svc_rec
    BY <2>1, <2>3, <2>6 DEF IInv, AnswerInv
  <2> QED BY <2>5, <2>6
<1>6. LoopInv'
  BY <1>0, <1>a, <1>1, <1>2 DEF IInv, PushFails, Free, LoopInv, svcVars, uvVars
<1> QED BY <1>1, <1>2, <1>3, <1>4, <1>5, <1>6 DEF IInv

\* The flag is cleared.
LEMMA OnExitStep ==
    ASSUME IInv, OnExit
    PROVE  IInv'
<1>1. QueueInv' /\ Idle' = Idle /\ Busy' = Busy /\ Dead' = Dead
  BY Kept DEF OnExit
<1>2. TypeOK'
  BY <1>1 DEF IInv, OnExit, TypeOK, QueueInv, svcVars, uvVars
<1>3. PlaceInv'
  BY <1>1, <1>2, RecordAssumption DEF IInv, OnExit, PlaceInv, InUv, svcVars, uvVars
<1>4. StateInv'
  BY <1>1, <1>2 DEF IInv, OnExit, StateInv, svcVars, uvVars
<1>5. AnswerInv'
  BY <1>1, <1>2 DEF IInv, OnExit, AnswerInv, svcVars, uvVars
<1>6. LoopInv'
  BY <1>1, <1>2 DEF IInv, OnExit, LoopInv, svcVars, uvVars
<1> QED BY <1>1, <1>2, <1>3, <1>4, <1>5, <1>6 DEF IInv

\* The libuv thread is told.
LEMMA ExitNotifyStep ==
    ASSUME IInv, ExitNotify
    PROVE  IInv'
<1>1. QueueInv' /\ Idle' = Idle /\ Busy' = Busy /\ Dead' = Dead
  BY Kept DEF ExitNotify
<1>2. TypeOK'
  BY <1>1 DEF IInv, ExitNotify, ExitNotice, TypeOK, QueueInv, svcVars, uvVars
<1>3. PlaceInv'
  BY <1>1, <1>2, RecordAssumption DEF IInv, ExitNotify, ExitNotice, PlaceInv, InUv, svcVars,
     uvVars
<1>4. StateInv'
  BY <1>1, <1>2 DEF IInv, ExitNotify, ExitNotice, StateInv, svcVars, uvVars
<1>5. AnswerInv'
  BY <1>1, <1>2 DEF IInv, ExitNotify, ExitNotice, AnswerInv, svcVars, uvVars
<1>6. LoopInv'
  BY <1>1, <1>2 DEF IInv, ExitNotify, ExitNotice, LoopInv, svcVars, uvVars
<1> QED BY <1>1, <1>2, <1>3, <1>4, <1>5, <1>6 DEF IInv

\* The size of a queue is read.
LEMMA ExitReadStep ==
    ASSUME IInv, NEW q \in Queue, ExitRead(q)
    PROVE  IInv'
<1>1. QueueInv' /\ Idle' = Idle /\ Busy' = Busy /\ Dead' = Dead
  BY Kept DEF ExitRead
<1>2. TypeOK'
  BY <1>1 DEF IInv, ExitRead, TypeOK, QueueInv, svcVars, uvVars
<1>3. PlaceInv'
  BY <1>1, <1>2, RecordAssumption DEF IInv, ExitRead, PlaceInv, InUv, svcVars, uvVars
<1>4. StateInv'
  BY <1>1, <1>2 DEF IInv, ExitRead, StateInv, svcVars, uvVars
<1>5. AnswerInv'
  BY <1>1, <1>2 DEF IInv, ExitRead, AnswerInv, svcVars, uvVars
<1>6. LoopInv'
  BY <1>1, <1>2 DEF IInv, ExitRead, LoopInv, svcVars, uvVars
<1> QED BY <1>1, <1>2, <1>3, <1>4, <1>5, <1>6 DEF IInv

\* The sizes are compared.
LEMMA ExitCheckStep ==
    ASSUME IInv, ExitCheck
    PROVE  IInv'
<1>1. QueueInv' /\ Idle' = Idle /\ Busy' = Busy /\ Dead' = Dead
  BY Kept DEF ExitCheck
<1>2. TypeOK'
  BY <1>1 DEF IInv, ExitCheck, TypeOK, QueueInv, svcVars, uvVars
<1>3. PlaceInv'
  BY <1>1, <1>2, RecordAssumption DEF IInv, ExitCheck, PlaceInv, InUv, svcVars, uvVars
<1>4. StateInv'
  BY <1>1, <1>2 DEF IInv, ExitCheck, StateInv, svcVars, uvVars
<1>5. AnswerInv'
  BY <1>1, <1>2 DEF IInv, ExitCheck, AnswerInv, svcVars, uvVars
<1>6. LoopInv'
  BY <1>1, <1>2 DEF IInv, ExitCheck, LoopInv, svcVars, uvVars
<1> QED BY <1>1, <1>2, <1>3, <1>4, <1>5, <1>6 DEF IInv

\* The libuv thread wakes up.
LEMMA UvNotifyStep ==
    ASSUME IInv, UvNotify
    PROVE  IInv'
<1>1. QueueInv' /\ Idle' = Idle /\ Busy' = Busy /\ Dead' = Dead
  BY Kept DEF UvNotify
<1>2. TypeOK'
  BY <1>1 DEF IInv, UvNotify, TypeOK, QueueInv, svcVars, uvVars
<1>3. PlaceInv'
  BY <1>1, <1>2, RecordAssumption DEF IInv, UvNotify, PlaceInv, InUv, svcVars, uvVars
<1>4. StateInv'
  BY <1>1, <1>2 DEF IInv, UvNotify, StateInv, svcVars, uvVars
<1>5. AnswerInv'
  BY <1>1, <1>2 DEF IInv, UvNotify, AnswerInv, svcVars, uvVars
<1>6. LoopInv'
  BY <1>1, <1>2 DEF IInv, UvNotify, LoopInv, svcVars, uvVars
<1> QED BY <1>1, <1>2, <1>3, <1>4, <1>5, <1>6 DEF IInv

\* It looks at the flag.
LEMMA UvCheckStep ==
    ASSUME IInv, UvCheck
    PROVE  IInv'
<1>1. QueueInv' /\ Idle' = Idle /\ Busy' = Busy /\ Dead' = Dead
  BY Kept DEF UvCheck
<1>2. TypeOK'
  BY <1>1 DEF IInv, UvCheck, TypeOK, QueueInv, svcVars, uvVars
<1>3. PlaceInv'
  BY <1>1, <1>2, RecordAssumption DEF IInv, UvCheck, PlaceInv, InUv, svcVars, uvVars
<1>4. StateInv'
  BY <1>1, <1>2 DEF IInv, UvCheck, StateInv, svcVars, uvVars
<1>5. AnswerInv'
  BY <1>1, <1>2 DEF IInv, UvCheck, AnswerInv, svcVars, uvVars
<1>6. LoopInv'
  BY <1>1, <1>2 DEF IInv, UvCheck, LoopInv, svcVars, uvVars
<1> QED BY <1>1, <1>2, <1>3, <1>4, <1>5, <1>6 DEF IInv

\* It takes the oldest idle record.
LEMMA UvPopStep ==
    ASSUME IInv, UvPop
    PROVE  IInv'
<1>0. queue["idle"] # <<>> =>
        /\ Head(queue["idle"]) \in Idle /\ Head(queue["idle"]) \in Record
        /\ QueueInv' /\ Idle' = Idle \ {Head(queue["idle"])} /\ Busy' = Busy /\ Dead' = Dead
  <2>0. SUFFICES ASSUME queue["idle"] # <<>>
        PROVE  /\ Head(queue["idle"]) \in Idle /\ Head(queue["idle"]) \in Record
               /\ QueueInv' /\ Idle' = Idle \ {Head(queue["idle"])} /\ Busy' = Busy /\ Dead' = Dead
    OBVIOUS
  <2>1. "idle" \in Queue
    BY DEF Queue
  <2>2. queue' = [queue EXCEPT !["idle"] = PopFront("idle")]
    BY <2>0 DEF UvPop
  <2>3. /\ Head(queue["idle"]) \in Idle
        /\ PopFront("idle") \in Seq(Record) /\ Distinct(PopFront("idle"))
        /\ ToSet(PopFront("idle")) = Idle \ {Head(queue["idle"])}
    BY <2>0, <2>1, Popped DEF Idle
  <2> QED BY <2>1, <2>2, <2>3, Changed DEF IInv, PlaceInv
<1>1. \/ /\ queue["idle"] = <<>> /\ UNCHANGED <<queue, uv_rec>> /\ uv' = "poll"
         /\ QueueInv' /\ Idle' = Idle /\ Busy' = Busy /\ Dead' = Dead
      \/ /\ queue["idle"] # <<>> /\ uv' = "init" /\ uv_rec' = Head(queue["idle"])
         /\ QueueInv' /\ Idle' = Idle \ {uv_rec'} /\ Busy' = Busy /\ Dead' = Dead
         /\ uv_rec' \in Idle /\ uv_rec' \in Record
  BY <1>0, Kept DEF UvPop
<1>2. TypeOK'
  BY <1>0, <1>1 DEF IInv, UvPop, TypeOK, PlaceInv, StateInv, AnswerInv, LoopInv, InUv,
     QueueInv, svcVars, uvVars
<1>3. PlaceInv'
  BY <1>0, <1>1, <1>2, RecordAssumption DEF IInv, UvPop, PlaceInv, InUv, svcVars, uvVars
<1>4. StateInv'
  BY <1>0, <1>1, <1>2, RecordAssumption DEF IInv, UvPop, TypeOK, PlaceInv, StateInv,
     AnswerInv, LoopInv, InUv, QueueInv, svcVars, uvVars
<1>5. AnswerInv'
  BY <1>0, <1>1, <1>2 DEF IInv, UvPop, AnswerInv, svcVars, uvVars
<1>6. LoopInv'
  BY <1>0, <1>1, <1>2 DEF IInv, UvPop, LoopInv, svcVars, uvVars
<1> QED BY <1>1, <1>2, <1>3, <1>4, <1>5, <1>6 DEF IInv

\* The timer is initialised, the record becomes busy.
LEMMA UvInitStep ==
    ASSUME IInv, UvInit
    PROVE  IInv'
<1>0. uv_rec \in Record /\ uv_rec \notin Idle \cup Busy \cup Dead
  BY DEF IInv, UvInit, TypeOK, StateInv, PlaceInv
<1>1. QueueInv' /\ Idle' = Idle /\ Busy' = Busy \cup {uv_rec} /\ Dead' = Dead
  <2>1. "busy" \in Queue
    BY DEF Queue
  <2>2. queue' = [queue EXCEPT !["busy"] = Append(queue["busy"], uv_rec)]
    BY DEF UvInit
  <2>3. /\ Append(queue["busy"], uv_rec) \in Seq(Record) /\ Distinct(Append(queue["busy"], uv_rec))
        /\ ToSet(Append(queue["busy"], uv_rec)) = Busy \cup {uv_rec}
    BY <1>0, <2>1, Appended DEF Busy
  <2> QED BY <2>1, <2>2, <2>3, Changed
<1>2. TypeOK'
  BY <1>0, <1>1 DEF IInv, UvInit, TypeOK, QueueInv, svcVars, uvVars
<1>3. PlaceInv'
  BY <1>0, <1>1, <1>2, RecordAssumption DEF IInv, UvInit, PlaceInv, InUv, svcVars, uvVars
<1>4. StateInv'
  BY <1>0, <1>1, <1>2 DEF IInv, UvInit, TypeOK, PlaceInv, StateInv, AnswerInv, LoopInv,
     InUv, QueueInv, svcVars, uvVars
<1>5. AnswerInv'
  BY <1>0, <1>1, <1>2 DEF IInv, UvInit, TypeOK, PlaceInv, StateInv, AnswerInv, LoopInv,
     InUv, QueueInv, svcVars, uvVars
<1>6. LoopInv'
  BY <1>0, <1>1, <1>2 DEF IInv, UvInit, LoopInv, svcVars, uvVars
<1> QED BY <1>1, <1>2, <1>3, <1>4, <1>5, <1>6 DEF IInv

\* The timer cannot be initialised.
LEMMA UvInitFailsStep ==
    ASSUME IInv, UvInitFails
    PROVE  IInv'
<1>0. /\ uv_rec \in Record /\ answers[uv_rec] = <<>>
      /\ uv_rec \notin Idle \cup Busy \cup Dead
  BY DEF IInv, UvInitFails, TypeOK, StateInv, PlaceInv, AnswerInv, InUv
<1>a. /\ answers' \in [Record -> Seq({"success", "unknown", "refused", "exiting"})]
      /\ Len(answers'[uv_rec]) <= 1 /\ answers'[uv_rec] # <<>>
      /\ answers'[uv_rec] = <<"exiting">> => ~running
      /\ \A s \in Record \ {uv_rec} : answers'[s] = answers[s]
  BY <1>0, FirstAnswer DEF UvInitFails
<1>1. QueueInv' /\ Idle' = Idle /\ Busy' = Busy /\ Dead' = Dead
  BY Kept DEF UvInitFails
<1>2. TypeOK'
  BY <1>0, <1>a, <1>1 DEF IInv, UvInitFails, Free, AfterFailure, TypeOK, PlaceInv,
     StateInv, AnswerInv, LoopInv, InUv, QueueInv, svcVars, uvVars
<1>3. PlaceInv'
  BY <1>0, <1>a, <1>1, <1>2, RecordAssumption DEF IInv, UvInitFails, Free, AfterFailure,
     TypeOK, PlaceInv, StateInv, AnswerInv, LoopInv, InUv, QueueInv, svcVars, uvVars
<1>4. StateInv'
  BY <1>0, <1>a, <1>1, <1>2 DEF IInv, UvInitFails, Free, AfterFailure, StateInv, svcVars,
     uvVars
<1>5. AnswerInv'
  <2>1. \A s \in Record \ {uv_rec} :
          /\ answers'[s] = answers[s] /\ alloc'[s] = alloc[s] /\ timer'[s] = timer[s]
          /\ uv' = "expired" /\ uv_rec' = s <=> uv = "expired" /\ uv_rec = s
    BY <1>0, <1>a, RecordAssumption DEF IInv, TypeOK, UvInitFails, Free, AfterFailure
  <2>2. \/ alloc'[uv_rec] = "freed" \/ timer'[uv_rec] = "closing"
        \/ uv' = "expired" /\ uv_rec' = uv_rec
    BY <1>0 DEF IInv, TypeOK, UvInitFails, Free, AfterFailure
  <2>3. UNCHANGED <<running, looping>>
    BY DEF UvInitFails, Free, AfterFailure
  <2>4. SUFFICES ASSUME NEW s \in Record
        PROVE  /\ Len(answers'[s]) <= 1
               /\ answers'[s] = <<"exiting">> => ~running'
               /\ alloc'[s] # "freed" /\ timer'[s] # "closing"
                     /\ ~(uv' = "expired" /\ uv_rec' = s) => answers'[s] = <<>>
               /\ uv' = "expired" /\ uv_rec' = s => answers'[s] # <<>>
               /\ (alloc'[s] = "freed" \/ timer'[s] = "closing") /\ answers'[s] = <<>>
                     => ~looping'
    BY DEF AnswerInv
  <2>5. CASE s = uv_rec
    <3>1. /\ Len(answers'[s]) <= 1 /\ answers'[s] # <<>>
          /\ answers'[s] = <<"exiting">> => ~running'
      BY <1>a, <2>3, <2>5, Zenon
    <3>2. \/ alloc'[s] = "freed" \/ timer'[s] = "closing"
          \/ uv' = "expired" /\ uv_rec' = s
      BY <2>2, <2>5
    <3> QED BY <3>1, <3>2
  <2>6. CASE s # uv_rec
    BY <2>1, <2>3, <2>6 DEF IInv, AnswerInv
  <2> QED BY <2>5, <2>6
<1>6. LoopInv'
  BY <1>0, <1>a, <1>1, <1>2 DEF IInv, UvInitFails, Free, AfterFailure, TypeOK, PlaceInv,
     StateInv, AnswerInv, LoopInv, InUv, QueueInv, svcVars, uvVars
<1> QED BY <1>1, <1>2, <1>3, <1>4, <1>5, <1>6 DEF IInv

\* The timer is started.
LEMMA UvStartStep ==
    ASSUME IInv, UvStart
    PROVE  IInv'
<1>0. uv_rec \in Record /\ timer[uv_rec] = "init"
  BY DEF IInv, UvStart, TypeOK, StateInv
<1>1. QueueInv' /\ Idle' = Idle /\ Busy' = Busy /\ Dead' = Dead
  BY Kept DEF UvStart
<1>2. TypeOK'
  BY <1>0, <1>1 DEF IInv, UvStart, TypeOK, QueueInv, svcVars, uvVars
<1>3. PlaceInv'
  BY <1>0, <1>1, <1>2, RecordAssumption DEF IInv, UvStart, PlaceInv, InUv, svcVars, uvVars
<1>4. StateInv'
  BY <1>0, <1>1, <1>2 DEF IInv, UvStart, TypeOK, PlaceInv, StateInv, AnswerInv, LoopInv,
     InUv, QueueInv, svcVars, uvVars
<1>5. AnswerInv'
  BY <1>0, <1>1, <1>2 DEF IInv, UvStart, AnswerInv, svcVars, uvVars
<1>6. LoopInv'
  BY <1>0, <1>1, <1>2 DEF IInv, UvStart, LoopInv, svcVars, uvVars
<1> QED BY <1>1, <1>2, <1>3, <1>4, <1>5, <1>6 DEF IInv

\* The timer cannot be started: the record is dead.
LEMMA UvStartFailsStep ==
    ASSUME IInv, UvStartFails
    PROVE  IInv'
<1>0. /\ uv_rec \in Record /\ uv_rec \in Busy /\ timer[uv_rec] = "init"
      /\ alloc[uv_rec] = "made" /\ answers[uv_rec] = <<>>
  BY DEF IInv, UvStartFails, TypeOK, StateInv, PlaceInv, AnswerInv
<1>1. QueueInv' /\ Idle' = Idle /\ Busy' = Busy \ {uv_rec} /\ Dead' = Dead \cup {uv_rec}
  BY <1>0, Moved DEF UvStartFails
<1>2. TypeOK'
  BY <1>0, <1>1 DEF IInv, UvStartFails, TypeOK, PlaceInv, StateInv, AnswerInv, LoopInv,
     InUv, QueueInv, svcVars, uvVars
<1>3. PlaceInv'
  BY <1>0, <1>1, <1>2, RecordAssumption DEF IInv, UvStartFails, TypeOK, PlaceInv, StateInv, AnswerInv, LoopInv,
     InUv, QueueInv, svcVars, uvVars
<1>4. StateInv'
  BY <1>0, <1>1, <1>2, RecordAssumption DEF IInv, UvStartFails, TypeOK, PlaceInv, StateInv, AnswerInv, LoopInv,
     InUv, QueueInv, svcVars, uvVars
<1>5. AnswerInv'
  BY <1>0, <1>1, <1>2 DEF IInv, UvStartFails, TypeOK, PlaceInv, StateInv, AnswerInv, LoopInv,
     InUv, QueueInv, svcVars, uvVars
<1>6. LoopInv'
  BY <1>0, <1>1, <1>2 DEF IInv, UvStartFails, LoopInv, svcVars, uvVars
<1> QED BY <1>1, <1>2, <1>3, <1>4, <1>5, <1>6 DEF IInv

\* Its request is answered and its handle closed.
LEMMA UvFailedStep ==
    ASSUME IInv, UvFailed
    PROVE  IInv'
<1>0. /\ uv_rec \in Record /\ uv_rec \in Dead /\ timer[uv_rec] = "init"
      /\ alloc[uv_rec] = "made" /\ answers[uv_rec] = <<>>
  BY DEF IInv, UvFailed, TypeOK, StateInv, PlaceInv, AnswerInv
<1>a. /\ answers' \in [Record -> Seq({"success", "unknown", "refused", "exiting"})]
      /\ Len(answers'[uv_rec]) <= 1 /\ answers'[uv_rec] # <<>>
      /\ answers'[uv_rec] = <<"exiting">> => ~running
      /\ \A s \in Record \ {uv_rec} : answers'[s] = answers[s]
  BY <1>0, FirstAnswer DEF UvFailed
<1>1. QueueInv' /\ Idle' = Idle /\ Busy' = Busy /\ Dead' = Dead
  BY Kept DEF UvFailed
<1>2. TypeOK'
  BY <1>0, <1>a, <1>1 DEF IInv, UvFailed, Close, TypeOK, PlaceInv, StateInv, AnswerInv, LoopInv,
     InUv, QueueInv, svcVars, uvVars
<1>3. PlaceInv'
  BY <1>0, <1>a, <1>1, <1>2, RecordAssumption DEF IInv, UvFailed, Close, TypeOK, PlaceInv, StateInv, AnswerInv, LoopInv,
     InUv, QueueInv, svcVars, uvVars
<1>4. StateInv'
  BY <1>0, <1>a, <1>1, <1>2, RecordAssumption DEF IInv, UvFailed, Close, TypeOK, PlaceInv, StateInv, AnswerInv, LoopInv,
     InUv, QueueInv, svcVars, uvVars
<1>5. AnswerInv'
  <2>1. \A s \in Record \ {uv_rec} :
          /\ answers'[s] = answers[s] /\ alloc'[s] = alloc[s] /\ timer'[s] = timer[s]
          /\ uv' = "expired" /\ uv_rec' = s <=> uv = "expired" /\ uv_rec = s
    BY <1>0, <1>a, RecordAssumption DEF IInv, TypeOK, UvFailed, Close
  <2>2. \/ alloc'[uv_rec] = "freed" \/ timer'[uv_rec] = "closing"
        \/ uv' = "expired" /\ uv_rec' = uv_rec
    BY <1>0 DEF IInv, TypeOK, UvFailed, Close
  <2>3. UNCHANGED <<running, looping>>
    BY DEF UvFailed, Close
  <2>4. SUFFICES ASSUME NEW s \in Record
        PROVE  /\ Len(answers'[s]) <= 1
               /\ answers'[s] = <<"exiting">> => ~running'
               /\ alloc'[s] # "freed" /\ timer'[s] # "closing"
                     /\ ~(uv' = "expired" /\ uv_rec' = s) => answers'[s] = <<>>
               /\ uv' = "expired" /\ uv_rec' = s => answers'[s] # <<>>
               /\ (alloc'[s] = "freed" \/ timer'[s] = "closing") /\ answers'[s] = <<>>
                     => ~looping'
    BY DEF AnswerInv
  <2>5. CASE s = uv_rec
    <3>1. /\ Len(answers'[s]) <= 1 /\ answers'[s] # <<>>
          /\ answers'[s] = <<"exiting">> => ~running'
      BY <1>a, <2>3, <2>5, Zenon
    <3>2. \/ alloc'[s] = "freed" \/ timer'[s] = "closing"
          \/ uv' = "expired" /\ uv_rec' = s
      BY <2>2, <2>5
    <3> QED BY <3>1, <3>2
  <2>6. CASE s # uv_rec
    BY <2>1, <2>3, <2>6 DEF IInv, AnswerInv
  <2> QED BY <2>5, <2>6
<1>6. LoopInv'
  BY <1>0, <1>1, <1>2 DEF IInv, UvFailed, Close, LoopInv, svcVars, uvVars
<1> QED BY <1>1, <1>2, <1>3, <1>4, <1>5, <1>6 DEF IInv

\* The timer expires and the request is answered.
LEMMA UvActiveStep ==
    ASSUME IInv, NEW r \in Record, UvActive(r)
    PROVE  IInv'
<1>0. /\ r \in Record /\ r \in Busy /\ uv_rec = None
      /\ alloc[r] = "made" /\ answers[r] = <<>>
  BY RecordAssumption DEF IInv, UvActive, TypeOK, StateInv, PlaceInv, AnswerInv
<1>a. /\ answers' \in [Record -> Seq({"success", "unknown", "refused", "exiting"})]
      /\ Len(answers'[r]) <= 1 /\ answers'[r] # <<>>
      /\ answers'[r] = <<"exiting">> => ~running
      /\ \A s \in Record \ {r} : answers'[s] = answers[s]
  BY <1>0, FirstAnswer DEF UvActive
<1>1. QueueInv' /\ Idle' = Idle /\ Busy' = Busy /\ Dead' = Dead
  BY Kept DEF UvActive
<1>2. TypeOK'
  BY <1>0, <1>a, <1>1 DEF IInv, UvActive, TypeOK, PlaceInv, StateInv, AnswerInv, LoopInv,
     InUv, QueueInv, svcVars, uvVars
<1>3. PlaceInv'
  BY <1>0, <1>a, <1>1, <1>2, RecordAssumption DEF IInv, UvActive, TypeOK, PlaceInv, StateInv, AnswerInv, LoopInv,
     InUv, QueueInv, svcVars, uvVars
<1>4. StateInv'
  BY <1>0, <1>a, <1>1, <1>2, RecordAssumption DEF IInv, UvActive, TypeOK, PlaceInv, StateInv, AnswerInv, LoopInv,
     InUv, QueueInv, svcVars, uvVars
<1>5. AnswerInv'
  <2>1. \A s \in Record \ {r} :
          /\ answers'[s] = answers[s] /\ alloc'[s] = alloc[s] /\ timer'[s] = timer[s]
          /\ uv' = "expired" /\ uv_rec' = s <=> uv = "expired" /\ uv_rec = s
    BY <1>0, <1>a, RecordAssumption DEF IInv, TypeOK, UvActive
  <2>2. \/ alloc'[r] = "freed" \/ timer'[r] = "closing"
        \/ uv' = "expired" /\ uv_rec' = r
    BY <1>0 DEF IInv, TypeOK, UvActive
  <2>3. UNCHANGED <<running, looping>>
    BY DEF UvActive
  <2>4. SUFFICES ASSUME NEW s \in Record
        PROVE  /\ Len(answers'[s]) <= 1
               /\ answers'[s] = <<"exiting">> => ~running'
               /\ alloc'[s] # "freed" /\ timer'[s] # "closing"
                     /\ ~(uv' = "expired" /\ uv_rec' = s) => answers'[s] = <<>>
               /\ uv' = "expired" /\ uv_rec' = s => answers'[s] # <<>>
               /\ (alloc'[s] = "freed" \/ timer'[s] = "closing") /\ answers'[s] = <<>>
                     => ~looping'
    BY DEF AnswerInv
  <2>5. CASE s = r
    <3>1. /\ Len(answers'[s]) <= 1 /\ answers'[s] # <<>>
          /\ answers'[s] = <<"exiting">> => ~running'
      BY <1>a, <2>3, <2>5, Zenon
    <3>2. \/ alloc'[s] = "freed" \/ timer'[s] = "closing"
          \/ uv' = "expired" /\ uv_rec' = s
      BY <2>2, <2>5
    <3> QED BY <3>1, <3>2
  <2>6. CASE s # r
    BY <2>1, <2>3, <2>6 DEF IInv, AnswerInv
  <2> QED BY <2>5, <2>6
<1>6. LoopInv'
  BY <1>0, <1>1, <1>2 DEF IInv, UvActive, LoopInv, svcVars, uvVars
<1> QED BY <1>1, <1>2, <1>3, <1>4, <1>5, <1>6 DEF IInv

\* The expired record is dead.
LEMMA UvExpiredStep ==
    ASSUME IInv, UvExpired
    PROVE  IInv'
<1>0. /\ uv_rec \in Record /\ uv_rec \in Busy /\ timer[uv_rec] = "started"
      /\ alloc[uv_rec] = "made"
  BY DEF IInv, UvExpired, TypeOK, StateInv, PlaceInv
<1>1. QueueInv' /\ Idle' = Idle /\ Busy' = Busy \ {uv_rec} /\ Dead' = Dead \cup {uv_rec}
  BY <1>0, Moved DEF UvExpired
<1>2. TypeOK'
  BY <1>0, <1>1 DEF IInv, UvExpired, Close, TypeOK, PlaceInv, StateInv, AnswerInv, LoopInv,
     InUv, QueueInv, svcVars, uvVars
<1>3. PlaceInv'
  BY <1>0, <1>1, <1>2, RecordAssumption DEF IInv, UvExpired, Close, TypeOK, PlaceInv, StateInv, AnswerInv, LoopInv,
     InUv, QueueInv, svcVars, uvVars
<1>4. StateInv'
  BY <1>0, <1>1, <1>2, RecordAssumption DEF IInv, UvExpired, Close, TypeOK, PlaceInv, StateInv, AnswerInv, LoopInv,
     InUv, QueueInv, svcVars, uvVars
<1>5. AnswerInv'
  BY <1>0, <1>1, <1>2 DEF IInv, UvExpired, Close, TypeOK, PlaceInv, StateInv, AnswerInv, LoopInv,
     InUv, QueueInv, svcVars, uvVars
<1>6. LoopInv'
  BY <1>0, <1>1, <1>2 DEF IInv, UvExpired, Close, LoopInv, svcVars, uvVars
<1> QED BY <1>1, <1>2, <1>3, <1>4, <1>5, <1>6 DEF IInv

\* libuv gives the handle back.
LEMMA UvClosedStep ==
    ASSUME IInv, NEW r \in Record, UvClosed(r)
    PROVE  IInv'
<1>0. r \in Dead
  BY DEF IInv, UvClosed, StateInv
<1>1. QueueInv' /\ Idle' = Idle /\ Busy' = Busy /\ Dead' = Dead \ {r}
  <2>1. "dead" \in Queue
    BY DEF Queue
  <2>2. queue' = [queue EXCEPT !["dead"] = Without("dead", r)]
    BY DEF UvClosed
  <2>3. /\ Without("dead", r) \in Seq(Record) /\ Distinct(Without("dead", r))
        /\ ToSet(Without("dead", r)) = Dead \ {r}
    BY <1>0, <2>1, Erased DEF Dead
  <2> QED BY <2>1, <2>2, <2>3, Changed
<1>2. TypeOK'
  BY <1>0, <1>1 DEF IInv, UvClosed, Free, TypeOK, PlaceInv, StateInv, AnswerInv, LoopInv,
     InUv, QueueInv, svcVars, uvVars
<1>3. PlaceInv'
  BY <1>0, <1>1, <1>2, RecordAssumption DEF IInv, UvClosed, Free, TypeOK, PlaceInv,
     StateInv, AnswerInv, LoopInv, InUv, QueueInv, svcVars, uvVars
<1>4. StateInv'
  BY <1>0, <1>1, <1>2 DEF IInv, UvClosed, Free, TypeOK, PlaceInv, StateInv, AnswerInv,
     LoopInv, InUv, QueueInv, svcVars, uvVars
<1>5. AnswerInv'
  BY <1>0, <1>1, <1>2 DEF IInv, UvClosed, Free, TypeOK, PlaceInv, StateInv, AnswerInv,
     LoopInv, InUv, QueueInv, svcVars, uvVars
<1>6. LoopInv'
  BY <1>0, <1>1, <1>2 DEF IInv, UvClosed, Free, TypeOK, PlaceInv, StateInv, AnswerInv,
     LoopInv, InUv, QueueInv, svcVars, uvVars
<1> QED BY <1>1, <1>2, <1>3, <1>4, <1>5, <1>6 DEF IInv

\* A busy record is closed.
LEMMA UvCloseBusyStep ==
    ASSUME IInv, UvCloseBusy
    PROVE  IInv'
<1> DEFINE r == Head(queue["busy"])
<1>a. r \in Busy
  BY Popped DEF UvCloseBusy, Busy, Queue
<1>b. /\ Move(r, "busy", "dead") /\ Close(r) /\ uv = "close"
      /\ UNCHANGED <<running, looping, svcVars, notified, uvVars, answers, alloc>>
  BY DEF UvCloseBusy
<1> HIDE DEF r
<1>0. /\ r \in Record /\ timer[r] \in {"init", "started"} /\ alloc[r] = "made"
  BY <1>a DEF IInv, StateInv, PlaceInv
<1>1. QueueInv' /\ Idle' = Idle /\ Busy' = Busy \ {r} /\ Dead' = Dead \cup {r}
  BY <1>a, <1>b, Moved
<1>2. TypeOK'
  BY <1>0, <1>a, <1>b, <1>1 DEF IInv, Close, TypeOK, QueueInv, svcVars, uvVars
<1>3. PlaceInv'
  BY <1>0, <1>a, <1>b, <1>1, <1>2, RecordAssumption DEF IInv, Close, PlaceInv, InUv,
     svcVars, uvVars
<1>4. StateInv'
  BY <1>0, <1>a, <1>b, <1>1, <1>2 DEF IInv, Close, TypeOK, PlaceInv, StateInv, AnswerInv,
     LoopInv, InUv, QueueInv, svcVars, uvVars
<1>5. AnswerInv'
  BY <1>0, <1>a, <1>b, <1>1, <1>2 DEF IInv, Close, TypeOK, PlaceInv, StateInv, AnswerInv,
     LoopInv, InUv, QueueInv, svcVars, uvVars
<1>6. LoopInv'
  BY <1>0, <1>a, <1>b, <1>1, <1>2 DEF IInv, Close, LoopInv, svcVars, uvVars
<1> QED BY <1>1, <1>2, <1>3, <1>4, <1>5, <1>6 DEF IInv

\* An idle record is dropped.
LEMMA UvDropIdleStep ==
    ASSUME IInv, UvDropIdle
    PROVE  IInv'
<1>0. queue["idle"] # <<>> =>
        /\ Head(queue["idle"]) \in Idle /\ Head(queue["idle"]) \in Record
        /\ QueueInv' /\ Idle' = Idle \ {Head(queue["idle"])} /\ Busy' = Busy /\ Dead' = Dead
  <2>0. SUFFICES ASSUME queue["idle"] # <<>>
        PROVE  /\ Head(queue["idle"]) \in Idle /\ Head(queue["idle"]) \in Record
               /\ QueueInv' /\ Idle' = Idle \ {Head(queue["idle"])} /\ Busy' = Busy /\ Dead' = Dead
    OBVIOUS
  <2>1. "idle" \in Queue
    BY DEF Queue
  <2>2. queue' = [queue EXCEPT !["idle"] = PopFront("idle")]
    BY <2>0 DEF UvDropIdle
  <2>3. /\ Head(queue["idle"]) \in Idle
        /\ PopFront("idle") \in Seq(Record) /\ Distinct(PopFront("idle"))
        /\ ToSet(PopFront("idle")) = Idle \ {Head(queue["idle"])}
    BY <2>0, <2>1, Popped DEF Idle
  <2> QED BY <2>1, <2>2, <2>3, Changed DEF IInv, PlaceInv
<1>1. \/ /\ uv' = "poll" /\ UNCHANGED alloc
         /\ QueueInv' /\ Idle' = Idle /\ Busy' = Busy /\ Dead' = Dead
      \/ \E r \in Idle : /\ UNCHANGED uv /\ alloc' = [alloc EXCEPT ![r] = "freed"]
            /\ QueueInv' /\ Idle' = Idle \ {r} /\ Busy' = Busy /\ Dead' = Dead
  BY <1>0, Kept DEF UvDropIdle, Free
<1>2. TypeOK'
  BY <1>0, <1>1 DEF IInv, UvDropIdle, Free, TypeOK, PlaceInv, StateInv, AnswerInv, LoopInv,
     InUv, QueueInv, svcVars, uvVars
<1>3. PlaceInv'
  BY <1>0, <1>1, <1>2, RecordAssumption DEF IInv, UvDropIdle, Free, TypeOK, PlaceInv,
     StateInv, AnswerInv, LoopInv, InUv, QueueInv, svcVars, uvVars
<1>4. StateInv'
  BY <1>0, <1>1, <1>2 DEF IInv, UvDropIdle, Free, TypeOK, PlaceInv, StateInv, AnswerInv,
     LoopInv, InUv, QueueInv, svcVars, uvVars
<1>5. AnswerInv'
  BY <1>0, <1>1, <1>2 DEF IInv, UvDropIdle, Free, TypeOK, PlaceInv, StateInv, AnswerInv,
     LoopInv, InUv, QueueInv, svcVars, uvVars
<1>6. LoopInv'
  BY <1>0, <1>1, <1>2 DEF IInv, UvDropIdle, Free, LoopInv, svcVars, uvVars
<1> QED BY <1>1, <1>2, <1>3, <1>4, <1>5, <1>6 DEF IInv

\* The loop is left.
LEMMA UvLoopExitStep ==
    ASSUME IInv, UvLoopExit
    PROVE  IInv'
<1>1. QueueInv' /\ Idle' = Idle /\ Busy' = Busy /\ Dead' = Dead
  BY Kept DEF UvLoopExit
<1>2. TypeOK'
  BY <1>1 DEF IInv, UvLoopExit, TypeOK, QueueInv, svcVars, uvVars
<1>3. PlaceInv'
  BY <1>1, <1>2, RecordAssumption DEF IInv, UvLoopExit, PlaceInv, InUv, svcVars, uvVars
<1>4. StateInv'
  BY <1>1, <1>2 DEF IInv, UvLoopExit, StateInv, svcVars, uvVars
<1>5. AnswerInv'
  BY <1>1, <1>2 DEF IInv, UvLoopExit, AnswerInv, svcVars, uvVars
<1>6. LoopInv'
  BY <1>1, <1>2 DEF IInv, UvLoopExit, LoopInv, svcVars, uvVars
<1> QED BY <1>1, <1>2, <1>3, <1>4, <1>5, <1>6 DEF IInv

-----------------------------------------------------------------------------
\* The invariant is preserved by every step.
LEMMA StepIInv == IInv /\ [Next]_vars => IInv'
<1> SUFFICES ASSUME IInv, [Next]_vars PROVE IInv'
  OBVIOUS
<1>1. CASE UNCHANGED vars
  <2>1. QueueInv' /\ Idle' = Idle /\ Busy' = Busy /\ Dead' = Dead
    BY <1>1, Kept DEF vars
  <2>2. TypeOK'
    BY <1>1, <2>1 DEF IInv, TypeOK, QueueInv, vars, svcVars, uvVars
  <2>3. PlaceInv' /\ StateInv' /\ AnswerInv' /\ LoopInv'
    BY <1>1, <2>1 DEF IInv, PlaceInv, StateInv, AnswerInv, LoopInv, InUv, vars, svcVars, uvVars
  <2> QED BY <2>1, <2>2, <2>3 DEF IInv
<1>2. CASE EafExit \/ OnInit \/ OnExit \/ \E r \in Record : ReqDelay(r)
  BY <1>2, EafExitStep, OnInitStep, OnExitStep, ReqDelayStep
<1>3. CASE ServiceStep
  BY <1>3, PushStep, PushFailsStep, ExitNotifyStep, ExitCheckStep, ExitReadStep DEF ServiceStep
<1>4. CASE UvStep
  BY <1>4, UvNotifyStep, UvCheckStep, UvPopStep, UvInitStep, UvInitFailsStep, UvStartStep,
     UvStartFailsStep, UvFailedStep, UvExpiredStep, UvCloseBusyStep, UvDropIdleStep, UvLoopExitStep, UvClosedStep DEF UvStep
<1>5. CASE \E r \in Record : UvActive(r)
  BY <1>5, UvActiveStep
<1> QED BY <1>1, <1>2, <1>3, <1>4, <1>5 DEF Next

\* The invariant holds in every reachable state.
THEOREM Invariance == Spec => []IInv
BY InitIInv, StepIInv, PTL DEF Spec

\* The places of a record that is in a queue are one place of that queue.
LEMMA QueuePlace ==
    ASSUME IInv, NEW r \in Record, NEW q \in Queue, r \in ToSet(queue[q])
    PROVE  \E x : Places(r) = {x}
<1>1. PICK i \in 1 .. Len(queue[q]) : queue[q][i] = r
  BY DEF IInv, QueueInv, ToSet
<1>2. svc_rec # r /\ ~(uv = "init" /\ uv_rec = r)
  BY DEF IInv, PlaceInv, Queue, Idle, Busy, Dead
<1>3. \A j \in 1 .. Len(queue[q]) : queue[q][j] = r => j = i
  BY <1>1 DEF IInv, QueueInv, Distinct
<1>4. \A p \in Queue \ {q} : \A j \in 1 .. Len(queue[p]) : queue[p][j] # r
  <2>1. \A p \in Queue \ {q} : r \notin ToSet(queue[p])
    BY DEF IInv, PlaceInv, Queue, Idle, Busy, Dead
  <2> QED BY <2>1 DEF IInv, QueueInv, ToSet
<1>5. Places(r) = {<<q, i>>}
  <2> DEFINE at(p) == {p} \X {j \in 1 .. Len(queue[p]) : queue[p][j] = r}
  <2>1. at(q) = {<<q, i>>}
    <3>1. {j \in 1 .. Len(queue[q]) : queue[q][j] = r} = {i}
      BY <1>1, <1>3
    <3> QED BY <3>1
  <2>2. \A p \in Queue \ {q} : at(p) = {}
    <3>1. \A p \in Queue \ {q} : {j \in 1 .. Len(queue[p]) : queue[p][j] = r} = {}
      BY <1>4
    <3> QED BY <3>1
  <2>3. Places(r) = UNION {at(p) : p \in Queue}
    <3>1. /\ {x \in {<<"svc", 0>>} : svc_rec = r} = {}
          /\ {x \in {<<"uv", 0>>} : uv = "init" /\ uv_rec = r} = {}
      BY <1>2
    <3> QED BY <3>1, Zenon DEF Places
  <2> HIDE DEF at
  <2> QED BY <2>1, <2>2, <2>3
<1> QED BY <1>5

\* A record that is in no queue is in the hands of one thread, or nowhere.
LEMMA HandPlace ==
    ASSUME IInv, NEW r \in Record, r \notin Idle \cup Busy \cup Dead
    PROVE  IF alloc[r] = "made" THEN \E x : Places(r) = {x} ELSE Places(r) = {}
<1>1. \A q \in Queue : \A i \in 1 .. Len(queue[q]) : queue[q][i] # r
  <2>1. \A q \in Queue : r \notin ToSet(queue[q])
    BY DEF Queue, Idle, Busy, Dead
  <2> QED BY <2>1 DEF IInv, QueueInv, ToSet
<1>2. Places(r) = {x \in {<<"svc", 0>>} : svc_rec = r}
                     \cup {x \in {<<"uv", 0>>} : uv = "init" /\ uv_rec = r}
  <2> DEFINE at(p) == {p} \X {i \in 1 .. Len(queue[p]) : queue[p][i] = r}
  <2>1. \A p \in Queue : at(p) = {}
    <3>1. \A p \in Queue : {i \in 1 .. Len(queue[p]) : queue[p][i] = r} = {}
      BY <1>1
    <3> QED BY <3>1
  <2>2. UNION {at(p) : p \in Queue} = {}
    <3> HIDE DEF at
    <3>1. \A x : x \notin UNION {at(p) : p \in Queue}
      BY <2>1
    <3> QED BY <3>1
  <2> QED BY <2>2, Zenon DEF Places
<1>3. alloc[r] = "made" <=> svc_rec = r \/ (uv = "init" /\ uv_rec = r)
  BY DEF IInv, PlaceInv, InUv
<1>4. ~(svc_rec = r /\ uv_rec = r)
  BY RecordAssumption DEF IInv, PlaceInv
<1>5. CASE svc_rec = r
  <2>1. Places(r) = {<<"svc", 0>>}
    BY <1>2, <1>4, <1>5
  <2> QED BY <1>3, <1>5, <2>1
<1>6. CASE uv = "init" /\ uv_rec = r
  <2>1. Places(r) = {<<"uv", 0>>}
    BY <1>2, <1>4, <1>6
  <2> QED BY <1>3, <1>6, <2>1
<1>7. CASE ~(svc_rec = r) /\ ~(uv = "init" /\ uv_rec = r)
  BY <1>2, <1>3, <1>7
<1> QED BY <1>5, <1>6, <1>7

\* The invariant says where every record is, and which timers libuv holds.
LEMMA IInvSound == IInv => RecordsSound
<1> SUFFICES ASSUME IInv PROVE RecordsSound
  OBVIOUS
<1>1. ASSUME NEW r \in Record
      PROVE  Cardinality(Places(r)) = IF alloc[r] = "made" THEN 1 ELSE 0
  <2>1. CASE r \in Idle \cup Busy \cup Dead
    <3>1. \E x : Places(r) = {x}
      BY <2>1, QueuePlace DEF Idle, Busy, Dead, Queue
    <3>2. alloc[r] = "made"
      BY <2>1 DEF IInv, PlaceInv
    <3> QED BY <3>1, <3>2, FS_Singleton
  <2>2. CASE r \notin Idle \cup Busy \cup Dead
    <3>1. IF alloc[r] = "made" THEN \E x : Places(r) = {x} ELSE Places(r) = {}
      BY <2>2, HandPlace
    <3> QED BY <3>1, FS_Singleton, FS_EmptySet
  <2> QED BY <2>1, <2>2
<1>2. TimerMatchesQueue
  BY DEF IInv, PlaceInv, StateInv, TimerMatchesQueue, Idle, Busy, Dead
<1> QED BY <1>1, <1>2 DEF IInv, RecordsSound, OnePlace

\* A record is in one place from its allocation to its release, and libuv holds the
\* timers that the queues say, whatever fails and whoever exits.
THEOREM RecordsAreSound == Spec => []RecordsSound
BY Invariance, IInvSound, PTL

\* No request gets a second response; none is sent only if the service has been told to
\* exit, and then EAF exits; and a response that was sent is lost only to an exit or a
\* refusal, whichever call fails and whoever exits.
THEOREM AnswersAreOnce == Spec => []AnsweredOnce
<1>1. ASSUME IInv, NEW r \in Record, alloc[r] = "freed"
      PROVE  /\ answers[r] = <<>> => ~looping
             /\ answers[r] \in {<<>>, <<"exiting">>} => ~running
  <2>1. svc # "new"
    BY <1>1 DEF IInv, LoopInv
  <2>2. ~looping => ~running
    <3>1. ~looping => svc \notin {"up", "push"}
      BY <1>1 DEF IInv, LoopInv
    <3>2. svc \in {"new", "up", "push", "notify", "read", "exited"}
      BY <1>1 DEF IInv, TypeOK
    <3>3. svc \in {"notify", "read", "exited"} => ~running
      BY <1>1 DEF IInv, LoopInv
    <3> QED BY <2>1, <3>1, <3>2, <3>3
  <2> QED BY <1>1, <2>2 DEF IInv, AnswerInv
<1>2. IInv => AnsweredOnce
  BY <1>1 DEF IInv, AnswerInv, AnsweredOnce
<1> QED BY <1>2, Invariance, PTL

==============================================================================
