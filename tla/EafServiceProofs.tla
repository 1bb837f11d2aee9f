-------------------------- MODULE EafServiceProofs --------------------------
(***************************************************************************)
(* Proofs about the service runtime, for every group table, every set of   *)
(* services, clients and requests, and all bounds.                         *)
(*                                                                         *)
(* The first part rests on IInv, which is inductive: the lists, the        *)
(* control state of the threads, the lost wakeup, the exit.  The second    *)
(* part, from StateInv, which is inductive relative to IInv, is about the  *)
(* states of the services: which state a working thread finds its service  *)
(* in, what a state says about the messages of the service, that exits are *)
(* final, and that eaf_load has waited for every service that is           *)
(* initialised eagerly.  The third part, from FlowInv and BoundInv, which  *)
(* are inductive relative to both, is about the messages: an accepted      *)
(* message is in one place, its reference count is the number of those who *)
(* hold it, the queues keep their capacity, and the runtime implements the *)
(* mailbox.                                                                *)
(***************************************************************************)
EXTENDS EafServiceProperties, QueueLemmas, FunctionTheorems, FiniteSetTheorems

-----------------------------------------------------------------------------
\* Lemmas about the lists

\* Erasing an element that occurs once shortens the list by that element and
\* leaves the others distinct.
LEMMA EraseProperties ==
    ASSUME NEW S, NEW l \in Seq(S), NEW s \in ToSet(l),
           \A i, j \in 1 .. Len(l) : l[i] = l[j] => i = j
    PROVE  /\ Erase(l, s) \in Seq(S)
           /\ ToSet(Erase(l, s)) = ToSet(l) \ {s}
           /\ \A i, j \in 1 .. Len(Erase(l, s)) :
                 Erase(l, s)[i] = Erase(l, s)[j] => i = j
<1> DEFINE k == CHOOSE i \in 1 .. Len(l) : l[i] = s
           front == SubSeq(l, 1, k - 1)
           back == SubSeq(l, k + 1, Len(l))
           e == Erase(l, s)
<1>1. k \in 1 .. Len(l) /\ l[k] = s
  BY DEF ToSet
<1>2. /\ front \in Seq(S)
      /\ Len(front) = k - 1
      /\ \A i \in 1 .. k - 1 : front[i] = l[i]
  <2> HIDE DEF k
  <2>1. \A i \in 1 .. k - 1 : l[i] \in S
    BY <1>1
  <2> QED BY <1>1, <2>1, SubSeqProperties
<1>3. /\ back \in Seq(S)
      /\ Len(back) = Len(l) - k
      /\ \A i \in 1 .. Len(l) - k : back[i] = l[k + i]
  <2> HIDE DEF k
  <2>1. \A i \in k + 1 .. Len(l) : l[i] \in S
    BY <1>1
  <2> QED BY <1>1, <2>1, SubSeqProperties
<1>4. e = front \o back
  BY DEF Erase, RemoveAt
<1>5. /\ e \in Seq(S)
      /\ Len(e) = Len(l) - 1
      /\ \A i \in 1 .. Len(l) - 1 : e[i] = IF i < k THEN l[i] ELSE l[i + 1]
  <2> HIDE DEF k, front, back, e
  <2>1. /\ front \o back \in Seq(S)
        /\ Len(front \o back) = Len(front) + Len(back)
        /\ \A i \in 1 .. Len(front) + Len(back) : (front \o back)[i] =
              IF i <= Len(front) THEN front[i] ELSE back[i - Len(front)]
    <3>1. front \in Seq(S) /\ back \in Seq(S)
      BY <1>2, <1>3
    <3> QED BY <3>1, ConcatProperties, Zenon
  <2>2. Len(l) \in Nat
    OBVIOUS
  <2>3. Len(e) = Len(l) - 1
    BY <1>1, <1>2, <1>3, <1>4, <2>1, <2>2
  <2>4. ASSUME NEW i \in 1 .. Len(l) - 1
        PROVE  e[i] = IF i < k THEN l[i] ELSE l[i + 1]
    <3>1. i \in 1 .. Len(front) + Len(back)
      BY <1>1, <1>2, <1>3, <2>2
    <3>2. e[i] = IF i <= Len(front) THEN front[i] ELSE back[i - Len(front)]
      BY <1>4, <2>1, <3>1
    <3>3. CASE i < k
      <4>1. i <= Len(front) /\ i \in 1 .. k - 1
        BY <1>1, <1>2, <2>2, <3>3
      <4> QED BY <1>2, <3>2, <3>3, <4>1
    <3>4. CASE ~(i < k)
      <4>1. ~(i <= Len(front)) /\ i - Len(front) \in 1 .. Len(l) - k
        BY <1>1, <1>2, <2>2, <3>4
      <4>2. k + (i - Len(front)) = i + 1
        BY <1>1, <1>2, <2>2
      <4> QED BY <1>3, <3>2, <3>4, <4>1, <4>2
    <3> QED BY <3>3, <3>4
  <2>5. e \in Seq(S)
    BY <1>4, <2>1
  <2> QED BY <2>3, <2>4, <2>5, Zenon
<1> HIDE DEF k, front, back, e
<1>6. \A i, j \in 1 .. Len(e) : e[i] = e[j] => i = j
  <2> SUFFICES ASSUME NEW i \in 1 .. Len(e), NEW j \in 1 .. Len(e), e[i] = e[j]
               PROVE  i = j
    OBVIOUS
  <2>2. /\ i \in 1 .. Len(l) - 1 /\ j \in 1 .. Len(l) - 1
        /\ i + 1 \in 1 .. Len(l) /\ j + 1 \in 1 .. Len(l)
        /\ i \in 1 .. Len(l) /\ j \in 1 .. Len(l)
    BY <1>5
  <2>3. CASE i < k /\ j < k
    BY <1>5, <2>2, <2>3
  <2>4. CASE i < k /\ ~(j < k)
    <3>1. l[i] = l[j + 1]
      BY <1>5, <2>2, <2>4
    <3> QED BY <1>1, <2>2, <2>4, <3>1
  <2>5. CASE ~(i < k) /\ j < k
    <3>1. l[i + 1] = l[j]
      BY <1>5, <2>2, <2>5
    <3> QED BY <1>1, <2>2, <2>5, <3>1
  <2>6. CASE ~(i < k) /\ ~(j < k)
    <3>1. l[i + 1] = l[j + 1]
      BY <1>5, <2>2, <2>6
    <3> QED BY <2>2, <3>1
  <2> QED BY <2>3, <2>4, <2>5, <2>6
<1>7. ToSet(e) \subseteq ToSet(l) \ {s}
  <2>1. SUFFICES ASSUME NEW i \in 1 .. Len(e)
                 PROVE  e[i] \in ToSet(l) \ {s}
    BY DEF ToSet
  <2>2. i \in 1 .. Len(l) - 1 /\ i \in 1 .. Len(l) /\ i + 1 \in 1 .. Len(l)
    BY <1>5
  <2>3. CASE i < k
    <3>1. e[i] = l[i] /\ l[i] # s
      BY <1>1, <1>5, <2>2, <2>3
    <3> QED BY <2>2, <3>1 DEF ToSet
  <2>4. CASE ~(i < k)
    <3>1. e[i] = l[i + 1] /\ l[i + 1] # s
      BY <1>1, <1>5, <2>2, <2>4
    <3> QED BY <2>2, <3>1 DEF ToSet
  <2> QED BY <2>3, <2>4
<1>8. ToSet(l) \ {s} \subseteq ToSet(e)
  <2>1. SUFFICES ASSUME NEW i \in 1 .. Len(l), l[i] # s
                 PROVE  \E j \in 1 .. Len(e) : e[j] = l[i]
    BY <1>5 DEF ToSet
  <2>2. CASE i < k
    <3>1. i \in 1 .. Len(e) /\ e[i] = l[i]
      BY <1>1, <1>5, <2>2
    <3> QED BY <3>1
  <2>3. CASE i > k
    <3>1. i - 1 \in 1 .. Len(e) /\ e[i - 1] = l[i]
      BY <1>1, <1>5, <2>1, <2>3
    <3> QED BY <3>1
  <2> QED BY <1>1, <2>1, <2>2, <2>3
<1> QED BY <1>5, <1>6, <1>7, <1>8 DEF e

\* Appending an element that is not there yet keeps the elements distinct.
LEMMA AppendElement ==
    ASSUME NEW S, NEW l \in Seq(S), NEW s \in S, s \notin ToSet(l),
           \A i, j \in 1 .. Len(l) : l[i] = l[j] => i = j
    PROVE  /\ Append(l, s) \in Seq(S)
           /\ ToSet(Append(l, s)) = ToSet(l) \cup {s}
           /\ \A i, j \in 1 .. Len(Append(l, s)) :
                 Append(l, s)[i] = Append(l, s)[j] => i = j
<1> DEFINE e == Append(l, s)
<1>1. /\ e \in Seq(S)
      /\ Len(e) = Len(l) + 1
      /\ \A i \in 1 .. Len(l) : e[i] = l[i]
      /\ e[Len(l) + 1] = s
  BY AppendProperties
<1> HIDE DEF e
<1>2. \A i \in 1 .. Len(l) : l[i] # s
  BY DEF ToSet
<1>3. \A i, j \in 1 .. Len(e) : e[i] = e[j] => i = j
  BY <1>1, <1>2
<1>4. ToSet(e) = ToSet(l) \cup {s}
  BY <1>1 DEF ToSet
<1> QED BY <1>1, <1>3, <1>4 DEF e

-----------------------------------------------------------------------------
\* Lemmas about the service table

\* A service is in the table of exactly one group.
LEMMA TableProperties ==
    /\ \A s \in Service : GroupOf(s) \in Group
    /\ \A g \in Group : \A i \in 1 .. Len(Table[g]) :
          Table[g][i] \in Service /\ GroupOf(Table[g][i]) = g
<1>1. \A g \in Group : Table[g] \in Seq(Service)
  BY TableAssumption
<1>2. \A g \in Group : \A i \in 1 .. Len(Table[g]) : Table[g][i] \in Service
  BY <1>1
<1>3. ASSUME NEW s \in Service
      PROVE  /\ GroupOf(s) \in Group
             /\ \E i \in 1 .. Len(Table[GroupOf(s)]) : Table[GroupOf(s)][i] = s
  BY TableAssumption DEF GroupOf
<1>4. ASSUME NEW g \in Group, NEW i \in 1 .. Len(Table[g])
      PROVE  GroupOf(Table[g][i]) = g
  <2> DEFINE s == Table[g][i]
             h == GroupOf(s)
  <2>1. s \in Service
    BY <1>2
  <2>2. h \in Group /\ \E j \in 1 .. Len(Table[h]) : Table[h][j] = s
    BY <1>3, <2>1
  <2> HIDE DEF h
  <2> QED BY <2>2, TableAssumption DEF h
<1> QED BY <1>2, <1>3, <1>4

-----------------------------------------------------------------------------
\* _eaf_service_set_state_nolock keeps lists and states in agreement.

LEMMA StatesDisjoint == WaitState \cap BusyState = {}
BY DEF WaitState, BusyState

LEMMA SetStateLists ==
    ASSUME ListTypeOK, \A g \in Group : GroupLists(g),
           NEW s \in Service, NEW new \in WaitState \cup BusyState,
           SetState(s, new)
    PROVE  /\ ListTypeOK'
           /\ \A g \in Group : GroupLists(g)'
           /\ \A g \in Group : g # GroupOf(s) => busy_list'[g] = busy_list[g]
           /\ \A x \in Service : state'[x] = IF x = s THEN new ELSE state[x]
<1> DEFINE h == GroupOf(s)
           old == busy_list[h]
           rest == IF state[s] \in BusyState THEN Erase(old, s) ELSE old
<1>1. h \in Group /\ old \in Seq(Service) /\ GroupLists(h)
  BY TableProperties DEF ListTypeOK
<1>2. state' = [state EXCEPT ![s] = new]
  BY DEF SetState
<1>3. \A x \in Service : state'[x] = IF x = s THEN new ELSE state[x]
  BY <1>2 DEF ListTypeOK
<1>4. /\ rest \in Seq(Service)
      /\ ToSet(rest) = ToSet(old) \ {s}
      /\ \A i, j \in 1 .. Len(rest) : rest[i] = rest[j] => i = j
  <2>1. CASE state[s] \in BusyState
    <3>1. s \in ToSet(old)
      BY <1>1, <2>1 DEF GroupLists
    <3>2. \A i, j \in 1 .. Len(old) : old[i] = old[j] => i = j
      BY <1>1 DEF GroupLists
    <3> HIDE DEF old
    <3> QED BY <1>1, <2>1, <3>1, <3>2, EraseProperties
  <2>2. CASE state[s] \notin BusyState
    <3>1. s \notin ToSet(old)
      BY <1>1, <2>2 DEF GroupLists
    <3> QED BY <1>1, <2>2, <3>1 DEF GroupLists
  <2> QED BY <2>1, <2>2
<1>5. /\ busy_list'[h] \in Seq(Service)
      /\ ToSet(busy_list'[h]) = (ToSet(old) \ {s}) \cup (IF new \in BusyState THEN {s} ELSE {})
      /\ \A i, j \in 1 .. Len(busy_list'[h]) :
            busy_list'[h][i] = busy_list'[h][j] => i = j
  <2>1. busy_list'[h] = IF new \in BusyState THEN Append(rest, s) ELSE rest
    BY <1>1 DEF SetState, ListTypeOK
  <2> HIDE DEF rest, old, h
  <2>2. CASE new \in BusyState
    BY <1>4, <2>1, <2>2, AppendElement
  <2>3. CASE new \notin BusyState
    BY <1>4, <2>1, <2>3
  <2> QED BY <2>2, <2>3
<1>6. busy_list' = [busy_list EXCEPT ![h] = busy_list'[h]]
  BY <1>1 DEF SetState, ListTypeOK
<1>7. wait_list' = [wait_list EXCEPT ![h] = IF new \in WaitState THEN wait_list[h] \cup {s}
                                            ELSE wait_list[h] \ {s}]
  BY DEF SetState
<1>8. ListTypeOK'
  <2>1. state' \in [Service -> WaitState \cup BusyState]
    BY <1>2 DEF ListTypeOK
  <2>2. busy_list' \in [Group -> Seq(Service)]
    BY <1>1, <1>5, <1>6 DEF ListTypeOK
  <2>3. wait_list' \in [Group -> SUBSET Service]
    BY <1>1, <1>7 DEF ListTypeOK
  <2> QED BY <2>1, <2>2, <2>3 DEF ListTypeOK
<1>9. \A g \in Group : g # h => busy_list'[g] = busy_list[g] /\ wait_list'[g] = wait_list[g]
  BY <1>1, <1>6, <1>7 DEF ListTypeOK
<1>10. ASSUME NEW g \in Group
       PROVE  GroupLists(g)'
  <2>1. CASE g # h
    <3>1. busy_list'[g] = busy_list[g] /\ wait_list'[g] = wait_list[g] /\ GroupLists(g)
      BY <1>9, <2>1
    <3>2. \A x \in Service : GroupOf(x) = g => state'[x] = state[x]
      BY <1>3, <2>1
    <3> QED BY <3>1, <3>2 DEF GroupLists
  <2>2. CASE g = h
    <3>1. ToSet(busy_list'[h]) = {x \in Service : GroupOf(x) = h /\ state'[x] \in BusyState}
      BY <1>1, <1>3, <1>5 DEF GroupLists
    <3>2. wait_list'[h] = {x \in Service : GroupOf(x) = h /\ state'[x] \in WaitState}
      BY <1>1, <1>3, <1>7 DEF GroupLists, ListTypeOK
    <3> QED BY <2>2, <3>1, <3>2, <1>5 DEF GroupLists
  <2> QED BY <2>1, <2>2
<1> QED BY <1>3, <1>8, <1>9, <1>10

-----------------------------------------------------------------------------
\* The inductive invariant holds initially.

LEMMA InitIInv == Init => IInv
<1> SUFFICES ASSUME Init PROVE IInv
  OBVIOUS
<1>1. TypeOK
  <2>1. CtxTypeOK /\ ListTypeOK
    BY GroupAssumption DEF Init, CtxTypeOK, ListTypeOK, CtxState, MainPc, WaitState
  <2>2. MsgqTypeOK /\ CtlTypeOK
    BY DEF Init, MsgqTypeOK, CtlTypeOK, Pc, Phase
  <2>3. CallTypeOK /\ MsgTypeOK
    BY GroupAssumption DEF Init, CallTypeOK, MsgTypeOK, CallPc, Fate, Group
  <2> QED BY <2>1, <2>2, <2>3 DEF TypeOK
<1>2. ListsAgree /\ ThreadInv /\ CallInv /\ MainInv
  BY DEF Init, ListsAgree, ThreadInv, CallInv, MainInv
<1> QED BY <1>1, <1>2 DEF IInv

-----------------------------------------------------------------------------
\* Two lemmas for the steps that leave a part of the invariant alone.

\* The lists stay in agreement when no service moves, and when one moves.
LEMMA ListsKept ==
    ASSUME IInv, UNCHANGED listVars, main_pc # "new" \/ main_pc' = "new"
    PROVE  ListTypeOK' /\ ListsAgree'
BY DEF IInv, TypeOK, ListTypeOK, ListsAgree, GroupLists, listVars

LEMMA ListsMoved ==
    ASSUME IInv, main_pc # "new", NEW s \in Service,
           NEW new \in WaitState \cup BusyState, SetState(s, new)
    PROVE  ListTypeOK' /\ ListsAgree'
<1>1. ListTypeOK /\ \A g \in Group : GroupLists(g)
  BY DEF IInv, TypeOK, ListsAgree
<1>2. ListTypeOK' /\ \A g \in Group : GroupLists(g)'
  BY <1>1, SetStateLists
<1> QED BY <1>2 DEF ListsAgree

\* A working thread that is past its start loop has been let go by eaf_load.
LEMMA PastStart ==
    ASSUME IInv, NEW g \in Group, pc[g] \notin {"none", "start", "startpend", "end"}
    PROVE  main_pc \notin {"new", "boot", "fix"}
BY DEF IInv, MainInv

\* The table entry that the index of a working thread denotes.
LEMMA TableEntry ==
    ASSUME NEW g \in Group, NEW i \in Nat, i >= 1, i <= Len(Table[g])
    PROVE  Table[g][i] \in Service /\ GroupOf(Table[g][i]) = g
<1>1. Table[g] \in Seq(Service)
  BY TableAssumption
<1>2. i \in 1 .. Len(Table[g])
  BY <1>1
<1> QED BY <1>2, TableProperties

-----------------------------------------------------------------------------
\* What the actions of a working thread find in their variables.
LEMMA GroupFacts ==
    ASSUME IInv, NEW g \in Group
    PROVE  /\ Len(Table[g]) \in Nat
           /\ (\/ pc[g] \in {"init", "teardown"} /\ idx[g] <= Len(Table[g])
               \/ pc[g] = "groupexit" /\ idx[g] > 0
               \/ pc[g] \in {"onexit", "drain", "drop"})
                => Table[g][idx[g]] \in Service /\ GroupOf(Table[g][idx[g]]) = g
           /\ pc[g] = "pick" /\ busy_list[g] # <<>>
                => Head(busy_list[g]) \in Service /\ GroupOf(Head(busy_list[g])) = g
<1>1. Len(Table[g]) \in Nat
  <2>1. Table[g] \in Seq(Service)
    BY TableAssumption
  <2> QED BY <2>1
<1>2. ASSUME \/ pc[g] \in {"init", "teardown"} /\ idx[g] <= Len(Table[g])
             \/ pc[g] = "groupexit" /\ idx[g] > 0
             \/ pc[g] \in {"onexit", "drain", "drop"}
      PROVE  Table[g][idx[g]] \in Service /\ GroupOf(Table[g][idx[g]]) = g
  <2>1. idx[g] \in Nat /\ idx[g] >= 1 /\ idx[g] <= Len(Table[g])
    BY <1>2 DEF IInv, TypeOK, CtlTypeOK, ThreadInv
  <2> QED BY <1>2, <2>1, TableEntry
<1>3. ASSUME pc[g] = "pick", busy_list[g] # <<>>
      PROVE  Head(busy_list[g]) \in Service /\ GroupOf(Head(busy_list[g])) = g
  <2>1. main_pc # "new"
    BY <1>3, PastStart
  <2>2. /\ busy_list[g] \in Seq(Service)
        /\ ToSet(busy_list[g]) \subseteq {s \in Service : GroupOf(s) = g}
    BY <2>1 DEF IInv, TypeOK, ListTypeOK, ListsAgree, GroupLists
  <2>3. Head(busy_list[g]) \in ToSet(busy_list[g])
    BY <1>3, <2>2 DEF ToSet
  <2> QED BY <2>2, <2>3
<1> QED BY <1>1, <1>2, <1>3

-----------------------------------------------------------------------------
\* A step of a working thread keeps its own control state in order.

LEMMA GroupCtlType ==
    ASSUME IInv, NEW g \in Group, GroupStep(g)
    PROVE  CtlTypeOK'
<1> USE DEF Jump, At
<1>1. CtlTypeOK
  BY DEF IInv, TypeOK
<1>2. /\ Len(Table[g]) \in Nat
      /\ (pc[g] = "init" /\ idx[g] <= Len(Table[g])) \/ (pc[g] = "groupexit" /\ idx[g] > 0)
           => Table[g][idx[g]] \in Service
      /\ pc[g] = "pick" /\ busy_list[g] # <<>> => Head(busy_list[g]) \in Service
  BY GroupFacts
<1>3. {"loop", "groupexit", "pick", "ifteardown", "teardown"} \subseteq Pc
  BY DEF Pc
<1>4. {"exit", "drain", "teardown", "busy"} \subseteq Phase
  BY DEF Phase
<1>5. CASE WaitStart(g)
  BY <1>1, <1>5 DEF WaitStart, CtlTypeOK, Pc
<1>6. CASE Pend(g)
  BY <1>1, <1>6 DEF Pend, CtlTypeOK, Pc
<1>7. CASE InitNext(g)
  BY <1>1, <1>2, <1>7 DEF InitNext, CtlTypeOK, Pc
<1>8. CASE InitDone(g)
  BY <1>1, <1>8 DEF InitDone, CtlTypeOK, Pc
<1>9. CASE OnInitReturn(g)
  <2>1. CASE phase[g] = "init"
    <3>1. /\ pc' = [pc EXCEPT ![g] = "init"]
          /\ idx' = [idx EXCEPT ![g] = idx[g] + 1]
          /\ init_count' = [init_count EXCEPT ![g] = init_count[g] + 1]
          /\ UNCHANGED <<phase, cur_run>>
      BY <1>9, <2>1 DEF OnInitReturn
    <3> QED BY <1>1, <1>2, <3>1 DEF CtlTypeOK, Pc
  <2>2. CASE phase[g] # "init"
    BY <1>1, <1>2, <1>3, <1>4, <1>9, <2>2 DEF OnInitReturn, CtlTypeOK, Pc
  <2> QED BY <2>1, <2>2
<1>10. CASE PostReady(g)
  BY <1>1, <1>4, <1>10 DEF PostReady, CtlTypeOK, Pc
<1>11. CASE LoopCheck(g)
  <2>1. PICK l \in {"pick", "ifteardown", "groupexit"}, p \in {phase[g], "exit"},
             i \in {idx[g], Len(Table[g])} :
           /\ pc' = [pc EXCEPT ![g] = l]
           /\ phase' = [phase EXCEPT ![g] = p]
           /\ idx' = [idx EXCEPT ![g] = i]
           /\ UNCHANGED <<cur_run, init_count>>
    <3>1. UNCHANGED <<cur_run, init_count>>
      BY <1>11 DEF LoopCheck
    <3>2. CASE phase[g] # ctx_state /\ phase[g] # "busy"
      <4>1. /\ pc' = [pc EXCEPT ![g] = "groupexit"]
            /\ phase' = [phase EXCEPT ![g] = "exit"]
            /\ idx' = [idx EXCEPT ![g] = Len(Table[g])]
        BY <1>11, <3>2 DEF LoopCheck
      <4> QED BY <3>1, <4>1
    <3>3. CASE phase[g] = ctx_state \/ phase[g] = "busy"
      <4>1. /\ pc' = [pc EXCEPT ![g] = IF phase[g] = ctx_state THEN "pick" ELSE "ifteardown"]
            /\ phase' = phase /\ idx' = idx
        BY <1>11, <3>3 DEF LoopCheck
      <4>2. phase' = [phase EXCEPT ![g] = phase[g]] /\ idx' = [idx EXCEPT ![g] = idx[g]]
        BY <1>1, <4>1 DEF CtlTypeOK
      <4> QED BY <3>1, <4>1, <4>2
    <3> QED BY <3>2, <3>3
  <2>2. l \in Pc /\ p \in Phase /\ i \in Nat
    BY <1>1, <1>2, <1>3, <1>4, <2>1 DEF CtlTypeOK
  <2> QED BY <1>1, <2>1, <2>2 DEF CtlTypeOK
<1>12. CASE IfTeardown(g)
  <2>1. CASE ctx_state = "teardown"
    <3>1. /\ pc' = [pc EXCEPT ![g] = "teardown"]
          /\ phase' = [phase EXCEPT ![g] = "drain"]
          /\ idx' = [idx EXCEPT ![g] = 1]
          /\ UNCHANGED <<cur_run, init_count>>
      BY <1>12, <2>1 DEF IfTeardown
    <3> QED BY <1>1, <1>3, <1>4, <3>1 DEF CtlTypeOK
  <2>2. CASE ctx_state # "teardown"
    BY <1>1, <1>2, <1>3, <1>4, <1>12, <2>2 DEF IfTeardown, CtlTypeOK
  <2> QED BY <2>1, <2>2
<1>13. CASE Pick(g)
  BY <1>1, <1>2, <1>13 DEF Pick, CtlTypeOK, Pc
<1>14. CASE TryPend(g)
  BY <1>1, <1>14 DEF TryPend, CtlTypeOK, Pc
<1>15. CASE DispatchInit(g)
  BY <1>1, <1>15 DEF DispatchInit, CtlTypeOK, Pc
<1>16. CASE Dispatch(g)
  BY <1>1, <1>16 DEF Dispatch, CtlTypeOK, Pc
<1>17. CASE HandleBefore(g)
  BY <1>1, <1>17 DEF HandleBefore, CtlTypeOK, Pc
<1>18. CASE HandlerReturn(g)
  BY <1>1, <1>18 DEF HandlerReturn, CtlTypeOK, Pc
<1>19. CASE HandlerYield(g)
  BY <1>1, <1>19 DEF HandlerYield, CtlTypeOK, Pc
<1>20. CASE YieldHookReturn(g)
  BY <1>1, <1>20 DEF YieldHookReturn, CtlTypeOK, Pc
<1>21. CASE TeardownNext(g)
  <2>1. CASE Table[g][idx[g]] \in Alive \/ Table[g][idx[g]] \notin entry
    BY <1>1, <1>2, <1>3, <1>4, <1>21, <2>1 DEF TeardownNext, CtlTypeOK, Pc
  <2>2. CASE ~(Table[g][idx[g]] \in Alive \/ Table[g][idx[g]] \notin entry)
    BY <1>1, <1>2, <1>3, <1>4, <1>21, <2>2 DEF TeardownNext, CtlTypeOK, Pc
  <2> QED BY <2>1, <2>2
<1>22. CASE TeardownDone(g)
  BY <1>1, <1>4, <1>22 DEF TeardownDone, CtlTypeOK, Pc
<1>23. CASE GroupExitNext(g)
  <2>1. CASE Exited(Table[g][idx[g]]) \/ Table[g][idx[g]] \notin entry
    <3>1. idx[g] - 1 \in Nat
      BY <1>1, <1>23 DEF GroupExitNext, CtlTypeOK
    <3>2. idx' = [idx EXCEPT ![g] = idx[g] - 1] /\ UNCHANGED <<pc, phase, cur_run, init_count>>
      BY <1>23, <2>1 DEF GroupExitNext
    <3> QED BY <1>1, <3>1, <3>2 DEF CtlTypeOK
  <2>2. CASE ~(Exited(Table[g][idx[g]]) \/ Table[g][idx[g]] \notin entry)
    <3>1. /\ pc' = [pc EXCEPT ![g] = "onexit"]
          /\ cur_run' = [cur_run EXCEPT ![g] = Table[g][idx[g]]]
          /\ UNCHANGED <<phase, idx, init_count>>
      BY <1>23, <2>2 DEF GroupExitNext
    <3>2. Table[g][idx[g]] \in Service
      BY <1>2, <1>23 DEF GroupExitNext
    <3> QED BY <1>1, <3>1, <3>2 DEF CtlTypeOK, Pc
  <2> QED BY <2>1, <2>2
<1>24. CASE GroupExitDone(g)
  BY <1>1, <1>24 DEF GroupExitDone, CtlTypeOK, Pc
<1>25. CASE OnExitReturn(g)
  <2>1. UNCHANGED <<phase, cur_run, init_count>>
    BY <1>25 DEF OnExitReturn
  <2>2. CASE phase[g] = "drain"
    <3>1. pc' = [pc EXCEPT ![g] = "drain"] /\ UNCHANGED idx
      BY <1>25, <2>2 DEF OnExitReturn
    <3> QED BY <1>1, <2>1, <3>1 DEF CtlTypeOK, Pc
  <2>3. CASE phase[g] # "drain"
    <3>1. pc[g] = "onexit" /\ pc' = [pc EXCEPT ![g] = "groupexit"]
          /\ idx' = [idx EXCEPT ![g] = idx[g] - 1]
      BY <1>25, <2>3 DEF OnExitReturn
    <3>2. idx[g] \in Nat /\ idx[g] >= 1
      BY <1>1, <3>1 DEF IInv, CtlTypeOK, ThreadInv
    <3>3. idx[g] - 1 \in Nat
      BY <3>2
    <3> QED BY <1>1, <1>3, <2>1, <3>1, <3>3 DEF CtlTypeOK
  <2> QED BY <2>2, <2>3
<1>26. CASE DrainNext(g)
  BY <1>1, <1>26 DEF DrainNext, CtlTypeOK, Pc
<1>27. CASE Drop(g)
  BY <1>1, <1>27 DEF Drop, CtlTypeOK, Pc
<1>28. CASE DrainDone(g)
  BY <1>1, <1>28 DEF DrainDone, CtlTypeOK, Pc
<1> QED BY <1>5, <1>6, <1>7, <1>8, <1>9, <1>10, <1>11, <1>12, <1>13, <1>14, <1>15, <1>16, <1>17, <1>18, <1>19, <1>20, <1>21, <1>22, <1>23, <1>24, <1>25, <1>26, <1>27, <1>28 DEF GroupStep

LEMMA GroupThread ==
    ASSUME IInv, NEW g \in Group, GroupStep(g)
    PROVE  ThreadInv'
<1> USE DEF Jump, At
<1>1. CtlTypeOK /\ ThreadInv
  BY DEF IInv, TypeOK
<1>2. /\ Len(Table[g]) \in Nat
      /\ (pc[g] = "init" /\ idx[g] <= Len(Table[g])) \/ (pc[g] = "groupexit" /\ idx[g] > 0)
           => Table[g][idx[g]] \in Service /\ GroupOf(Table[g][idx[g]]) = g
      /\ pc[g] = "pick" /\ busy_list[g] # <<>>
           => Head(busy_list[g]) \in Service /\ GroupOf(Head(busy_list[g])) = g
  BY GroupFacts
<1>3. CASE WaitStart(g)
  BY <1>1, <1>3 DEF WaitStart, CtlTypeOK, ThreadInv
<1>4. CASE Pend(g)
  BY <1>1, <1>4 DEF Pend, CtlTypeOK, ThreadInv
<1>5. CASE InitNext(g)
  BY <1>1, <1>2, <1>5 DEF InitNext, CtlTypeOK, ThreadInv
<1>6. CASE InitDone(g)
  BY <1>1, <1>6 DEF InitDone, CtlTypeOK, ThreadInv
<1>7. CASE OnInitReturn(g)
  <2>1. CASE phase[g] = "init"
    <3>1. /\ pc' = [pc EXCEPT ![g] = "init"]
          /\ idx' = [idx EXCEPT ![g] = idx[g] + 1]
          /\ init_count' = [init_count EXCEPT ![g] = init_count[g] + 1]
          /\ UNCHANGED <<phase, cur_run>>
      BY <1>7, <2>1 DEF OnInitReturn
    <3> QED BY <1>1, <1>2, <3>1 DEF CtlTypeOK, ThreadInv
  <2>2. CASE phase[g] # "init"
    BY <1>1, <1>2, <1>7, <2>2 DEF OnInitReturn, CtlTypeOK, ThreadInv
  <2> QED BY <2>1, <2>2
<1>8. CASE PostReady(g)
  BY <1>1, <1>8 DEF PostReady, CtlTypeOK, ThreadInv
<1>9. CASE LoopCheck(g)
  <2>1. CASE ctx_state = phase[g]
    BY <1>1, <1>2, <1>9, <2>1 DEF LoopCheck, CtlTypeOK, ThreadInv
  <2>2. CASE ctx_state # phase[g] /\ phase[g] = "busy"
    BY <1>1, <1>2, <1>9, <2>2 DEF LoopCheck, CtlTypeOK, ThreadInv
  <2>3. CASE ctx_state # phase[g] /\ phase[g] # "busy"
    BY <1>1, <1>2, <1>9, <2>3 DEF LoopCheck, CtlTypeOK, ThreadInv
  <2> QED BY <2>1, <2>2, <2>3
<1>10. CASE IfTeardown(g)
  <2>1. CASE ctx_state = "teardown"
    BY <1>1, <1>2, <1>10, <2>1 DEF IfTeardown, CtlTypeOK, ThreadInv
  <2>2. CASE ctx_state # "teardown"
    BY <1>1, <1>2, <1>10, <2>2 DEF IfTeardown, CtlTypeOK, ThreadInv
  <2> QED BY <2>1, <2>2
<1>11. CASE Pick(g)
  BY <1>1, <1>2, <1>11 DEF Pick, CtlTypeOK, ThreadInv
<1>12. CASE TryPend(g)
  BY <1>1, <1>12 DEF TryPend, CtlTypeOK, ThreadInv
<1>13. CASE DispatchInit(g)
  BY <1>1, <1>13 DEF DispatchInit, CtlTypeOK, ThreadInv
<1>14. CASE Dispatch(g)
  BY <1>1, <1>14 DEF Dispatch, CtlTypeOK, ThreadInv
<1>15. CASE HandleBefore(g)
  BY <1>1, <1>15 DEF HandleBefore, CtlTypeOK, ThreadInv
<1>16. CASE HandlerReturn(g)
  BY <1>1, <1>16 DEF HandlerReturn, CtlTypeOK, ThreadInv
<1>17. CASE HandlerYield(g)
  BY <1>1, <1>17 DEF HandlerYield, CtlTypeOK, ThreadInv
<1>18. CASE YieldHookReturn(g)
  BY <1>1, <1>18 DEF YieldHookReturn, CtlTypeOK, ThreadInv
<1>19. CASE TeardownNext(g)
  <2>1. CASE Table[g][idx[g]] \in Alive \/ Table[g][idx[g]] \notin entry
    <3>1. /\ pc[g] = "teardown" /\ UNCHANGED <<pc, cur_run>>
          /\ idx' = [idx EXCEPT ![g] = idx[g] + 1]
      BY <1>19, <2>1 DEF TeardownNext
    <3> QED BY <1>1, <1>2, <3>1 DEF CtlTypeOK, ThreadInv
  <2>2. CASE ~(Table[g][idx[g]] \in Alive \/ Table[g][idx[g]] \notin entry)
    BY <1>1, <1>2, <1>19, <2>2 DEF TeardownNext, CtlTypeOK, ThreadInv
  <2> QED BY <2>1, <2>2
<1>20. CASE TeardownDone(g)
  BY <1>1, <1>20 DEF TeardownDone, CtlTypeOK, ThreadInv
<1>21. CASE GroupExitNext(g)
  <2>1. CASE Exited(Table[g][idx[g]]) \/ Table[g][idx[g]] \notin entry
    <3>1. /\ pc[g] = "groupexit" /\ idx' = [idx EXCEPT ![g] = idx[g] - 1]
          /\ UNCHANGED <<pc, cur_run>>
      BY <1>21, <2>1 DEF GroupExitNext
    <3> QED BY <1>1, <1>2, <3>1 DEF CtlTypeOK, ThreadInv
  <2>2. CASE ~(Exited(Table[g][idx[g]]) \/ Table[g][idx[g]] \notin entry)
    BY <1>1, <1>2, <1>21, <2>2 DEF GroupExitNext, CtlTypeOK, ThreadInv
  <2> QED BY <2>1, <2>2
<1>22. CASE GroupExitDone(g)
  BY <1>1, <1>22 DEF GroupExitDone, CtlTypeOK, ThreadInv
<1>23. CASE OnExitReturn(g)
  <2>1. pc[g] = "onexit" /\ UNCHANGED cur_run
    BY <1>23 DEF OnExitReturn
  <2>2. CASE phase[g] = "drain"
    <3>1. pc' = [pc EXCEPT ![g] = "drain"] /\ UNCHANGED idx
      BY <1>23, <2>2 DEF OnExitReturn
    <3> QED BY <1>1, <2>1, <3>1 DEF CtlTypeOK, ThreadInv
  <2>3. CASE phase[g] # "drain"
    <3>1. pc' = [pc EXCEPT ![g] = "groupexit"] /\ idx' = [idx EXCEPT ![g] = idx[g] - 1]
      BY <1>23, <2>3 DEF OnExitReturn
    <3>2. idx[g] \in Nat /\ idx[g] <= Len(Table[g])
      BY <1>1, <2>1 DEF CtlTypeOK, ThreadInv
    <3>3. pc'[g] = "groupexit" /\ idx'[g] = idx[g] - 1 /\ idx'[g] <= Len(Table[g])
      BY <1>1, <1>2, <3>1, <3>2 DEF CtlTypeOK
    <3>4. \A h \in Group : h # g => pc'[h] = pc[h] /\ idx'[h] = idx[h]
      BY <1>1, <3>1 DEF CtlTypeOK
    <3> QED BY <1>1, <2>1, <3>3, <3>4, Zenon DEF ThreadInv
  <2> QED BY <2>2, <2>3
<1>24. CASE DrainNext(g)
  BY <1>1, <1>24 DEF DrainNext, CtlTypeOK, ThreadInv
<1>25. CASE Drop(g)
  BY <1>1, <1>25 DEF Drop, CtlTypeOK, ThreadInv
<1>26. CASE DrainDone(g)
  BY <1>1, <1>26 DEF DrainDone, CtlTypeOK, ThreadInv
<1> QED BY <1>3, <1>4, <1>5, <1>6, <1>7, <1>8, <1>9, <1>10, <1>11, <1>12, <1>13, <1>14, <1>15, <1>16, <1>17, <1>18, <1>19, <1>20, <1>21, <1>22, <1>23, <1>24, <1>25, <1>26 DEF GroupStep

-----------------------------------------------------------------------------
\* A step of a working thread keeps the lists in agreement with the states.

LEMMA GroupStepLists ==
    ASSUME IInv, NEW g \in Group, GroupStep(g)
    PROVE  ListTypeOK' /\ ListsAgree'
<1> USE DEF Jump, At
<1>1. CtlTypeOK /\ ThreadInv
  BY DEF IInv, TypeOK
<1>2. ASSUME NEW s \in Service, NEW new \in WaitState \cup BusyState,
             pc[g] \in {"oninit", "dispatch", "run", "teardown", "groupexit",
                        "onexit", "drain"},
             SetState(s, new)
      PROVE  ListTypeOK' /\ ListsAgree'
  BY <1>2, PastStart, ListsMoved
<1>3. ASSUME UNCHANGED listVars, UNCHANGED main_pc
      PROVE  ListTypeOK' /\ ListsAgree'
  BY <1>3, ListsKept
<1>4. {"idle", "busy", "yield", "exit0", "exit1"} \subseteq WaitState \cup BusyState
  BY DEF WaitState, BusyState
<1>5. /\ (pc[g] = "teardown" /\ idx[g] <= Len(Table[g])) \/ (pc[g] = "groupexit" /\ idx[g] > 0)
         \/ pc[g] \in {"onexit", "drain"}
            => Table[g][idx[g]] \in Service
      /\ pc[g] \in {"oninit", "dispatch", "run"} => cur_run[g] \in Service
  BY <1>1, GroupFacts DEF ThreadInv
<1>6. CASE \/ WaitStart(g) \/ Pend(g) \/ InitNext(g) \/ InitDone(g)
           \/ PostReady(g) \/ LoopCheck(g) \/ IfTeardown(g) \/ Pick(g)
           \/ TryPend(g) \/ DispatchInit(g) \/ HandleBefore(g)
           \/ HandlerReturn(g) \/ YieldHookReturn(g)
           \/ TeardownDone(g) \/ GroupExitDone(g) \/ DrainNext(g)
           \/ Drop(g)
  BY <1>3, <1>6
     DEF WaitStart, Pend, InitNext, InitDone, PostReady, LoopCheck, IfTeardown, Pick, TryPend,
         DispatchInit, HandleBefore, HandlerReturn, YieldHookReturn, TeardownDone, GroupExitDone, DrainNext, Drop,
         restCtl, ctxVars
<1>7. CASE OnInitReturn(g)
  <2>1. Initialised(cur_run[g]) \in WaitState \cup BusyState
    BY <1>4 DEF Initialised
  <2>2. pc[g] = "oninit" /\ SetState(cur_run[g], Initialised(cur_run[g]))
    BY <1>7 DEF OnInitReturn
  <2> QED BY <1>2, <1>5, <2>1, <2>2
<1>8. CASE Dispatch(g)
  <2>1. CASE ~Suspended(cur_run[g]) /\ queue[cur_run[g]] = <<>>
    <3>1. pc[g] = "dispatch" /\ SetState(cur_run[g], "idle")
      BY <1>8, <2>1 DEF Dispatch
    <3> QED BY <1>2, <1>4, <1>5, <3>1
  <2>2. CASE ~(~Suspended(cur_run[g]) /\ queue[cur_run[g]] = <<>>)
    BY <1>3, <1>8, <2>2 DEF Dispatch, ctxVars
  <2> QED BY <2>1, <2>2
<1>9. CASE HandlerYield(g)
  <2>1. pc[g] = "run" /\ SetState(cur_run[g], "yield")
    BY <1>9 DEF HandlerYield
  <2> QED BY <1>2, <1>4, <1>5, <2>1
<1>10. CASE TeardownNext(g)
  <2>1. CASE Table[g][idx[g]] \in Alive \/ Table[g][idx[g]] \notin entry
    BY <1>3, <1>10, <2>1 DEF TeardownNext, ctxVars
  <2>2. CASE ~(Table[g][idx[g]] \in Alive \/ Table[g][idx[g]] \notin entry)
    <3>1. /\ pc[g] = "teardown" /\ idx[g] <= Len(Table[g])
          /\ SetState(Table[g][idx[g]], "exit0")
      BY <1>10, <2>2 DEF TeardownNext
    <3> QED BY <1>2, <1>4, <1>5, <3>1
  <2> QED BY <2>1, <2>2
<1>11. CASE GroupExitNext(g)
  <2>1. CASE Exited(Table[g][idx[g]]) \/ Table[g][idx[g]] \notin entry
    BY <1>3, <1>11, <2>1 DEF GroupExitNext, ctxVars
  <2>2. CASE ~(Exited(Table[g][idx[g]]) \/ Table[g][idx[g]] \notin entry)
    <3>1. /\ pc[g] = "groupexit" /\ idx[g] > 0
          /\ SetState(Table[g][idx[g]], "exit0")
      BY <1>11, <2>2 DEF GroupExitNext
    <3> QED BY <1>2, <1>4, <1>5, <3>1
  <2> QED BY <2>1, <2>2
<1>12. CASE OnExitReturn(g)
  <2>1. CASE phase[g] = "drain"
    BY <1>3, <1>12, <2>1 DEF OnExitReturn, ctxVars
  <2>2. CASE phase[g] # "drain"
    <3>1. pc[g] = "onexit" /\ SetState(Table[g][idx[g]], "exit1")
      BY <1>12, <2>2 DEF OnExitReturn
    <3> QED BY <1>2, <1>4, <1>5, <3>1
  <2> QED BY <2>1, <2>2
<1>13. CASE DrainDone(g)
  <2>1. pc[g] = "drain" /\ SetState(Table[g][idx[g]], "exit1")
    BY <1>13 DEF DrainDone
  <2> QED BY <1>2, <1>4, <1>5, <2>1
<1> QED BY <1>6, <1>7, <1>8, <1>9, <1>10, <1>11, <1>12, <1>13 DEF GroupStep

-----------------------------------------------------------------------------
\* A step of a working thread keeps messages, calls and context in order.

LEMMA GroupStepMessages ==
    ASSUME IInv, NEW g \in Group, GroupStep(g)
    PROVE  MsgqTypeOK' /\ MsgTypeOK' /\ CallTypeOK' /\ CallInv'
<1> USE DEF Jump, At
<1>1. MsgqTypeOK /\ MsgTypeOK /\ CallTypeOK /\ CallInv
  BY DEF IInv, TypeOK
<1>2. ASSUME UNCHANGED callVars
      PROVE  CallTypeOK' /\ CallInv'
  BY <1>1, <1>2 DEF callVars, CallTypeOK, CallInv
<1>3. ASSUME UNCHANGED <<msgqVars, sem>>
      PROVE  MsgqTypeOK'
  BY <1>1, <1>3 DEF msgqVars, MsgqTypeOK
<1>4. ASSUME UNCHANGED <<msgVars, budgetVars>>
      PROVE  MsgTypeOK'
  BY <1>1, <1>4 DEF msgVars, budgetVars, MsgTypeOK
<1>5. ASSUME NEW s, NEW f \in Fate, Reset(s, f), UNCHANGED <<queue, sem, budgetVars>>
      PROVE  MsgqTypeOK' /\ MsgTypeOK'
  <2> DEFINE m == cur_msg[s]
  <2>1. /\ cur_msg' = [cur_msg EXCEPT ![s] = NoMsg] /\ UNCHANGED <<queue, sem, budgetVars>>
        /\ refcnt' = [refcnt EXCEPT ![m] = refcnt[m] - 1]
        /\ fate' = [fate EXCEPT ![m] = f]
    BY <1>5 DEF Reset
  <2>2. MsgqTypeOK'
    BY <1>1, <2>1 DEF MsgqTypeOK
  <2> HIDE DEF m
  <2>3. m \in Msg => refcnt[m] - 1 \in Int
    BY <1>1 DEF MsgTypeOK
  <2>4. refcnt' \in [Msg -> Int] /\ fate' \in [Msg -> Fate]
    BY <1>1, <2>1, <2>3 DEF MsgTypeOK
  <2> QED BY <1>1, <2>1, <2>2, <2>4 DEF MsgTypeOK, budgetVars
<1>6. CASE \/ WaitStart(g) \/ InitNext(g) \/ InitDone(g)
           \/ OnInitReturn(g) \/ PostReady(g) \/ LoopCheck(g)
           \/ IfTeardown(g) \/ Pick(g) \/ DispatchInit(g)
           \/ YieldHookReturn(g) \/ TeardownNext(g) \/ TeardownDone(g)
           \/ GroupExitNext(g) \/ GroupExitDone(g) \/ OnExitReturn(g)
           \/ DrainDone(g)
  BY <1>2, <1>3, <1>4, <1>6
     DEF WaitStart, InitNext, InitDone, OnInitReturn, PostReady, LoopCheck, IfTeardown, Pick,
         DispatchInit, YieldHookReturn, TeardownNext, TeardownDone, GroupExitNext, GroupExitDone, OnExitReturn, DrainDone,
         restCtl
<1>7. CASE Pend(g) \/ TryPend(g)
  <2>1. MsgqTypeOK'
    BY <1>1, <1>7 DEF Pend, TryPend, MsgqTypeOK, msgqVars
  <2> QED BY <1>2, <1>4, <1>7, <2>1 DEF Pend, TryPend
<1>8. CASE Dispatch(g)
  <2>1. MsgqTypeOK'
    <3> DEFINE s == cur_run[g]
    <3>1. CASE Suspended(s) \/ queue[s] = <<>>
      BY <1>3, <1>8, <3>1 DEF Dispatch
    <3>2. CASE ~(Suspended(s) \/ queue[s] = <<>>)
      <4>1. s \in Service
        BY <1>8 DEF Dispatch, IInv, ThreadInv
      <4>2. queue[s] \in Seq(Msg) /\ queue[s] # <<>>
        BY <1>1, <3>2, <4>1 DEF MsgqTypeOK
      <4>3. Head(queue[s]) \in Msg /\ PopFront(s) \in Seq(Msg)
        BY <4>2 DEF PopFront
      <4>4. /\ cur_msg' = [cur_msg EXCEPT ![s] = Head(queue[s])]
            /\ queue' = [queue EXCEPT ![s] = PopFront(s)]
            /\ UNCHANGED sem
        BY <1>8, <3>2 DEF Dispatch
      <4> QED BY <1>1, <4>3, <4>4 DEF MsgqTypeOK
    <3> QED BY <3>1, <3>2
  <2> QED BY <1>2, <1>4, <1>8, <2>1 DEF Dispatch
<1>9. CASE HandleBefore(g)
  <2>1. CASE cur_msg[cur_run[g]] \in HandleVeto
    BY <1>2, <1>5, <1>9, <2>1 DEF HandleBefore, Fate
  <2>2. CASE cur_msg[cur_run[g]] \notin HandleVeto
    BY <1>2, <1>3, <1>4, <1>9, <2>2 DEF HandleBefore, msgqVars
  <2> QED BY <2>1, <2>2
<1>10. CASE HandlerReturn(g)
  BY <1>2, <1>5, <1>10 DEF HandlerReturn, Fate
<1>11. CASE HandlerYield(g)
  <2>1. MsgTypeOK'
    BY <1>1, <1>11 DEF HandlerYield, MsgTypeOK, msgVars
  <2> QED BY <1>2, <1>3, <1>11, <2>1 DEF HandlerYield
<1>12. CASE DrainNext(g)
  <2> DEFINE s == Table[g][idx[g]]
             m == IF cur_msg[s] # NoMsg THEN cur_msg[s] ELSE Head(queue[s])
  <2>1. s \in Service
    BY <1>12, GroupFacts DEF DrainNext
  <2>2. m \in Msg /\ (cur_msg[s] = NoMsg => PopFront(s) \in Seq(Msg))
    <3>1. cur_msg[s] # NoMsg \/ queue[s] # <<>>
      BY <1>12 DEF DrainNext
    <3>2. queue[s] \in Seq(Msg) /\ cur_msg[s] \in Msg \cup {NoMsg}
      BY <1>1, <2>1 DEF MsgqTypeOK
    <3> QED BY <3>1, <3>2 DEF PopFront
  <2>3. MsgqTypeOK'
    <3>1. /\ cur_msg' = [cur_msg EXCEPT ![s] = m]
          /\ queue' = IF cur_msg[s] # NoMsg THEN queue
                      ELSE [queue EXCEPT ![s] = PopFront(s)]
          /\ UNCHANGED sem
      BY <1>12 DEF DrainNext
    <3> HIDE DEF s, m
    <3> QED BY <1>1, <2>1, <2>2, <3>1 DEF MsgqTypeOK
  <2>4. CASE m.kind = "req"
    <3>1. StartSend(g, Dflt(m.id)) /\ UNCHANGED budgetVars
      BY <1>12, <2>4 DEF DrainNext
    <3>2. Dflt(m.id) \in Msg
      BY <2>2 DEF Msg, Dflt
    <3>3. g \in Thread
      BY DEF Thread
    <3>4. MsgTypeOK'
      <4> DEFINE d == Dflt(m.id)
      <4>1. /\ refcnt' = [refcnt EXCEPT ![d] = 1]
            /\ fate' = [fate EXCEPT ![d] = "sending"]
            /\ UNCHANGED budgetVars
        BY <3>1 DEF StartSend
      <4>2. d \in Msg
        BY <3>2
      <4> HIDE DEF d, m, s
      <4>3. refcnt' \in [Msg -> Int] /\ fate' \in [Msg -> Fate]
        <5>1. "sending" \in Fate
          BY DEF Fate
        <5>2. refcnt \in [Msg -> Int] /\ fate \in [Msg -> Fate]
          BY <1>1 DEF MsgTypeOK
        <5> QED BY <4>1, <4>2, <5>1, <5>2
      <4> QED BY <1>1, <4>1, <4>3 DEF MsgTypeOK, budgetVars
    <3>5. CallTypeOK' /\ CallInv'
      <4> DEFINE d == Dflt(m.id)
      <4>1. /\ call' = [call EXCEPT ![g] = "check"]
            /\ call_msg' = [call_msg EXCEPT ![g] = d]
            /\ UNCHANGED <<call_srv, call_grp>>
        BY <3>1 DEF StartSend
      <4>2. d \in Msg
        BY <3>2
      <4> HIDE DEF d, m, s
      <4>3. CallTypeOK'
        BY <1>1, <3>3, <4>1, <4>2 DEF CallTypeOK, CallPc
      <4>4. CallInv'
        BY <1>1, <3>3, <4>1, <4>2 DEF CallTypeOK, CallInv
      <4> QED BY <4>3, <4>4
    <3> QED BY <2>3, <3>4, <3>5
  <2>5. CASE m.kind # "req"
    <3>1. UNCHANGED <<callVars, msgVars, budgetVars>>
      BY <1>12, <2>5 DEF DrainNext
    <3> QED BY <1>2, <1>4, <2>3, <3>1
  <2> QED BY <2>4, <2>5
<1>13. CASE Drop(g)
  BY <1>2, <1>5, <1>13 DEF Drop, Fate
<1> QED BY <1>6, <1>7, <1>8, <1>9, <1>10, <1>11, <1>12, <1>13 DEF GroupStep

LEMMA GroupStepContext ==
    ASSUME IInv, NEW g \in Group, GroupStep(g)
    PROVE  CtxTypeOK' /\ MainInv'
<1> USE DEF Jump, At
<1>1. CtxTypeOK /\ MainInv /\ CtlTypeOK
  BY DEF IInv, TypeOK
<1>2. UNCHANGED <<ctx_state, main_pc, main_grp, main_srv, entry>> /\ ready' \in Nat
  BY <1>1 DEF GroupStep, CtxTypeOK, restCtl, ctxVars, WaitStart, Pend, InitNext, InitDone, OnInitReturn, PostReady,
              LoopCheck, IfTeardown, Pick, TryPend, DispatchInit, Dispatch,
              HandleBefore, HandlerReturn, HandlerYield, YieldHookReturn, TeardownNext, TeardownDone,
              GroupExitNext, GroupExitDone, OnExitReturn, DrainNext, Drop, DrainDone
<1>3. CtxTypeOK'
  BY <1>1, <1>2 DEF CtxTypeOK
<1>4. CASE pc[g] \notin {"none", "start", "startpend", "end"}
  <2>1. main_pc \notin {"new", "boot", "fix"}
    BY <1>4, PastStart
  <2> QED BY <1>1, <1>2, <1>3, <2>1 DEF MainInv
<1>5. CASE pc[g] \in {"none", "start", "startpend", "end"}
  <2>1. WaitStart(g) \/ Pend(g)
    BY <1>5 DEF GroupStep, WaitStart, Pend, InitNext, InitDone, OnInitReturn, PostReady,
              LoopCheck, IfTeardown, Pick, TryPend, DispatchInit, Dispatch,
              HandleBefore, HandlerReturn, HandlerYield, YieldHookReturn, TeardownNext, TeardownDone,
              GroupExitNext, GroupExitDone, OnExitReturn, DrainNext, Drop, DrainDone
  <2>2. /\ pc' = [pc EXCEPT ![g] = pc'[g]]
        /\ pc[g] # "none"
        /\ main_pc \in {"boot", "fix"} => pc'[g] \in {"start", "startpend", "end"}
    BY <1>1, <1>5, <2>1 DEF WaitStart, Pend, CtlTypeOK, MainInv
  <2>3. \A h \in Group : h # g => pc'[h] = pc[h]
    BY <1>1, <2>2 DEF CtlTypeOK
  <2>4. main_pc # "new"
    BY <1>1, <2>2 DEF MainInv
  <2> QED BY <1>1, <1>2, <1>3, <2>2, <2>3, <2>4 DEF MainInv
<1> QED BY <1>3, <1>4, <1>5

\* The four lemmas on a working thread together.
LEMMA GroupSteps ==
    ASSUME IInv, NEW g \in Group, GroupStep(g)
    PROVE  IInv'
BY GroupCtlType, GroupThread, GroupStepLists, GroupStepMessages, GroupStepContext
   DEF IInv, TypeOK

-----------------------------------------------------------------------------
\* A step of an API call keeps the invariant.

\* The control state of the working threads is their own.
LEMMA ApiControl ==
    ASSUME IInv, UNCHANGED ctlVars
    PROVE  CtlTypeOK' /\ ThreadInv'
BY DEF IInv, TypeOK, CtlTypeOK, ThreadInv, ctlVars

LEMMA ApiLists ==
    ASSUME IInv, NEW t \in Thread, CallStart(t) \/ CallStep(t)
    PROVE  ListTypeOK' /\ ListsAgree'
<1>1. CASE UNCHANGED <<listVars, main_pc>>
  BY <1>1, ListsKept
<1>2. CASE ~UNCHANGED <<listVars, main_pc>>
  <2>1. PushQueue(t) \/ ResumeLock(t)
    BY <1>2 DEF CallStart, CallStep, SendCall, ResumeCall, QuitCall, SendCheck,
                PushAlloc, PushFail, CallPost, QuitSet, QuitWake, restApi, ctxVars
  <2>2. call_srv[t] \in Service /\ main_pc # "new"
    BY <2>1 DEF PushQueue, ResumeLock, IInv, CallInv, MainInv
  <2>3. PICK new \in {PushedState(call_srv[t]), "busy"} :
           SetState(call_srv[t], new) \/ UNCHANGED <<listVars, main_pc>>
    BY <2>1 DEF PushQueue, ResumeLock, ctxVars
  <2>4. new \in WaitState \cup BusyState
    BY <2>2, <2>3 DEF PushedState, IInv, TypeOK, ListTypeOK, WaitState, BusyState
  <2> QED BY <1>2, <2>2, <2>3, <2>4, ListsMoved
<1> QED BY <1>1, <1>2

LEMMA ApiMessages ==
    ASSUME IInv, NEW t \in Thread, CallStart(t) \/ CallStep(t)
    PROVE  MsgqTypeOK' /\ MsgTypeOK' /\ CallTypeOK' /\ CallInv'
<1>1. MsgqTypeOK /\ MsgTypeOK /\ CallTypeOK /\ CallInv
  BY DEF IInv, TypeOK
<1>2. ASSUME UNCHANGED <<msgqVars, sem>>
      PROVE  MsgqTypeOK'
  BY <1>1, <1>2 DEF msgqVars, MsgqTypeOK
<1>3. ASSUME UNCHANGED <<msgVars, budgetVars>>
      PROVE  MsgTypeOK'
  BY <1>1, <1>3 DEF msgVars, budgetVars, MsgTypeOK
<1>4. ASSUME NEW g, sem' = [sem EXCEPT ![g] = sem[g] + 1], UNCHANGED msgqVars
      PROVE  MsgqTypeOK'
  <2>1. g \in Group => sem[g] + 1 \in Nat
    BY <1>1 DEF MsgqTypeOK
  <2> QED BY <1>1, <1>4, <2>1 DEF MsgqTypeOK, msgqVars
<1>5. ASSUME NEW n \in Nat, call_msg[t] \in Msg, SendFails(t, n), UNCHANGED budgetVars
      PROVE  MsgTypeOK' /\ CallTypeOK' /\ CallInv'
  <2>1. MsgTypeOK'
    BY <1>1, <1>5 DEF SendFails, MsgTypeOK, budgetVars, Fate
  <2>2. CallTypeOK' /\ CallInv'
    BY <1>1, <1>5 DEF SendFails, CallTypeOK, CallInv, CallPc
  <2> QED BY <2>1, <2>2
<1>6. CASE SendCall(t)
  <2>1. PICK m \in Msg : StartSend(t, m)
    BY <1>6 DEF SendCall
  <2>2. MsgTypeOK'
    BY <1>1, <1>6, <2>1 DEF SendCall, StartSend, MsgTypeOK, Fate, restApi, budgetVars
  <2>3. CallTypeOK' /\ CallInv'
    BY <1>1, <2>1 DEF StartSend, CallTypeOK, CallInv, CallPc
  <2> QED BY <1>2, <1>6, <2>2, <2>3 DEF SendCall, restApi
<1>7. CASE SendCheck(t)
  <2>1. call_msg[t] \in Msg /\ UNCHANGED <<msgqVars, sem, budgetVars>>
    BY <1>1, <1>7 DEF SendCheck, CallInv, restApi
  <2>2. CASE SendFails(t, 1)
    BY <1>2, <1>5, <2>1, <2>2
  <2>3. CASE ~SendFails(t, 1)
    <3>1. /\ call' = [call EXCEPT ![t] = "alloc"]
          /\ call_srv' = [call_srv EXCEPT ![t] = Dest(call_msg[t])]
          /\ Dest(call_msg[t]) \in Service
          /\ UNCHANGED <<call_msg, call_grp, msgVars>>
      BY <1>7, <2>3 DEF SendCheck, IInv, TypeOK, CtxTypeOK
    <3>2. CallTypeOK' /\ CallInv'
      BY <1>1, <2>1, <3>1 DEF CallTypeOK, CallInv, CallPc
    <3> QED BY <1>2, <1>3, <2>1, <3>1, <3>2
  <2> QED BY <2>2, <2>3
<1>8. CASE PushAlloc(t)
  <2>1. call_msg[t] \in Msg /\ UNCHANGED <<msgqVars, sem, budgetVars>>
    BY <1>1, <1>8 DEF PushAlloc, CallInv, restApi
  <2>2. CASE SendFails(t, 1)
    BY <1>2, <1>5, <2>1, <2>2
  <2>3. CASE ~SendFails(t, 1)
    <3>1. /\ call[t] = "alloc" /\ call' = [call EXCEPT ![t] = "push"]
          /\ refcnt' = [refcnt EXCEPT ![call_msg[t]] = refcnt[call_msg[t]] + 1]
          /\ UNCHANGED <<call_msg, call_srv, call_grp, fate>>
      BY <1>8, <2>3 DEF PushAlloc
    <3>2. CallTypeOK' /\ CallInv'
      BY <1>1, <3>1 DEF CallTypeOK, CallInv, CallPc
    <3>3. MsgTypeOK'
      BY <1>1, <2>1, <3>1 DEF MsgTypeOK, budgetVars
    <3> QED BY <1>2, <2>1, <3>2, <3>3
  <2> QED BY <2>2, <2>3
<1>9. CASE PushFail(t)
  <2>1. call_msg[t] \in Msg /\ SendFails(t, 2) /\ UNCHANGED <<msgqVars, sem, budgetVars>>
    BY <1>1, <1>9 DEF PushFail, CallInv, restApi
  <2> QED BY <1>2, <1>5, <2>1
<1>10. CASE PushQueue(t)
  <2>1. /\ call[t] = "push" /\ call' = [call EXCEPT ![t] = "post"]
        /\ queue' = [queue EXCEPT ![call_srv[t]] = Append(queue[call_srv[t]], call_msg[t])]
        /\ fate' = [fate EXCEPT ![call_msg[t]] = "queued"]
        /\ UNCHANGED <<cur_msg, sem, call_msg, call_srv, call_grp, refcnt, budgetVars>>
    BY <1>10 DEF PushQueue, Pushed
  <2>2. call_msg[t] \in Msg /\ call_srv[t] \in Service
    BY <1>1, <2>1 DEF CallInv
  <2>3. Append(queue[call_srv[t]], call_msg[t]) \in Seq(Msg)
    BY <1>1, <2>2 DEF MsgqTypeOK
  <2>4. MsgqTypeOK'
    BY <1>1, <2>1, <2>3 DEF MsgqTypeOK
  <2>5. MsgTypeOK'
    BY <1>1, <2>1 DEF MsgTypeOK, Fate, budgetVars
  <2>6. CallTypeOK' /\ CallInv'
    BY <1>1, <2>1, <2>2 DEF CallTypeOK, CallInv, CallPc
  <2> QED BY <2>4, <2>5, <2>6
<1>11. CASE CallPost(t)
  <2>1. MsgqTypeOK'
    <3> DEFINE h == GroupOf(call_srv[t])
    <3>1. sem' = [sem EXCEPT ![h] = sem[h] + 1] /\ UNCHANGED msgqVars
      BY <1>11 DEF CallPost, Post
    <3> HIDE DEF h
    <3>2. h \in Group => sem[h] + 1 \in Nat
      BY <1>1 DEF MsgqTypeOK
    <3> QED BY <1>1, <3>1, <3>2 DEF MsgqTypeOK, msgqVars
  <2>2. MsgTypeOK'
    <3> DEFINE m == call_msg[t]
    <3>1. m \in Msg => refcnt[m] - 1 \in Int
      BY <1>1 DEF MsgTypeOK
    <3>2. refcnt' \in {refcnt, [refcnt EXCEPT ![m] = refcnt[m] - 1]}
      BY <1>11 DEF CallPost
    <3>3. UNCHANGED <<fate, budgetVars>>
      BY <1>11 DEF CallPost
    <3> HIDE DEF m
    <3> QED BY <1>1, <3>1, <3>2, <3>3 DEF MsgTypeOK, budgetVars
  <2>3. CallTypeOK' /\ CallInv'
    BY <1>1, <1>11 DEF CallPost, CallTypeOK, CallInv, CallPc
  <2> QED BY <2>1, <2>2, <2>3
<1>12. CASE ResumeCall(t)
  <2>1. MsgTypeOK'
    BY <1>1, <1>12 DEF ResumeCall, MsgTypeOK, msgVars
  <2>2. PICK s \in Service : /\ call' = [call EXCEPT ![t] = "resume"]
                             /\ call_srv' = [call_srv EXCEPT ![t] = s]
    BY <1>12 DEF ResumeCall, IInv, TypeOK, CtxTypeOK
  <2>3. CallTypeOK' /\ CallInv'
    BY <1>1, <1>12, <2>2 DEF ResumeCall, CallTypeOK, CallInv, CallPc
  <2> QED BY <1>2, <1>12, <2>1, <2>3 DEF ResumeCall
<1>13. CASE ResumeLock(t)
  <2>1. CallTypeOK' /\ CallInv'
    BY <1>1, <1>13 DEF ResumeLock, CallTypeOK, CallInv, CallPc
  <2> QED BY <1>2, <1>3, <1>13, <2>1 DEF ResumeLock
<1>14. CASE QuitCall(t)
  <2>1. MsgTypeOK'
    BY <1>1, <1>14 DEF QuitCall, MsgTypeOK, msgVars
  <2>2. CallTypeOK' /\ CallInv'
    BY <1>1, <1>14, ThreadAssumption DEF QuitCall, CallTypeOK, CallInv, CallPc
  <2> QED BY <1>2, <1>14, <2>1, <2>2 DEF QuitCall
<1>15. CASE QuitSet(t)
  <2>1. CallTypeOK' /\ CallInv'
    BY <1>1, <1>15, GroupAssumption DEF QuitSet, CallTypeOK, CallInv, CallPc, Group
  <2> QED BY <1>2, <1>3, <1>15, <2>1 DEF QuitSet
<1>16. CASE QuitWake(t)
  <2>1. MsgqTypeOK' /\ MsgTypeOK'
    BY <1>3, <1>4, <1>16 DEF QuitWake, Post
  <2>2. CallTypeOK'
    BY <1>1, <1>16, GroupAssumption DEF QuitWake, LastGroup, CallTypeOK, CallPc, Group
  <2>3. CallInv'
    BY <1>1, <1>16 DEF QuitWake, CallTypeOK, CallInv
  <2> QED BY <2>1, <2>2, <2>3
<1> QED BY <1>6, <1>7, <1>8, <1>9, <1>10, <1>11, <1>12, <1>13, <1>14, <1>15, <1>16
        DEF CallStart, CallStep


LEMMA ApiContext ==
    ASSUME IInv, NEW t \in Thread, CallStart(t) \/ CallStep(t)
    PROVE  CtxTypeOK' /\ MainInv'
<1>1. CtxTypeOK /\ MainInv /\ CallTypeOK
  BY DEF IInv, TypeOK
<1>2. UNCHANGED <<ready, main_pc, main_grp, main_srv, entry, pc>>
  BY DEF CallStart, CallStep, SendCall, ResumeCall, QuitCall, SendCheck, PushAlloc,
         PushFail, PushQueue, CallPost, ResumeLock, QuitSet, QuitWake,
         restApi, ctxVars, ctlVars
<1>3. ctx_state' = ctx_state \/ (ctx_state' \in {"exit", "teardown"} /\ main_pc # "new")
  <2>1. CASE QuitSet(t)
    BY <1>1, <2>1 DEF QuitSet, MainInv
  <2>2. CASE ~QuitSet(t)
    BY <2>2 DEF CallStart, CallStep, SendCall, ResumeCall, QuitCall, SendCheck,
                PushAlloc, PushFail, PushQueue, CallPost, ResumeLock, QuitWake,
                restApi, ctxVars
  <2> QED BY <2>1, <2>2
<1>4. CtxTypeOK'
  BY <1>1, <1>2, <1>3 DEF CtxTypeOK, CtxState
<1>5. CASE main_pc = "new"
  <2>1. ctx_state = "none" /\ call[t] \in {"idle", "check"}
    BY <1>1, <1>5 DEF MainInv
  <2>2. SendCall(t) \/ SendCheck(t)
    BY <2>1 DEF CallStart, CallStep, ResumeCall, QuitCall, PushAlloc, PushFail,
                PushQueue, CallPost, ResumeLock, QuitSet, QuitWake
  <2>3. UNCHANGED <<busy_list, state>>
    BY <2>2 DEF SendCall, SendCheck, restApi, listVars
  <2>4. PICK x \in {"idle", "check"} : call' = [call EXCEPT ![t] = x]
    BY <2>1, <2>2 DEF SendCall, SendCheck, StartSend, SendFails
  <2> QED BY <1>1, <1>2, <1>3, <1>4, <1>5, <2>3, <2>4 DEF MainInv, CallTypeOK
<1>6. CASE main_pc # "new"
  BY <1>1, <1>2, <1>3, <1>4, <1>6 DEF MainInv
<1> QED BY <1>5, <1>6

\* The lemmas on an API call together.
LEMMA ApiSteps ==
    ASSUME IInv, NEW t \in Thread, CallStart(t) \/ CallStep(t)
    PROVE  IInv'
<1>1. UNCHANGED ctlVars
  BY DEF CallStart, CallStep, SendCall, ResumeCall, QuitCall, SendCheck, PushAlloc,
         PushFail, PushQueue, CallPost, ResumeLock, QuitSet, QuitWake, restApi
<1> QED BY <1>1, ApiControl, ApiLists, ApiMessages, ApiContext DEF IInv, TypeOK

-----------------------------------------------------------------------------
\* A step of the thread that brings EAF up and down keeps the invariant.

\* eaf_init: the lists of every group appear, with all its services waiting.
LEMMA EafInitStep ==
    ASSUME IInv, EafInit
    PROVE  IInv'
<1>1. IInv /\ TypeOK /\ main_pc = "new"
  BY DEF IInv, EafInit, MainAt
<1>2. /\ \A g \in Group : pc[g] = "none" /\ busy_list[g] = <<>>
      /\ \A s \in Service : state[s] = "init0"
  BY <1>1 DEF IInv, MainInv
<1>3. TypeOK'
  <2>1. CtxTypeOK'
    BY <1>1 DEF EafInit, TypeOK, CtxTypeOK, CtxState, MainPc
  <2>2. ListTypeOK'
    BY <1>1 DEF EafInit, TypeOK, ListTypeOK
  <2>3. CtlTypeOK'
    BY <1>1 DEF EafInit, TypeOK, CtlTypeOK, Pc
  <2>4. MsgqTypeOK' /\ CallTypeOK' /\ MsgTypeOK'
    BY <1>1 DEF EafInit, TypeOK, MsgqTypeOK, CallTypeOK, MsgTypeOK, msgqVars,
                callVars, msgVars, budgetVars
  <2> QED BY <2>1, <2>2, <2>3, <2>4 DEF TypeOK
<1>4. ListsAgree'
  <2>1. SUFFICES ASSUME NEW g \in Group PROVE GroupLists(g)'
    BY DEF ListsAgree
  <2>2. busy_list'[g] = <<>> /\ \A s \in Service : state'[s] = "init0"
    BY <1>2 DEF EafInit
  <2>3. wait_list'[g] = {s \in Service : GroupOf(s) = g}
    BY DEF EafInit
  <2> QED BY <2>2, <2>3 DEF GroupLists, ToSet, WaitState, BusyState
<1>5. ThreadInv' /\ CallInv' /\ MainInv'
  <2>1. \A g \in Group : pc'[g] = "start" /\ idx'[g] >= 1
    BY <1>1, <1>2 DEF EafInit, IInv, ThreadInv
  <2>2. CallInv'
    BY <1>1 DEF EafInit, IInv, CallInv, callVars
  <2> QED BY <2>1, <2>2 DEF EafInit, ThreadInv, MainInv
<1> QED BY <1>3, <1>4, <1>5 DEF IInv

\* The steps that leave the services, the threads and the messages alone.
LEMMA MainControlSteps ==
    ASSUME IInv, UNCHANGED restMain,
           \/ LoadCall \/ CleanupCall \/ LoadStart \/ LoadWait \/ CleanupFree
           \/ \E s \in Service : Register(s)
    PROVE  IInv'
<1>1. CtxTypeOK /\ MainInv
  BY DEF IInv, TypeOK
<1>2. ListTypeOK' /\ MsgqTypeOK' /\ CtlTypeOK' /\ CallTypeOK' /\ MsgTypeOK'
  BY DEF IInv, TypeOK, ListTypeOK, MsgqTypeOK, CtlTypeOK, CallTypeOK, MsgTypeOK, restMain,
         listVars, msgqVars, ctlVars, callVars, msgVars, budgetVars
<1>3. main_pc # "new" /\ main_pc' # "new" /\ UNCHANGED listVars
  BY DEF LoadCall, CleanupCall, LoadStart, LoadWait, CleanupFree, Register, MainAt, restMain
<1>4. ListsAgree' /\ ThreadInv' /\ CallInv'
  <2>1. ListsAgree'
    BY <1>3, ListsKept
  <2>2. ThreadInv' /\ CallInv'
    BY DEF IInv, ThreadInv, CallInv, restMain, ctlVars, callVars
  <2> QED BY <2>1, <2>2
<1>5. CtxTypeOK'
  <2>1. CASE LoadWait
    <3>1. ready > 0 => ready - 1 \in Nat
      BY <1>1 DEF CtxTypeOK
    <3>2. main_grp \in 1 .. NumGroup
      BY <1>1, <2>1 DEF LoadWait, MainInv, Group
    <3> QED BY <1>1, <2>1, <3>1, <3>2, GroupAssumption
            DEF LoadWait, LastGroup, CtxTypeOK, MainPc
  <2>2. CASE LoadCall \/ CleanupCall \/ \E s \in Service : Register(s)
    BY <1>1, <2>2, GroupAssumption DEF LoadCall, CleanupCall, Register, CtxTypeOK, MainPc
  <2>3. CASE LoadStart \/ CleanupFree
    BY <1>1, <2>3, GroupAssumption DEF LoadStart, CleanupFree, CtxTypeOK, CtxState, MainPc
  <2> QED BY <2>1, <2>2, <2>3
<1>6. MainInv'
  <2>1. UNCHANGED <<pc, busy_list, state, call>>
    BY DEF restMain, ctlVars, listVars, callVars
  <2>2. CASE LoadCall \/ \E s \in Service : Register(s)
    BY <1>1, <2>1, <2>2 DEF MainInv, LoadCall, Register, MainAt
  <2>3. CASE CleanupCall \/ LoadStart \/ CleanupFree
    BY <1>1, <2>1, <2>3, GroupAssumption
       DEF MainInv, CleanupCall, LoadStart, CleanupFree, Group
  <2>4. CASE LoadWait
    BY <1>1, <2>1, <2>4, GroupAssumption DEF MainInv, LoadWait, LastGroup, Group
  <2> QED BY <2>2, <2>3, <2>4
<1> QED BY <1>2, <1>4, <1>5, <1>6 DEF IInv, TypeOK

\* _eaf_load_fix_state moves one service at a time.
LEMMA LoadFixStep ==
    ASSUME IInv, LoadFix
    PROVE  IInv'
<1>1. CtxTypeOK /\ MainInv
  BY DEF IInv, TypeOK
<1>2. /\ main_pc = "fix" /\ main_grp \in Group /\ main_srv \in Nat /\ main_srv >= 1
      /\ UNCHANGED <<ctx_state, ready, main_pc, entry, msgqVars, sem, ctlVars, callVars,
                     msgVars, budgetVars>>
  BY <1>1, GroupAssumption DEF LoadFix, CtxTypeOK, Group
<1>3. MsgqTypeOK' /\ CtlTypeOK' /\ CallTypeOK' /\ MsgTypeOK'
  BY <1>2 DEF IInv, TypeOK, MsgqTypeOK, CtlTypeOK, CallTypeOK, MsgTypeOK,
              msgqVars, ctlVars, callVars, msgVars, budgetVars
<1>4. ThreadInv' /\ CallInv'
  BY <1>2 DEF IInv, ThreadInv, CallInv, ctlVars, callVars
<1>5. MainInv'
  BY <1>1, <1>2 DEF MainInv, ctlVars
<1>6. CtxTypeOK'
  BY <1>1, <1>2, GroupAssumption DEF LoadFix, CtxTypeOK, Group
<1>7. ListTypeOK' /\ ListsAgree'
  <2> DEFINE s == Table[main_grp][main_srv]
  <2>1. CASE main_srv > Len(Table[main_grp])
    BY <1>2, <2>1, ListsKept DEF LoadFix
  <2>2. CASE ~(main_srv > Len(Table[main_grp]))
    <3>1. Table[main_grp] \in Seq(Service)
      BY <1>2, TableAssumption
    <3>2. s \in Service
      BY <1>2, <2>2, <3>1, TableEntry
    <3>3. PICK new \in {"exit1", "init2", "init1"} : SetState(s, new)
      BY <2>2 DEF LoadFix
    <3>4. new \in WaitState \cup BusyState
      BY <3>3 DEF WaitState, BusyState
    <3> QED BY <1>2, <3>2, <3>3, <3>4, ListsMoved
  <2> QED BY <2>1, <2>2
<1> QED BY <1>3, <1>4, <1>5, <1>6, <1>7 DEF IInv, TypeOK

LEMMA LoadWakeStep ==
    ASSUME IInv, LoadWake
    PROVE  IInv'
<1>1. CtxTypeOK /\ MainInv /\ MsgqTypeOK
  BY DEF IInv, TypeOK
<1>2. /\ main_pc = "wake" /\ main_grp \in Group
      /\ UNCHANGED <<ctx_state, ready, main_srv, entry, listVars, msgqVars, ctlVars,
                     callVars, msgVars, budgetVars>>
  BY <1>1 DEF LoadWake, MainInv
<1>3. CtlTypeOK' /\ CallTypeOK' /\ MsgTypeOK'
  BY <1>2 DEF IInv, TypeOK, CtlTypeOK, CallTypeOK, MsgTypeOK,
              ctlVars, callVars, msgVars, budgetVars
<1>4. ThreadInv' /\ CallInv'
  BY <1>2 DEF IInv, ThreadInv, CallInv, ctlVars, callVars
<1>5. ListTypeOK' /\ ListsAgree'
  BY <1>2, ListsKept
<1>6. MsgqTypeOK'
  BY <1>1, <1>2 DEF LoadWake, Post, MsgqTypeOK, msgqVars
<1>7. CtxTypeOK' /\ MainInv'
  BY <1>1, <1>2, GroupAssumption DEF LoadWake, LastGroup, CtxTypeOK, MainPc, MainInv, Group
<1> QED BY <1>3, <1>4, <1>5, <1>6, <1>7 DEF IInv, TypeOK

LEMMA CleanupGroupStep ==
    ASSUME IInv, CleanupGroup
    PROVE  IInv'
<1>1. CtxTypeOK /\ MainInv /\ MsgqTypeOK /\ MsgTypeOK
  BY DEF IInv, TypeOK
<1>2. /\ main_pc = "join" /\ main_grp \in Group
      /\ UNCHANGED <<ctx_state, ready, main_srv, entry, listVars, sem, ctlVars,
                     callVars, budgetVars>>
  BY <1>1 DEF CleanupGroup, MainInv
<1>3. CtlTypeOK' /\ CallTypeOK'
  BY <1>2 DEF IInv, TypeOK, CtlTypeOK, CallTypeOK, ctlVars, callVars
<1>4. ThreadInv' /\ CallInv'
  BY <1>2 DEF IInv, ThreadInv, CallInv, ctlVars, callVars
<1>5. ListTypeOK' /\ ListsAgree'
  BY <1>2, ListsKept
<1>6. MsgqTypeOK'
  BY <1>1, <1>2 DEF CleanupGroup, MsgqTypeOK
<1>7. MsgTypeOK'
  BY <1>1, <1>2 DEF CleanupGroup, MsgTypeOK, Fate, budgetVars
<1>8. CtxTypeOK' /\ MainInv'
  BY <1>1, <1>2, GroupAssumption DEF CleanupGroup, LastGroup, CtxTypeOK, MainPc, MainInv, Group
<1> QED BY <1>3, <1>4, <1>5, <1>6, <1>7, <1>8 DEF IInv, TypeOK

-----------------------------------------------------------------------------
\* The invariant

LEMMA NextIInv == IInv /\ [Next]_vars => IInv'
<1> SUFFICES ASSUME IInv, [Next]_vars PROVE IInv'
  OBVIOUS
<1>1. CASE EafInit
  BY <1>1, EafInitStep
<1>2. CASE LoadCall \/ CleanupCall \/ LoadStart \/ LoadWait \/ CleanupFree
           \/ \E s \in Service : Register(s)
  <2>1. UNCHANGED restMain
    BY <1>2 DEF LoadCall, CleanupCall, LoadStart, LoadWait, CleanupFree, Register
  <2> QED BY <1>2, <2>1, MainControlSteps
<1>3. CASE LoadFix \/ LoadWake \/ CleanupGroup
  BY <1>3, LoadFixStep, LoadWakeStep, CleanupGroupStep
<1>4. CASE \E t \in Thread : CallStart(t) \/ CallStep(t)
  BY <1>4, ApiSteps
<1>5. CASE \E g \in Group : GroupStep(g)
  BY <1>5, GroupSteps
<1>6. CASE UNCHANGED vars
  <2>1. ListTypeOK' /\ ListsAgree'
    BY <1>6, ListsKept DEF vars, ctxVars
  <2>2. CtlTypeOK' /\ ThreadInv'
    BY <1>6, ApiControl DEF vars
  <2>3. MsgqTypeOK' /\ CallTypeOK' /\ MsgTypeOK' /\ CallInv'
    BY <1>6 DEF vars, IInv, TypeOK, MsgqTypeOK, CallTypeOK, MsgTypeOK, CallInv,
                msgqVars, callVars, msgVars, budgetVars
  <2>4. CtxTypeOK' /\ MainInv'
    BY <1>6 DEF vars, IInv, TypeOK, CtxTypeOK, MainInv, ctxVars, listVars, ctlVars, callVars
  <2> QED BY <2>1, <2>2, <2>3, <2>4 DEF IInv, TypeOK
<1> QED BY <1>1, <1>2, <1>3, <1>4, <1>5, <1>6 DEF Next, MainStep

\* The inductive invariant of the runtime (service.c as a whole).
THEOREM Invariance == Spec => []IInv
BY InitIInv, NextIInv, PTL DEF Spec

\* Every variable of the runtime keeps its type.
THEOREM TypeCorrect == Spec => []TypeOK
<1>1. IInv => TypeOK
  BY DEF IInv
<1> QED BY Invariance, <1>1, PTL

\* The intrusive lists of service.c agree with the states of the services in
\* every reachable state, whichever threads moved the services.
THEOREM ListsCorrect == Spec => []ListsAgree
<1>1. IInv => ListsAgree
  BY DEF IInv
<1> QED BY Invariance, <1>1, PTL

-----------------------------------------------------------------------------
\* No wakeup of a working thread is lost: neither the token of a message or a
\* resumed handler, nor the one that announces eaf_exit.  Both properties are
\* inductive relative to IInv.  First, what one step may do to what another
\* thread relies on.

\* A step of a working thread changes nothing that belongs to another group.
LEMMA GroupIsolation ==
    ASSUME IInv, NEW h \in Group, GroupStep(h), NEW g \in Group, g # h
    PROVE  /\ pc'[g] = pc[g] /\ phase'[g] = phase[g] /\ sem'[g] = sem[g]
           /\ busy_list'[g] = busy_list[g]
<1> USE DEF Jump, At
<1>1. CtlTypeOK /\ MsgqTypeOK /\ ThreadInv
  BY DEF IInv, TypeOK
<1>2. /\ \E p : pc' = [pc EXCEPT ![h] = p]
      /\ \E f : phase' = [phase EXCEPT ![h] = f]
  <2>1. pc = [pc EXCEPT ![h] = pc[h]] /\ phase = [phase EXCEPT ![h] = phase[h]]
    BY <1>1 DEF CtlTypeOK
  <2> QED BY <2>1 DEF GroupStep, WaitStart, Pend, InitNext, InitDone, OnInitReturn, PostReady,
         LoopCheck, IfTeardown, Pick, TryPend, DispatchInit, Dispatch,
         HandleBefore, HandlerReturn, HandlerYield, YieldHookReturn, TeardownNext, TeardownDone,
         GroupExitNext, GroupExitDone, OnExitReturn, DrainNext, Drop, DrainDone
<1>3. pc'[g] = pc[g] /\ phase'[g] = phase[g]
  BY <1>1, <1>2 DEF CtlTypeOK
<1>4. sem'[g] = sem[g]
  <2>1. CASE Pend(h) \/ TryPend(h)
    BY <1>1, <2>1 DEF Pend, TryPend, MsgqTypeOK
  <2>2. CASE ~(Pend(h) \/ TryPend(h))
    BY <2>2 DEF GroupStep, restCtl, WaitStart, Pend, InitNext, InitDone, OnInitReturn, PostReady,
         LoopCheck, IfTeardown, Pick, TryPend, DispatchInit, Dispatch,
         HandleBefore, HandlerReturn, HandlerYield, YieldHookReturn, TeardownNext, TeardownDone,
         GroupExitNext, GroupExitDone, OnExitReturn, DrainNext, Drop, DrainDone
  <2> QED BY <2>1, <2>2
<1>5. busy_list'[g] = busy_list[g]
  <2>1. ASSUME NEW s \in Service, GroupOf(s) = h, NEW new, SetState(s, new)
        PROVE  busy_list'[g] = busy_list[g]
    <3>1. \E x : busy_list' = [busy_list EXCEPT ![h] = x]
      BY <2>1 DEF SetState
    <3> QED BY <3>1 DEF IInv, TypeOK, ListTypeOK
  <2>2. CASE UNCHANGED listVars
    BY <2>2 DEF listVars
  <2>3. CASE ~UNCHANGED listVars
    <3>1. \/ OnInitReturn(h) \/ Dispatch(h) \/ HandlerYield(h) \/ TeardownNext(h)
          \/ GroupExitNext(h) \/ OnExitReturn(h) \/ DrainDone(h)
      BY <2>3 DEF GroupStep, restCtl, WaitStart, Pend, InitNext, InitDone, OnInitReturn, PostReady,
         LoopCheck, IfTeardown, Pick, TryPend, DispatchInit, Dispatch,
         HandleBefore, HandlerReturn, HandlerYield, YieldHookReturn, TeardownNext, TeardownDone,
         GroupExitNext, GroupExitDone, OnExitReturn, DrainNext, Drop, DrainDone
    <3>2. CASE OnInitReturn(h) \/ Dispatch(h) \/ HandlerYield(h)
      <4>1. /\ cur_run[h] \in Service /\ GroupOf(cur_run[h]) = h
            /\ \E new : SetState(cur_run[h], new)
        BY <1>1, <2>3, <3>2 DEF OnInitReturn, Dispatch, HandlerYield, ThreadInv
      <4> QED BY <2>1, <4>1
    <3>3. CASE TeardownNext(h) \/ GroupExitNext(h) \/ OnExitReturn(h) \/ DrainDone(h)
      <4>1. /\ Table[h][idx[h]] \in Service /\ GroupOf(Table[h][idx[h]]) = h
            /\ \E new : SetState(Table[h][idx[h]], new)
        BY <2>3, <3>3, GroupFacts
           DEF TeardownNext, GroupExitNext, OnExitReturn, DrainDone
      <4> QED BY <2>1, <4>1
    <3> QED BY <3>1, <3>2, <3>3
  <2> QED BY <2>2, <2>3
<1> QED BY <1>3, <1>4, <1>5

\* A working thread begins a call only when it is in none.
LEMMA GroupCalls ==
    ASSUME IInv, NEW h \in Group, GroupStep(h), NEW t \in Thread,
           call[t] # "idle"
    PROVE  call'[t] = call[t] /\ call_srv'[t] = call_srv[t] /\ call_grp'[t] = call_grp[t]
<1>1. CASE UNCHANGED callVars
  BY <1>1 DEF callVars
<1>2. CASE ~UNCHANGED callVars
  <2>1. DrainNext(h)
    BY <1>2 DEF GroupStep, restCtl, Jump, At, WaitStart, Pend, InitNext, InitDone, OnInitReturn, PostReady,
         LoopCheck, IfTeardown, Pick, TryPend, DispatchInit, Dispatch,
         HandleBefore, HandlerReturn, HandlerYield, YieldHookReturn, TeardownNext, TeardownDone,
         GroupExitNext, GroupExitDone, OnExitReturn, DrainNext, Drop, DrainDone
  <2>2. PICK m : StartSend(h, m)
    BY <1>2, <2>1 DEF DrainNext
  <2>3. call[h] = "idle"
    BY <2>1 DEF DrainNext, At
  <2> QED BY <2>2, <2>3 DEF StartSend, IInv, TypeOK, CallTypeOK
<1> QED BY <1>1, <1>2

\* An API call is private to its thread, and wakes at most one group at a time.
LEMMA ApiIsolation ==
    ASSUME IInv, NEW t \in Thread, CallStart(t) \/ CallStep(t)
    PROVE  /\ UNCHANGED <<pc, phase>>
           /\ \A u \in Thread : u # t => /\ call'[u] = call[u]
                                         /\ call_srv'[u] = call_srv[u]
                                         /\ call_grp'[u] = call_grp[u]
           /\ \A g \in Group : sem[g] > 0 => sem'[g] > 0
<1>1. CallTypeOK /\ MsgqTypeOK
  BY DEF IInv, TypeOK
<1>2. UNCHANGED <<pc, phase>>
  BY DEF CallStart, CallStep, SendCall, ResumeCall, QuitCall, SendCheck, PushAlloc, PushFail,
         PushQueue, CallPost, ResumeLock, QuitSet, QuitWake, restApi, ctlVars
<1>3. ASSUME NEW u \in Thread, u # t
      PROVE  call'[u] = call[u] /\ call_srv'[u] = call_srv[u] /\ call_grp'[u] = call_grp[u]
  BY <1>1, <1>3 DEF CallStart, CallStep, SendCall, ResumeCall, QuitCall, SendCheck, PushAlloc, PushFail,
         PushQueue, CallPost, ResumeLock, QuitSet, QuitWake, StartSend, SendFails, CallTypeOK
<1>4. ASSUME NEW g \in Group
      PROVE  sem[g] > 0 => sem'[g] > 0
  <2>1. UNCHANGED sem \/ \E h : sem' = [sem EXCEPT ![h] = sem[h] + 1]
    BY DEF CallStart, CallStep, SendCall, ResumeCall, QuitCall, SendCheck, PushAlloc, PushFail,
         PushQueue, CallPost, ResumeLock, QuitSet, QuitWake, Post, restApi
  <2> QED BY <1>1, <2>1 DEF MsgqTypeOK
<1> QED BY <1>2, <1>3, <1>4

-----------------------------------------------------------------------------
\* A working thread about to sleep with a busy service has a token coming.

LEMMA NextNoLostWakeup ==
    IInv /\ NoLostWakeup /\ [Next]_vars => NoLostWakeup'
<1> SUFFICES ASSUME IInv, NoLostWakeup, [Next]_vars, NEW g \in Group,
                    pc'[g] = "pend", busy_list'[g] # <<>>
             PROVE  sem'[g] > 0 \/ OwedPost(g)'
  BY DEF NoLostWakeup
<1>1. CtlTypeOK /\ MsgqTypeOK /\ CallTypeOK
  BY DEF IInv, TypeOK
<1>2. pc[g] = "pend" /\ busy_list[g] # <<>> => sem[g] > 0 \/ OwedPost(g)
  BY DEF NoLostWakeup
<1>3. CASE \E h \in Group : GroupStep(h)
  <2>1. PICK h \in Group : GroupStep(h)
    BY <1>3
  <2>2. g # h
    <3> SUFFICES ASSUME GroupStep(g) PROVE FALSE
      BY <2>1
    <3>1. Pick(g) /\ busy_list[g] = <<>>
      BY <1>1 DEF GroupStep, CtlTypeOK, Jump, At,
         WaitStart, Pend, InitNext, InitDone, OnInitReturn, PostReady,
         LoopCheck, IfTeardown, Pick, TryPend, DispatchInit, Dispatch,
         HandleBefore, HandlerReturn, HandlerYield, YieldHookReturn, TeardownNext, TeardownDone,
         GroupExitNext, GroupExitDone, OnExitReturn, DrainNext, Drop, DrainDone
    <3> QED BY <3>1 DEF Pick, restCtl, listVars
  <2>3. sem[g] > 0 \/ OwedPost(g)
    BY <1>2, <2>1, <2>2, GroupIsolation
  <2>4. OwedPost(g) => OwedPost(g)'
    BY <2>1, GroupCalls DEF OwedPost
  <2> QED BY <2>1, <2>2, <2>3, <2>4, GroupIsolation
<1>4. CASE \E t \in Thread : CallStart(t) \/ CallStep(t)
  <2>1. PICK t \in Thread : CallStart(t) \/ CallStep(t)
    BY <1>4
  <2>2. pc[g] = "pend" /\ (sem[g] > 0 => sem'[g] > 0)
    BY <1>1, <2>1, ApiIsolation DEF MsgqTypeOK
  <2>3. CASE busy_list[g] = <<>>
    <3>1. (PushQueue(t) \/ ResumeLock(t)) /\ ~UNCHANGED listVars
      BY <2>1, <2>3 DEF CallStart, CallStep, SendCall, ResumeCall, QuitCall, SendCheck,
         PushAlloc, PushFail, PushQueue, CallPost, ResumeLock, QuitSet, QuitWake, restApi, listVars
    <3>2. call'[t] = "post" /\ call_srv'[t] = call_srv[t] /\ call_srv[t] \in Service
      BY <1>1, <3>1 DEF PushQueue, ResumeLock, CallTypeOK, IInv, CallInv
    <3>3. \E new : SetState(call_srv[t], new)
      BY <3>1 DEF PushQueue, ResumeLock
    <3>4. GroupOf(call_srv[t]) = g
      <4>1. \E x : busy_list' = [busy_list EXCEPT ![GroupOf(call_srv[t])] = x]
        BY <3>3 DEF SetState
      <4> QED BY <2>3, <4>1 DEF IInv, TypeOK, ListTypeOK
    <3> QED BY <3>2, <3>4 DEF OwedPost
  <2>4. CASE busy_list[g] # <<>>
    <3>1. sem[g] > 0 => sem'[g] > 0
      BY <2>2
    <3>2. CASE OwedPost(g)
      <4>1. PICK u \in Thread : call[u] = "post" /\ GroupOf(call_srv[u]) = g
        BY <3>2 DEF OwedPost
      <4>2. CASE u # t
        BY <2>1, <4>1, <4>2, ApiIsolation DEF OwedPost
      <4>3. CASE u = t
        <5>1. CallPost(t)
          BY <2>1, <4>1, <4>3 DEF CallStart, CallStep, SendCall, ResumeCall, QuitCall,
             InUserCode, SendCheck, PushAlloc, PushFail, PushQueue, ResumeLock, QuitSet, QuitWake
        <5>2. sem' = [sem EXCEPT ![g] = sem[g] + 1]
          BY <4>1, <4>3, <5>1 DEF CallPost, Post
        <5> QED BY <1>1, <5>2 DEF MsgqTypeOK
      <4> QED BY <4>2, <4>3
    <3> QED BY <1>2, <2>2, <2>4, <3>1, <3>2
  <2> QED BY <2>3, <2>4
<1>5. CASE EafInit
  BY <1>5 DEF EafInit
<1>6. CASE LoadFix
  <2>1. pc[g] = "pend" /\ main_pc = "fix"
    BY <1>6 DEF LoadFix, ctlVars
  <2> QED BY <2>1, PastStart
<1>7. CASE LoadWake
  <2>1. UNCHANGED <<pc, busy_list, call, call_srv>> /\ (sem[g] > 0 => sem'[g] > 0)
    BY <1>1, <1>7 DEF LoadWake, Post, MsgqTypeOK, ctlVars, listVars, callVars
  <2> QED BY <1>2, <2>1 DEF OwedPost
<1>8. CASE \/ LoadCall \/ CleanupCall \/ LoadStart \/ LoadWait \/ CleanupGroup \/ CleanupFree
           \/ (\E s \in Service : Register(s)) \/ UNCHANGED vars
  <2>1. UNCHANGED <<pc, busy_list, sem, call, call_srv>>
    BY <1>8 DEF LoadCall, CleanupCall, LoadStart, LoadWait, CleanupGroup, CleanupFree,
       Register, vars, restMain, listVars, ctlVars, callVars
  <2> QED BY <1>2, <2>1 DEF OwedPost
<1> QED BY <1>3, <1>4, <1>5, <1>6, <1>7, <1>8 DEF Next, MainStep

\* NoLostWakeup of service.c:462-477 and :704-772: in no reachable state does a
\* working thread sleep on a busy service without a token coming.
THEOREM WakeupsArrive == Spec => []NoLostWakeup
<1>1. Init => NoLostWakeup
  BY DEF Init, NoLostWakeup
<1> QED BY <1>1, Invariance, NextNoLostWakeup, PTL DEF Spec

-----------------------------------------------------------------------------
\* A working thread about to sleep in a state that has changed has a token coming.

LEMMA NextExitIsNoticed ==
    IInv /\ ExitIsNoticed /\ [Next]_vars => ExitIsNoticed'
<1> SUFFICES ASSUME IInv, ExitIsNoticed, [Next]_vars, NEW g \in Group,
                    pc'[g] \in {"pick", "pend"}, ctx_state' # phase'[g],
                    ctx_state' # "none"
             PROVE  sem'[g] > 0 \/ OwedWake(g)'
  BY DEF ExitIsNoticed
<1>1. CtlTypeOK /\ MsgqTypeOK /\ CallTypeOK
  BY DEF IInv, TypeOK
<1>2. /\ pc[g] \in {"pick", "pend"} /\ ctx_state # phase[g] /\ ctx_state # "none"
           => sem[g] > 0 \/ OwedWake(g)
      /\ sem[g] \in Nat
  BY <1>1 DEF ExitIsNoticed, MsgqTypeOK
<1>3. CASE \E h \in Group : GroupStep(h)
  <2>1. PICK h \in Group : GroupStep(h)
    BY <1>3
  <2>2. ctx_state' = ctx_state
    BY <2>1 DEF GroupStep, restCtl, ctxVars,
         WaitStart, Pend, InitNext, InitDone, OnInitReturn, PostReady,
         LoopCheck, IfTeardown, Pick, TryPend, DispatchInit, Dispatch,
         HandleBefore, HandlerReturn, HandlerYield, YieldHookReturn, TeardownNext, TeardownDone,
         GroupExitNext, GroupExitDone, OnExitReturn, DrainNext, Drop, DrainDone
  <2>3. OwedWake(g) => OwedWake(g)'
    BY <2>1, GroupCalls DEF OwedWake
  <2>4. CASE h = g
    <3>1. LoopCheck(g) \/ Pick(g)
      BY <1>1, <2>1, <2>4 DEF GroupStep, CtlTypeOK, Jump, At,
         WaitStart, Pend, InitNext, InitDone, OnInitReturn, PostReady,
         LoopCheck, IfTeardown, Pick, TryPend, DispatchInit, Dispatch,
         HandleBefore, HandlerReturn, HandlerYield, YieldHookReturn, TeardownNext, TeardownDone,
         GroupExitNext, GroupExitDone, OnExitReturn, DrainNext, Drop, DrainDone
    <3>2. CASE LoopCheck(g)
      <4>1. ctx_state = phase[g] /\ UNCHANGED phase
        BY <1>1, <3>2 DEF LoopCheck, CtlTypeOK, Jump
      <4> QED BY <2>2, <4>1
    <3>3. CASE Pick(g)
      <4>1. pc[g] = "pick" /\ UNCHANGED <<phase, sem>>
        BY <3>3 DEF Pick, At, restCtl
      <4> QED BY <1>2, <2>2, <2>3, <4>1
    <3> QED BY <3>1, <3>2, <3>3
  <2>5. CASE h # g
    BY <1>2, <2>1, <2>2, <2>3, <2>5, GroupIsolation
  <2> QED BY <2>4, <2>5
<1>4. CASE \E t \in Thread : CallStart(t) \/ CallStep(t)
  <2>1. PICK t \in Thread : CallStart(t) \/ CallStep(t)
    BY <1>4
  <2>2. pc'[g] = pc[g] /\ phase'[g] = phase[g] /\ (sem[g] > 0 => sem'[g] > 0)
    BY <2>1, ApiIsolation
  <2>3. CASE QuitSet(t)
    <3>1. call'[t] = "wake" /\ call_grp'[t] = 1
      BY <1>1, <2>3 DEF QuitSet, CallTypeOK
    <3> QED BY <3>1 DEF OwedWake, Group
  <2>4. CASE ~QuitSet(t)
    <3>1. ctx_state' = ctx_state
      BY <2>1, <2>4 DEF CallStart, CallStep, SendCall, ResumeCall, QuitCall, SendCheck,
         PushAlloc, PushFail, PushQueue, CallPost, ResumeLock, QuitWake, restApi, ctxVars
    <3>2. sem[g] > 0 \/ OwedWake(g)
      BY <1>2, <2>2, <3>1
    <3>3. CASE sem[g] > 0
      BY <1>2, <2>2, <3>3
    <3>4. CASE OwedWake(g)
      <4>1. PICK u \in Thread : call[u] = "wake" /\ call_grp[u] <= g
        BY <3>4 DEF OwedWake
      <4>2. CASE u # t
        BY <2>1, <4>1, <4>2, ApiIsolation DEF OwedWake
      <4>3. CASE u = t
        <5>1. QuitWake(t)
          BY <2>1, <4>1, <4>3 DEF CallStart, CallStep, SendCall, ResumeCall, QuitCall,
             InUserCode, SendCheck, PushAlloc, PushFail, PushQueue, CallPost, ResumeLock, QuitSet
        <5>2. call_grp[t] \in Group /\ g \in Group /\ NumGroup \in Nat
          BY <1>1, GroupAssumption DEF CallTypeOK
        <5>3. CASE call_grp[t] = g
          <6>1. sem' = [sem EXCEPT ![g] = sem[g] + 1]
            BY <5>1, <5>3 DEF QuitWake, Post
          <6> QED BY <1>1, <6>1 DEF MsgqTypeOK
        <5>4. CASE call_grp[t] # g
          <6>1. call_grp[t] + 1 <= g /\ ~LastGroup(call_grp[t])
            BY <4>1, <4>3, <5>2, <5>4 DEF LastGroup, Group
          <6>2. call'[t] = "wake" /\ call_grp'[t] = call_grp[t] + 1
            BY <1>1, <4>1, <4>3, <5>1, <6>1 DEF QuitWake, CallTypeOK
          <6> QED BY <6>1, <6>2 DEF OwedWake
        <5> QED BY <5>3, <5>4
      <4> QED BY <4>2, <4>3
    <3> QED BY <3>2, <3>3, <3>4
  <2> QED BY <2>3, <2>4
<1>5. CASE EafInit
  BY <1>5 DEF EafInit
<1>6. CASE LoadFix \/ LoadStart
  <2>1. pc[g] \in {"pick", "pend"} /\ main_pc = "fix"
    BY <1>6 DEF LoadFix, LoadStart, restMain, ctlVars
  <2> QED BY <2>1, PastStart
<1>7. CASE LoadWake
  <2>1. UNCHANGED <<ctx_state, pc, phase, call, call_grp>> /\ (sem[g] > 0 => sem'[g] > 0)
    BY <1>1, <1>7 DEF LoadWake, Post, MsgqTypeOK, ctlVars, callVars
  <2> QED BY <1>2, <2>1 DEF OwedWake
<1>8. CASE CleanupFree
  BY <1>8 DEF CleanupFree
<1>9. CASE \/ LoadCall \/ CleanupCall \/ LoadWait \/ CleanupGroup
           \/ (\E s \in Service : Register(s)) \/ UNCHANGED vars
  <2>1. UNCHANGED <<ctx_state, pc, phase, sem, call, call_grp>>
    BY <1>9 DEF LoadCall, CleanupCall, LoadWait, CleanupGroup, Register, vars, restMain,
       ctxVars, ctlVars, callVars
  <2> QED BY <1>2, <2>1 DEF OwedWake
<1> QED BY <1>3, <1>4, <1>5, <1>6, <1>7, <1>8, <1>9 DEF Next, MainStep

\* ExitIsNoticed of service.c:870-893: whatever the interleaving of _eaf_exit
\* with the event loops, no group sleeps through the change of state.
THEOREM ExitsAreNoticed == Spec => []ExitIsNoticed
<1>1. Init => ExitIsNoticed
  BY DEF Init, ExitIsNoticed
<1> QED BY <1>1, Invariance, NextExitIsNoticed, PTL DEF Spec

USE DEF Members, InitPc, LoopPc, ExitPc

-----------------------------------------------------------------------------
\* What a step of a working thread leaves alone

\* The control state of the other groups and the context belong to others.
LEMMA GroupFrame ==
    ASSUME IInv, NEW g \in Group, GroupStep(g)
    PROVE  /\ \A h \in Group : h # g => /\ pc'[h] = pc[h] /\ phase'[h] = phase[h]
                                       /\ idx'[h] = idx[h] /\ cur_run'[h] = cur_run[h]
           /\ UNCHANGED <<ctx_state, main_pc, main_grp, main_srv, entry>>
           /\ main_pc # "new" /\ pc[g] \notin {"none", "end"}
<1> USE DEF Jump, At
<1>1. CtlTypeOK
  BY DEF IInv, TypeOK
<1>2. /\ pc = [pc EXCEPT ![g] = pc[g]] /\ phase = [phase EXCEPT ![g] = phase[g]]
      /\ idx = [idx EXCEPT ![g] = idx[g]] /\ cur_run = [cur_run EXCEPT ![g] = cur_run[g]]
  BY <1>1 DEF CtlTypeOK
<1>3. \E p : pc' = [pc EXCEPT ![g] = p]
  BY <1>2
     DEF GroupStep, restCtl, ctxVars, WaitStart, Pend, InitNext, InitDone, OnInitReturn,
     PostReady,
         LoopCheck, IfTeardown, Pick, TryPend, DispatchInit, Dispatch,
         HandleBefore, HandlerReturn, HandlerYield, YieldHookReturn, TeardownNext, TeardownDone,
         GroupExitNext, GroupExitDone, OnExitReturn, DrainNext, Drop, DrainDone
<1>4. \E p : phase' = [phase EXCEPT ![g] = p]
  BY <1>2
     DEF GroupStep, restCtl, ctxVars, WaitStart, Pend, InitNext, InitDone, OnInitReturn,
     PostReady,
         LoopCheck, IfTeardown, Pick, TryPend, DispatchInit, Dispatch,
         HandleBefore, HandlerReturn, HandlerYield, YieldHookReturn, TeardownNext, TeardownDone,
         GroupExitNext, GroupExitDone, OnExitReturn, DrainNext, Drop, DrainDone
<1>5. \E p : idx' = [idx EXCEPT ![g] = p]
  BY <1>2
     DEF GroupStep, restCtl, ctxVars, WaitStart, Pend, InitNext, InitDone, OnInitReturn,
     PostReady,
         LoopCheck, IfTeardown, Pick, TryPend, DispatchInit, Dispatch,
         HandleBefore, HandlerReturn, HandlerYield, YieldHookReturn, TeardownNext, TeardownDone,
         GroupExitNext, GroupExitDone, OnExitReturn, DrainNext, Drop, DrainDone
<1>6. \E p : cur_run' = [cur_run EXCEPT ![g] = p]
  BY <1>2
     DEF GroupStep, restCtl, ctxVars, WaitStart, Pend, InitNext, InitDone, OnInitReturn,
     PostReady,
         LoopCheck, IfTeardown, Pick, TryPend, DispatchInit, Dispatch,
         HandleBefore, HandlerReturn, HandlerYield, YieldHookReturn, TeardownNext, TeardownDone,
         GroupExitNext, GroupExitDone, OnExitReturn, DrainNext, Drop, DrainDone
<1>7. UNCHANGED <<ctx_state, main_pc, main_grp, main_srv, entry>>
  BY DEF GroupStep, restCtl, ctxVars, WaitStart, Pend, InitNext, InitDone, OnInitReturn,
     PostReady,
         LoopCheck, IfTeardown, Pick, TryPend, DispatchInit, Dispatch,
         HandleBefore, HandlerReturn, HandlerYield, YieldHookReturn, TeardownNext, TeardownDone,
         GroupExitNext, GroupExitDone, OnExitReturn, DrainNext, Drop, DrainDone
<1>8. pc[g] \notin {"none", "end"}
  BY DEF GroupStep, restCtl, ctxVars, WaitStart, Pend, InitNext, InitDone, OnInitReturn,
     PostReady,
         LoopCheck, IfTeardown, Pick, TryPend, DispatchInit, Dispatch,
         HandleBefore, HandlerReturn, HandlerYield, YieldHookReturn, TeardownNext, TeardownDone,
         GroupExitNext, GroupExitDone, OnExitReturn, DrainNext, Drop, DrainDone
<1>9. main_pc # "new"
  BY <1>8 DEF IInv, MainInv
<1> QED BY <1>1, <1>3, <1>4, <1>5, <1>6, <1>7, <1>8, <1>9 DEF CtlTypeOK

\* A service that moves is the only one that does.
LEMMA StateMoves ==
    ASSUME IInv, main_pc # "new", NEW s \in Service,
           NEW new \in {"init1", "init2", "idle", "busy", "yield", "exit0", "exit1"},
           SetState(s, new)
    PROVE  \A x \in Service : state'[x] = IF x = s THEN new ELSE state[x]
<1>1. ListTypeOK /\ \A g \in Group : GroupLists(g)
  BY DEF IInv, TypeOK, ListsAgree
<1>2. new \in WaitState \cup BusyState
  BY DEF WaitState, BusyState
<1> QED BY <1>1, <1>2, SetStateLists

\* The places of the services in the table of their group.
LEMMA Places ==
    ASSUME NEW g \in Group
    PROVE  /\ Len(Table[g]) \in Nat
           /\ \A i \in 1 .. Len(Table[g]) : Table[g][i] \in Members(g)
           /\ \A i, j \in 1 .. Len(Table[g]) : Table[g][i] = Table[g][j] => i = j
           /\ \A s \in Members(g) : \E i \in 1 .. Len(Table[g]) : Table[g][i] = s
<1>1. Table[g] \in Seq(Service)
  BY TableAssumption
<1>2. Len(Table[g]) \in Nat
  BY <1>1
<1>3. \A i \in 1 .. Len(Table[g]) : Table[g][i] \in Members(g)
  BY TableProperties
<1>4. ASSUME NEW s \in Members(g)
      PROVE  \E i \in 1 .. Len(Table[g]) : Table[g][i] = s
  <2>1. PICK h \in Group : \E i \in 1 .. Len(Table[h]) : Table[h][i] = s
    BY TableAssumption
  <2>2. GroupOf(s) = h
    BY <2>1, TableProperties
  <2> QED BY <2>1, <2>2
<1>5. \A i, j \in 1 .. Len(Table[g]) : Table[g][i] = Table[g][j] => i = j
  BY TableAssumption
<1> QED BY <1>2, <1>3, <1>4, <1>5

\* The states and messages of the services of other groups do not change.
LEMMA ServiceFrame ==
    ASSUME IInv, NEW g \in Group, GroupStep(g), NEW x \in Service, GroupOf(x) # g
    PROVE  state'[x] = state[x] /\ queue'[x] = queue[x] /\ cur_msg'[x] = cur_msg[x]
<1> USE DEF Jump, At
<1>1. /\ ListTypeOK /\ MsgqTypeOK /\ ThreadInv /\ main_pc # "new"
  BY GroupFrame DEF IInv, TypeOK
<1>2. ASSUME NEW s \in Service, GroupOf(s) = g,
             NEW new \in {"init1", "init2", "idle", "busy", "yield", "exit0", "exit1"},
             SetState(s, new)
      PROVE  state'[x] = state[x]
  BY <1>1, <1>2, StateMoves
<1>3. CASE UNCHANGED <<state, queue, cur_msg>>
  BY <1>3
<1>4. CASE OnInitReturn(g) \/ Dispatch(g) \/ HandlerYield(g) \/ HandleBefore(g) \/ HandlerReturn(g)
  <2>1. cur_run[g] \in Service /\ GroupOf(cur_run[g]) = g
    BY <1>1, <1>4 DEF OnInitReturn, Dispatch, HandlerYield, HandleBefore, HandlerReturn, ThreadInv
  <2>2. state'[x] = state[x]
    <3>1. CASE UNCHANGED state
      BY <3>1
    <3>2. CASE ~UNCHANGED state
      <4>1. PICK new \in {"idle", "busy", "yield"} : SetState(cur_run[g], new)
        BY <1>4, <3>2 DEF OnInitReturn, Initialised, Dispatch, HandlerYield, HandleBefore,
           HandlerReturn,
           listVars
      <4> QED BY <1>2, <2>1, <4>1
    <3> QED BY <3>1, <3>2
  <2>3. queue'[x] = queue[x] /\ cur_msg'[x] = cur_msg[x]
    <3>1. /\ queue' = queue \/ \E q : queue' = [queue EXCEPT ![cur_run[g]] = q]
          /\ cur_msg' = cur_msg \/ \E m : cur_msg' = [cur_msg EXCEPT ![cur_run[g]] = m]
      BY <1>4 DEF OnInitReturn, Dispatch, HandlerYield, HandleBefore, HandlerReturn, Reset,
         msgqVars
    <3> QED BY <1>1, <2>1, <3>1 DEF MsgqTypeOK
  <2> QED BY <2>2, <2>3
<1>5. CASE TeardownNext(g) \/ GroupExitNext(g) \/ OnExitReturn(g) \/ DrainDone(g) \/ DrainNext(g)
           \/ Drop(g)
  <2> DEFINE s == Table[g][idx[g]]
  <2>1. s \in Service /\ GroupOf(s) = g
    BY <1>5, GroupFacts DEF TeardownNext, GroupExitNext, OnExitReturn, DrainDone, DrainNext, Drop
  <2>2. state'[x] = state[x]
    <3>1. CASE UNCHANGED state
      BY <3>1
    <3>2. CASE ~UNCHANGED state
      <4>1. PICK new \in {"exit0", "exit1"} : SetState(s, new)
        BY <1>5, <3>2 DEF TeardownNext, GroupExitNext, OnExitReturn, DrainDone, DrainNext, Drop,
           listVars
      <4> QED BY <1>2, <2>1, <4>1
    <3> QED BY <3>1, <3>2
  <2>3. queue'[x] = queue[x] /\ cur_msg'[x] = cur_msg[x]
    <3>1. /\ queue' = queue \/ \E q : queue' = [queue EXCEPT ![s] = q]
          /\ cur_msg' = cur_msg \/ \E m : cur_msg' = [cur_msg EXCEPT ![s] = m]
      <4>1. queue' = queue \/ \E q : queue' = [queue EXCEPT ![s] = q]
        BY <1>5 DEF TeardownNext, GroupExitNext, OnExitReturn, DrainDone, DrainNext, Drop,
           msgqVars
      <4>2. cur_msg' = cur_msg \/ \E m : cur_msg' = [cur_msg EXCEPT ![s] = m]
        BY <1>5 DEF TeardownNext, GroupExitNext, OnExitReturn, DrainDone, DrainNext, Drop, Reset,
                    msgqVars
      <4> QED BY <4>1, <4>2
    <3> HIDE DEF s
    <3> QED BY <1>1, <2>1, <3>1 DEF MsgqTypeOK
  <2> QED BY <2>2, <2>3
<1>6. CASE \/ WaitStart(g) \/ Pend(g) \/ InitNext(g) \/ InitDone(g) \/ PostReady(g)
           \/ LoopCheck(g) \/ IfTeardown(g) \/ Pick(g) \/ TryPend(g) \/ DispatchInit(g)
           \/ YieldHookReturn(g) \/ TeardownDone(g) \/ GroupExitDone(g)
  BY <1>3, <1>6
     DEF restCtl, listVars, msgqVars, WaitStart, Pend, InitNext, InitDone, PostReady, LoopCheck,
         IfTeardown, Pick, TryPend, DispatchInit, YieldHookReturn, TeardownDone, GroupExitDone
<1> QED BY <1>4, <1>5, <1>6 DEF GroupStep

-----------------------------------------------------------------------------
\* A step of a working thread keeps the invariant of its own group: first the
\* steps that leave the states and the messages of its services alone.

LEMMA ControlSteps ==
    ASSUME IInv, NEW g \in Group, GroupInv(g),
           pc[g] \notin {"none", "start", "startpend", "end"} => AllFixed,
           \/ WaitStart(g) \/ Pend(g) \/ InitNext(g) \/ InitDone(g) \/ PostReady(g)
           \/ LoopCheck(g) \/ IfTeardown(g) \/ Pick(g) \/ TryPend(g) \/ DispatchInit(g)
           \/ YieldHookReturn(g) \/ TeardownDone(g) \/ GroupExitDone(g)
    PROVE  GroupInv(g)'
<1> USE DEF Jump, At
<1>0. CtlTypeOK /\ ThreadInv
  BY DEF IInv, TypeOK
<1>1. UNCHANGED <<state, queue, cur_msg, entry>>
  BY DEF WaitStart, Pend, InitNext, InitDone, PostReady, LoopCheck, IfTeardown, Pick, TryPend,
         DispatchInit, YieldHookReturn, TeardownDone, GroupExitDone, restCtl, listVars, msgqVars,
         ctxVars
<1>2. CASE WaitStart(g)
  <2>1. /\ pc[g] = "start" /\ pc'[g] \in {"startpend", "init", "end"}
        /\ phase'[g] = phase[g] /\ idx'[g] = idx[g] /\ cur_run'[g] = cur_run[g]
    BY <1>0, <1>2 DEF WaitStart, CtlTypeOK
  <2>2. idx[g] = 1 /\ phase[g] = "init"
    BY <2>1 DEF GroupInv, PhaseOK
  <2> QED BY <1>1, <2>1, <2>2 DEF GroupInv, PhaseOK, RunOK, ServiceOK, WalkOK
<1>3. CASE Pend(g)
  <2>1. /\ \/ pc[g] = "startpend" /\ pc'[g] = "start"
           \/ pc[g] = "pend" /\ pc'[g] = "loop"
        /\ phase'[g] = phase[g] /\ idx'[g] = idx[g] /\ cur_run'[g] = cur_run[g]
    BY <1>0, <1>3 DEF Pend, CtlTypeOK
  <2> QED BY <1>1, <2>1 DEF GroupInv, PhaseOK, RunOK, ServiceOK, WalkOK
<1>4. CASE InitNext(g)
  <2> DEFINE s == Table[g][idx[g]]
  <2>1. /\ pc[g] = "init" /\ idx[g] <= Len(Table[g]) /\ phase'[g] = phase[g]
        /\ cur_run'[g] = s
    BY <1>0, <1>4 DEF InitNext, CtlTypeOK
  <2>2. CASE state[s] = "init1"
    <3>1. pc'[g] = "oninit" /\ idx'[g] = idx[g]
      BY <1>0, <1>4, <2>2 DEF InitNext, CtlTypeOK
    <3> QED BY <1>1, <2>1, <2>2, <3>1 DEF GroupInv, PhaseOK, RunOK, ServiceOK, WalkOK
  <2>3. CASE state[s] # "init1"
    <3>1. pc'[g] = "init" /\ idx'[g] = idx[g] + 1
      BY <1>0, <1>4, <2>1, <2>3 DEF InitNext, CtlTypeOK
    <3>2. idx[g] \in Nat /\ s \in Service
      BY <1>0, <2>1, GroupFacts DEF CtlTypeOK
    <3>3. state[s] # "init0"
      BY <2>1, <3>2 DEF AllFixed, Fixed
    <3>4. \A i \in 1 .. Len(Table[g]) : i < idx'[g] => i < idx[g] \/ i = idx[g]
      BY <3>1, <3>2
    <3> QED BY <1>1, <2>1, <2>3, <3>1, <3>3, <3>4 DEF GroupInv, PhaseOK, RunOK, ServiceOK, WalkOK
  <2> QED BY <2>2, <2>3
<1>5. CASE InitDone(g)
  <2>1. /\ pc[g] = "init" /\ pc'[g] = "ready" /\ idx[g] > Len(Table[g])
        /\ phase'[g] = phase[g] /\ idx'[g] = idx[g] /\ cur_run'[g] = cur_run[g]
    BY <1>0, <1>5 DEF InitDone, CtlTypeOK
  <2>2. ASSUME NEW s \in Members(g), s \in entry \ Lazy
        PROVE  state[s] \notin {"init0", "init1"}
    <3>1. PICK i \in 1 .. Len(Table[g]) : Table[g][i] = s
      BY Places
    <3>2. i < idx[g]
      BY <1>0, <2>1, Places DEF CtlTypeOK
    <3>3. phase[g] = "init"
      BY <2>1 DEF GroupInv, PhaseOK
    <3> QED BY <2>1, <2>2, <3>1, <3>2, <3>3 DEF GroupInv, WalkOK
  <2> QED BY <1>1, <2>1, <2>2 DEF GroupInv, PhaseOK, RunOK, ServiceOK, WalkOK
<1>6. CASE PostReady(g)
  <2>1. /\ pc[g] = "ready" /\ pc'[g] \in {"loop", "end"} /\ phase'[g] = "busy"
        /\ idx'[g] = idx[g] /\ cur_run'[g] = cur_run[g]
    BY <1>0, <1>6 DEF PostReady, CtlTypeOK
  <2> QED BY <1>1, <2>1 DEF GroupInv, PhaseOK, RunOK, ServiceOK, WalkOK
<1>7. CASE LoopCheck(g)
  <2>1. pc[g] = "loop" /\ cur_run'[g] = cur_run[g]
    BY <1>7 DEF LoopCheck
  <2>2. CASE ctx_state # phase[g] /\ phase[g] # "busy"
    <3>1. pc'[g] = "groupexit" /\ phase'[g] = "exit" /\ idx'[g] = Len(Table[g])
      BY <1>0, <1>7, <2>2 DEF LoopCheck, CtlTypeOK
    <3> QED BY <1>1, <2>1, <3>1, Places DEF GroupInv, PhaseOK, RunOK, ServiceOK, WalkOK
  <2>3. CASE ctx_state = phase[g] \/ phase[g] = "busy"
    <3>1. /\ phase'[g] = phase[g] /\ idx'[g] = idx[g]
          /\ pc'[g] = "pick" \/ (pc'[g] = "ifteardown" /\ phase[g] = "busy")
      BY <1>0, <1>7, <2>3 DEF LoopCheck, CtlTypeOK
    <3> QED BY <1>1, <2>1, <3>1 DEF GroupInv, PhaseOK, RunOK, ServiceOK, WalkOK
  <2> QED BY <2>2, <2>3
<1>8. CASE IfTeardown(g)
  <2>1. pc[g] = "ifteardown" /\ cur_run'[g] = cur_run[g]
    BY <1>8 DEF IfTeardown
  <2>2. CASE ctx_state = "teardown"
    <3>1. pc'[g] = "teardown" /\ phase'[g] = "drain" /\ idx'[g] = 1
      BY <1>0, <1>8, <2>2 DEF IfTeardown, CtlTypeOK
    <3> QED BY <1>1, <2>1, <3>1, Places DEF GroupInv, PhaseOK, RunOK, ServiceOK, WalkOK
  <2>3. CASE ctx_state # "teardown"
    <3>1. pc'[g] = "loop" /\ phase'[g] = "teardown" /\ idx'[g] = idx[g]
      BY <1>0, <1>8, <2>3 DEF IfTeardown, CtlTypeOK
    <3> QED BY <1>1, <2>1, <3>1 DEF GroupInv, PhaseOK, RunOK, ServiceOK, WalkOK
  <2> QED BY <2>2, <2>3
<1>9. CASE Pick(g)
  <2>1. pc[g] = "pick" /\ phase'[g] = phase[g] /\ idx'[g] = idx[g]
    BY <1>9 DEF Pick
  <2>2. CASE busy_list[g] = <<>>
    <3>1. pc'[g] = "pend" /\ cur_run'[g] = cur_run[g]
      BY <1>0, <1>9, <2>2 DEF Pick, CtlTypeOK
    <3> QED BY <1>1, <2>1, <3>1 DEF GroupInv, PhaseOK, RunOK, ServiceOK, WalkOK
  <2>3. CASE busy_list[g] # <<>>
    <3>1. pc'[g] = "try" /\ cur_run'[g] = Head(busy_list[g])
      BY <1>0, <1>9, <2>3 DEF Pick, CtlTypeOK
    <3>2. Head(busy_list[g]) \in Members(g) /\ state[Head(busy_list[g])] \in BusyState
      <4>1. main_pc # "new"
        BY <2>1, PastStart
      <4>2. /\ busy_list[g] \in Seq(Service)
            /\ ToSet(busy_list[g]) =
                  {s \in Service : GroupOf(s) = g /\ state[s] \in BusyState}
        BY <4>1 DEF IInv, TypeOK, ListTypeOK, ListsAgree, GroupLists
      <4>3. Head(busy_list[g]) \in ToSet(busy_list[g])
        BY <2>3, <4>2 DEF ToSet
      <4> QED BY <4>2, <4>3
    <3>3. state[Head(busy_list[g])] \in {"init1", "busy"}
      BY <2>1, <3>2 DEF GroupInv, ServiceOK, BusyState
    <3> QED BY <1>1, <2>1, <3>1, <3>3 DEF GroupInv, PhaseOK, RunOK, ServiceOK, WalkOK
  <2> QED BY <2>2, <2>3
<1>10. CASE TryPend(g)
  <2>1. /\ pc[g] = "try" /\ pc'[g] = "dispatch"
        /\ phase'[g] = phase[g] /\ idx'[g] = idx[g] /\ cur_run'[g] = cur_run[g]
    BY <1>0, <1>10 DEF TryPend, CtlTypeOK
  <2> QED BY <1>1, <2>1 DEF GroupInv, PhaseOK, RunOK, ServiceOK, WalkOK
<1>11. CASE DispatchInit(g)
  <2>1. /\ pc[g] = "dispatch" /\ pc'[g] = "oninit" /\ state[cur_run[g]] = "init1"
        /\ phase'[g] = phase[g] /\ idx'[g] = idx[g] /\ cur_run'[g] = cur_run[g]
    BY <1>0, <1>11 DEF DispatchInit, CtlTypeOK
  <2> QED BY <1>1, <2>1 DEF GroupInv, PhaseOK, RunOK, ServiceOK, WalkOK
<1>12. CASE YieldHookReturn(g)
  <2>1. /\ pc[g] = "yieldhook" /\ pc'[g] = "loop"
        /\ phase'[g] = phase[g] /\ idx'[g] = idx[g] /\ cur_run'[g] = cur_run[g]
    BY <1>0, <1>12 DEF YieldHookReturn, CtlTypeOK
  <2> QED BY <1>1, <2>1 DEF GroupInv, PhaseOK, RunOK, ServiceOK, WalkOK
<1>13. CASE TeardownDone(g)
  <2>1. /\ pc[g] = "teardown" /\ pc'[g] = "loop" /\ phase'[g] = "teardown"
        /\ idx'[g] = idx[g] /\ cur_run'[g] = cur_run[g]
    BY <1>0, <1>13 DEF TeardownDone, CtlTypeOK
  <2> QED BY <1>1, <2>1 DEF GroupInv, PhaseOK, RunOK, ServiceOK, WalkOK
<1>14. CASE GroupExitDone(g)
  <2>1. /\ pc[g] = "groupexit" /\ pc'[g] = "end" /\ idx[g] = 0
        /\ phase'[g] = phase[g] /\ idx'[g] = idx[g] /\ cur_run'[g] = cur_run[g]
    BY <1>0, <1>14 DEF GroupExitDone, CtlTypeOK
  <2>2. \A s \in Members(g) : state[s] = "exit1"
    BY <2>1, Places DEF GroupInv, PhaseOK, WalkOK
  <2> QED BY <1>1, <2>1, <2>2 DEF GroupInv, PhaseOK, RunOK, ServiceOK, WalkOK
<1> QED BY <1>2, <1>3, <1>4, <1>5, <1>6, <1>7, <1>8, <1>9, <1>10, <1>11, <1>12, <1>13, <1>14

\* The steps of a service that is initialised or handles a message.
LEMMA HandlingSteps ==
    ASSUME IInv, NEW g \in Group, GroupInv(g), AllFixed,
           \/ OnInitReturn(g) \/ Dispatch(g) \/ HandleBefore(g) \/ HandlerReturn(g)
           \/ HandlerYield(g)
    PROVE  GroupInv(g)'
<1> USE DEF Jump, At
<1> DEFINE s == cur_run[g]
<1>1. CtlTypeOK /\ MsgqTypeOK
  BY DEF IInv, TypeOK
<1>2. /\ s \in Members(g) /\ s \in Service /\ main_pc # "new"
      /\ pc[g] \in {"oninit", "dispatch", "handle", "run"}
      /\ phase'[g] = phase[g] /\ cur_run'[g] = s /\ entry' = entry
  <2>1. pc[g] \in {"oninit", "dispatch", "handle", "run"} /\ UNCHANGED <<phase, cur_run, entry>>
    BY DEF OnInitReturn, Dispatch, HandleBefore, HandlerReturn, HandlerYield, ctxVars
  <2>2. main_pc # "new"
    BY <2>1, PastStart
  <2> QED BY <2>1, <2>2 DEF IInv, ThreadInv
<1>3. ASSUME NEW new \in {"idle", "busy", "yield"}, SetState(s, new)
      PROVE  \A x \in Service : state'[x] = IF x = s THEN new ELSE state[x]
  BY <1>2, <1>3, StateMoves
<1> HIDE DEF s
<1>4. CASE OnInitReturn(g)
  <2>1. /\ pc[g] = "oninit" /\ UNCHANGED <<queue, cur_msg>>
        /\ SetState(s, Initialised(s))
    BY <1>4 DEF OnInitReturn, msgqVars, s
  <2>2. \A x \in Service : state'[x] = IF x = s THEN Initialised(s) ELSE state[x]
    BY <1>3, <2>1 DEF Initialised
  <2>3. state[s] = "init1" /\ cur_msg[s] = NoMsg
    BY <1>2, <2>1 DEF GroupInv, RunOK, ServiceOK, s
  <2>4. CASE phase[g] = "init"
    <3>1. pc'[g] = "init" /\ idx'[g] = idx[g] + 1 /\ idx[g] \in Nat
      BY <1>1, <1>4, <2>4 DEF OnInitReturn, CtlTypeOK
    <3>2. s = Table[g][idx[g]]
      BY <2>1, <2>4 DEF GroupInv, PhaseOK, s
    <3>3. \A i \in 1 .. Len(Table[g]) : i < idx'[g] => i < idx[g] \/ i = idx[g]
      BY <3>1
    <3>4. \A i \in 1 .. Len(Table[g]) : Table[g][i] \in Service
      BY Places
    <3> QED BY <1>2, <2>1, <2>2, <2>3, <2>4, <3>1, <3>2, <3>3, <3>4 DEF GroupInv, PhaseOK, RunOK,
       ServiceOK, WalkOK, Initialised
  <2>5. CASE phase[g] # "init"
    <3>1. pc'[g] = "dispatch" /\ idx'[g] = idx[g]
      BY <1>1, <1>4, <2>5 DEF OnInitReturn, CtlTypeOK
    <3>2. s \in Lazy
      <4>1. s \in entry
        BY <1>2, <2>3 DEF AllFixed, Fixed
      <4> QED BY <1>2, <2>3, <2>5, <4>1 DEF GroupInv, ServiceOK
    <3>3. queue[s] # <<>>
      BY <1>2, <2>1, <2>3, <3>2 DEF GroupInv, ServiceOK
    <3>4. Initialised(s) = "busy"
      BY <3>3 DEF Initialised
    <3>5. \A i \in 1 .. Len(Table[g]) : Table[g][i] \in Service
      BY Places
    <3> QED BY <1>2, <2>1, <2>2, <2>3, <2>5, <3>1, <3>4, <3>5 DEF GroupInv, PhaseOK, RunOK,
       ServiceOK, WalkOK
  <2> QED BY <2>4, <2>5
<1>5. CASE Dispatch(g)
  <2>1. /\ pc[g] = "dispatch" /\ state[s] = "busy" /\ idx'[g] = idx[g]
    BY <1>5 DEF Dispatch, GroupInv, RunOK, s
  <2>2. CASE Suspended(s)
    <3>1. pc'[g] = "run" /\ UNCHANGED <<state, queue, cur_msg>>
      BY <1>1, <1>5, <2>2 DEF Dispatch, CtlTypeOK, listVars, msgqVars, s
    <3> QED BY <1>2, <2>1, <2>2, <3>1 DEF GroupInv, PhaseOK, RunOK, ServiceOK, WalkOK, Suspended,
       s
  <2>3. CASE ~Suspended(s) /\ queue[s] = <<>>
    <3>1. pc'[g] = "loop" /\ SetState(s, "idle") /\ UNCHANGED <<queue, cur_msg>>
      BY <1>1, <1>5, <2>3 DEF Dispatch, CtlTypeOK, msgqVars, s
    <3>2. \A x \in Service : state'[x] = IF x = s THEN "idle" ELSE state[x]
      BY <1>3, <3>1
    <3>3. \A i \in 1 .. Len(Table[g]) : Table[g][i] \in Service
      BY Places
    <3> QED BY <1>2, <2>1, <2>3, <3>1, <3>2, <3>3 DEF GroupInv, PhaseOK, RunOK, ServiceOK,
       WalkOK, Suspended
  <2>4. CASE ~Suspended(s) /\ queue[s] # <<>>
    <3>1. /\ pc'[g] = "handle" /\ UNCHANGED state
          /\ cur_msg' = [cur_msg EXCEPT ![s] = Head(queue[s])]
          /\ queue' = [queue EXCEPT ![s] = PopFront(s)]
      BY <1>1, <1>5, <2>4 DEF Dispatch, CtlTypeOK, listVars, s
    <3>2. \A x \in Service : /\ cur_msg'[x] = IF x = s THEN Head(queue[s]) ELSE cur_msg[x]
                             /\ x # s => queue'[x] = queue[x]
      BY <1>1, <1>2, <3>1 DEF MsgqTypeOK
    <3>3. Head(queue[s]) # NoMsg
      BY <1>1, <1>2, <2>4, MessageAssumption DEF MsgqTypeOK
    <3> QED BY <1>2, <2>1, <3>1, <3>2, <3>3 DEF GroupInv, PhaseOK, RunOK, ServiceOK, WalkOK, s
  <2> QED BY <2>2, <2>3, <2>4
<1>6. CASE HandleBefore(g) \/ HandlerReturn(g)
  <2>1. /\ pc[g] \in {"handle", "run"} /\ state[s] = "busy" /\ idx'[g] = idx[g]
        /\ UNCHANGED <<state, queue>>
    BY <1>6 DEF HandleBefore, HandlerReturn, listVars, GroupInv, RunOK, s
  <2>2. CASE UNCHANGED cur_msg /\ pc'[g] = "run"
    BY <1>2, <2>1, <2>2 DEF GroupInv, PhaseOK, RunOK, ServiceOK, WalkOK, s
  <2>3. CASE ~(UNCHANGED cur_msg /\ pc'[g] = "run")
    <3>1. pc'[g] = "loop" /\ cur_msg' = [cur_msg EXCEPT ![s] = NoMsg]
      BY <1>1, <1>6, <2>3 DEF HandleBefore, HandlerReturn, Reset, CtlTypeOK, s
    <3>2. \A x \in Service : cur_msg'[x] = IF x = s THEN NoMsg ELSE cur_msg[x]
      BY <1>1, <3>1 DEF MsgqTypeOK
    <3> QED BY <1>2, <2>1, <3>1, <3>2 DEF GroupInv, PhaseOK, RunOK, ServiceOK, WalkOK
  <2> QED BY <2>2, <2>3
<1>7. CASE HandlerYield(g)
  <2>1. /\ pc[g] = "run" /\ pc'[g] = "yieldhook" /\ state[s] = "busy" /\ cur_msg[s] # NoMsg
        /\ idx'[g] = idx[g] /\ UNCHANGED <<queue, cur_msg>> /\ SetState(s, "yield")
    BY <1>1, <1>7 DEF HandlerYield, msgqVars, GroupInv, RunOK, CtlTypeOK, s
  <2>2. \A x \in Service : state'[x] = IF x = s THEN "yield" ELSE state[x]
    BY <1>3, <2>1
  <2>3. \A i \in 1 .. Len(Table[g]) : Table[g][i] \in Service
    BY Places
  <2> QED BY <1>2, <2>1, <2>2, <2>3 DEF GroupInv, PhaseOK, RunOK, ServiceOK, WalkOK
<1> QED BY <1>4, <1>5, <1>6, <1>7

\* The steps of a service that exits, in the teardown or in _eaf_group_exit.
LEMMA ExitSteps ==
    ASSUME IInv, NEW g \in Group, GroupInv(g), AllFixed,
           \/ TeardownNext(g) \/ GroupExitNext(g) \/ OnExitReturn(g) \/ DrainNext(g)
           \/ Drop(g) \/ DrainDone(g)
    PROVE  GroupInv(g)'
<1> USE DEF Jump, At
<1> DEFINE s == Table[g][idx[g]]
<1>1. CtlTypeOK /\ MsgqTypeOK
  BY DEF IInv, TypeOK
<1>2. /\ s \in Members(g) /\ s \in Service /\ main_pc # "new" /\ idx[g] \in 1 .. Len(Table[g])
      /\ pc[g] \in {"teardown", "groupexit", "onexit", "drain", "drop"}
      /\ phase'[g] = phase[g] /\ entry' = entry
  <2>1. /\ pc[g] \in {"teardown", "groupexit", "onexit", "drain", "drop"}
        /\ UNCHANGED <<phase, entry>>
        /\ pc[g] = "teardown" => idx[g] <= Len(Table[g])
        /\ pc[g] = "groupexit" => idx[g] > 0
    BY DEF TeardownNext, GroupExitNext, OnExitReturn, DrainNext, Drop, DrainDone, ctxVars
  <2>2. main_pc # "new"
    BY <2>1, PastStart
  <2>3. idx[g] \in Nat /\ idx[g] >= 1 /\ idx[g] <= Len(Table[g])
    BY <1>1, <2>1 DEF IInv, ThreadInv, CtlTypeOK
  <2>4. idx[g] \in 1 .. Len(Table[g])
    BY <2>3, Places
  <2> QED BY <2>1, <2>2, <2>4, Places
<1>3. ASSUME NEW new \in {"exit0", "exit1"}, SetState(s, new)
      PROVE  \A x \in Service : state'[x] = IF x = s THEN new ELSE state[x]
  BY <1>2, <1>3, StateMoves
<1>4. \A i \in 1 .. Len(Table[g]) :
         Table[g][i] \in Service /\ (Table[g][i] = s => i = idx[g])
  BY <1>2, Places
<1>5. \A i \in 1 .. Len(Table[g]) :
         /\ i > idx[g] + 1 \/ i = idx[g] + 1 <=> i > idx[g]
         /\ i > idx[g] - 1 <=> i > idx[g] \/ i = idx[g]
  BY <1>2
<1>6. CASE TeardownNext(g)
  <2>1. /\ pc[g] = "teardown" /\ phase[g] = "drain" /\ cur_run'[g] = cur_run[g]
        /\ UNCHANGED <<queue, cur_msg>>
    BY <1>6 DEF TeardownNext, msgqVars, GroupInv, PhaseOK
  <2>2. CASE s \in Alive \/ s \notin entry
    <3>1. pc'[g] = pc[g] /\ idx'[g] = idx[g] + 1 /\ UNCHANGED state
      BY <1>1, <1>6, <2>2 DEF TeardownNext, CtlTypeOK, listVars
    <3> HIDE DEF s
    <3> QED BY <1>2, <1>5, <2>1, <3>1 DEF GroupInv, PhaseOK, RunOK, ServiceOK, WalkOK
  <2>3. CASE ~(s \in Alive \/ s \notin entry)
    <3>1. pc'[g] = "onexit" /\ idx'[g] = idx[g] /\ SetState(s, "exit0")
      BY <1>1, <1>6, <2>3 DEF TeardownNext, CtlTypeOK
    <3>2. \A x \in Service : state'[x] = IF x = s THEN "exit0" ELSE state[x]
      BY <1>3, <3>1
    <3> QED BY <1>2, <1>4, <2>1, <3>1, <3>2 DEF GroupInv, PhaseOK, RunOK, ServiceOK, WalkOK
  <2> QED BY <2>2, <2>3
<1>7. CASE GroupExitNext(g)
  <2>1. /\ pc[g] = "groupexit" /\ phase[g] = "exit" /\ UNCHANGED <<queue, cur_msg>>
    BY <1>7 DEF GroupExitNext, msgqVars, GroupInv, PhaseOK
  <2>2. CASE Exited(s) \/ s \notin entry
    <3>1. pc'[g] = pc[g] /\ idx'[g] = idx[g] - 1 /\ cur_run'[g] = cur_run[g] /\ UNCHANGED state
      BY <1>1, <1>7, <2>2 DEF GroupExitNext, CtlTypeOK, listVars
    <3>2. state[s] = "exit1"
      BY <1>2, <2>2 DEF Exited, AllFixed, Fixed
    <3> QED BY <1>2, <1>5, <2>1, <3>1, <3>2 DEF GroupInv, PhaseOK, RunOK, ServiceOK, WalkOK
  <2>3. CASE ~(Exited(s) \/ s \notin entry)
    <3>1. /\ pc'[g] = "onexit" /\ idx'[g] = idx[g] /\ cur_run'[g] = s /\ SetState(s, "exit0")
      BY <1>1, <1>7, <2>3 DEF GroupExitNext, CtlTypeOK
    <3>2. \A x \in Service : state'[x] = IF x = s THEN "exit0" ELSE state[x]
      BY <1>3, <3>1
    <3> QED BY <1>2, <1>4, <2>1, <3>1, <3>2 DEF GroupInv, PhaseOK, RunOK, ServiceOK, WalkOK
  <2> QED BY <2>2, <2>3
<1>8. CASE OnExitReturn(g)
  <2>1. /\ pc[g] = "onexit" /\ phase[g] \in {"drain", "exit"} /\ state[s] = "exit0"
        /\ cur_run'[g] = cur_run[g] /\ UNCHANGED <<queue, cur_msg>>
    BY <1>8 DEF OnExitReturn, msgqVars, GroupInv, PhaseOK, RunOK
  <2>2. CASE phase[g] = "drain"
    <3>1. pc'[g] = "drain" /\ idx'[g] = idx[g] /\ UNCHANGED state
      BY <1>1, <1>8, <2>2 DEF OnExitReturn, CtlTypeOK, listVars
    <3> QED BY <1>2, <2>1, <2>2, <3>1 DEF GroupInv, PhaseOK, RunOK, ServiceOK, WalkOK
  <2>3. CASE phase[g] # "drain"
    <3>1. pc'[g] = "groupexit" /\ idx'[g] = idx[g] - 1 /\ SetState(s, "exit1")
      BY <1>1, <1>8, <2>3 DEF OnExitReturn, CtlTypeOK
    <3>2. \A x \in Service : state'[x] = IF x = s THEN "exit1" ELSE state[x]
      BY <1>3, <3>1
    <3>3. PhaseOK(g)' /\ RunOK(g)'
      BY <1>2, <2>1, <2>3, <3>1 DEF GroupInv, PhaseOK, RunOK
    <3>4. ServiceOK(g)'
      BY <1>2, <2>1, <2>3, <3>1, <3>2 DEF GroupInv, ServiceOK
    <3>5. WalkOK(g)'
      BY <1>2, <1>4, <1>5, <2>1, <2>3, <3>1, <3>2 DEF GroupInv, WalkOK
    <3> QED BY <3>3, <3>4, <3>5 DEF GroupInv
  <2> QED BY <2>2, <2>3
<1>9. CASE DrainNext(g)
  <2> DEFINE m == IF cur_msg[s] # NoMsg THEN cur_msg[s] ELSE Head(queue[s])
  <2>1. /\ pc[g] = "drain" /\ state[s] = "exit0" /\ UNCHANGED state
        /\ pc'[g] = "drop" /\ idx'[g] = idx[g] /\ cur_run'[g] = cur_run[g]
        /\ (cur_msg[s] # NoMsg \/ queue[s] # <<>>) /\ phase[g] = "drain"
    BY <1>1, <1>9 DEF DrainNext, CtlTypeOK, listVars, GroupInv, PhaseOK, RunOK
  <2>2. /\ cur_msg' = [cur_msg EXCEPT ![s] = m]
        /\ queue' = queue \/ queue' = [queue EXCEPT ![s] = PopFront(s)]
    BY <1>9 DEF DrainNext
  <2>3. m # NoMsg
    <3> HIDE DEF s
    <3>1. CASE cur_msg[s] # NoMsg
      BY <3>1
    <3>2. CASE cur_msg[s] = NoMsg
      <4>1. queue[s] \in Seq(Msg) /\ queue[s] # <<>>
        BY <1>1, <1>2, <2>1, <3>2 DEF MsgqTypeOK
      <4>2. Head(queue[s]) \in Msg
        BY <4>1
      <4> QED BY <3>2, <4>2, MessageAssumption
    <3> QED BY <3>1, <3>2
  <2> HIDE DEF m
  <2>4. \A x \in Service : /\ cur_msg'[x] = IF x = s THEN m ELSE cur_msg[x]
                           /\ x # s => queue'[x] = queue[x]
    BY <1>1, <1>2, <2>2 DEF MsgqTypeOK
  <2>5. PhaseOK(g)' /\ RunOK(g)'
    BY <1>2, <2>1, <2>3, <2>4 DEF GroupInv, PhaseOK, RunOK
  <2>6. ServiceOK(g)'
    BY <1>2, <2>1, <2>3, <2>4 DEF GroupInv, ServiceOK
  <2>7. WalkOK(g)'
    BY <1>2, <2>1, <2>3, <2>4 DEF GroupInv, WalkOK
  <2> QED BY <2>5, <2>6, <2>7 DEF GroupInv
<1>10. CASE Drop(g)
  <2>1. /\ pc[g] = "drop" /\ state[s] = "exit0" /\ UNCHANGED <<state, queue>>
        /\ pc'[g] = "drain" /\ idx'[g] = idx[g] /\ cur_run'[g] = cur_run[g]
        /\ cur_msg' = [cur_msg EXCEPT ![s] = NoMsg]
    BY <1>1, <1>10 DEF Drop, Reset, CtlTypeOK, listVars, GroupInv, RunOK
  <2>2. \A x \in Service : cur_msg'[x] = IF x = s THEN NoMsg ELSE cur_msg[x]
    BY <1>1, <2>1 DEF MsgqTypeOK
  <2>3. PhaseOK(g)' /\ RunOK(g)'
    BY <1>2, <2>1, <2>2 DEF GroupInv, PhaseOK, RunOK
  <2>4. ServiceOK(g)'
    BY <1>2, <2>1, <2>2 DEF GroupInv, ServiceOK
  <2>5. WalkOK(g)'
    BY <1>2, <2>1, <2>2 DEF GroupInv, WalkOK
  <2> QED BY <2>3, <2>4, <2>5 DEF GroupInv
<1>11. CASE DrainDone(g)
  <2>1. /\ pc[g] = "drain" /\ phase[g] = "drain" /\ state[s] = "exit0"
        /\ UNCHANGED <<queue, cur_msg>>
        /\ pc'[g] = "teardown" /\ idx'[g] = idx[g] + 1 /\ cur_run'[g] = cur_run[g]
        /\ SetState(s, "exit1")
    BY <1>1, <1>11 DEF DrainDone, CtlTypeOK, msgqVars, GroupInv, PhaseOK, RunOK
  <2>2. \A x \in Service : state'[x] = IF x = s THEN "exit1" ELSE state[x]
    BY <1>3, <2>1
  <2>3. PhaseOK(g)' /\ RunOK(g)'
    BY <1>2, <2>1, <2>2 DEF GroupInv, PhaseOK, RunOK
  <2>4. ServiceOK(g)'
    BY <1>2, <2>1, <2>2 DEF GroupInv, ServiceOK
  <2>5. WalkOK(g)'
    BY <1>2, <1>4, <1>5, <2>1, <2>2 DEF GroupInv, WalkOK
  <2> QED BY <2>3, <2>4, <2>5 DEF GroupInv
<1> QED BY <1>6, <1>7, <1>8, <1>9, <1>10, <1>11

-----------------------------------------------------------------------------
\* The steps of the other threads keep the invariant of a group.

\* The invariant of a group whose thread, services and entry points stay.
LEMMA GroupKept ==
    ASSUME IInv, NEW h \in Group, GroupInv(h),
           pc'[h] = pc[h], phase'[h] = phase[h], idx'[h] = idx[h], cur_run'[h] = cur_run[h],
           entry' = entry,
           \A s \in Members(h) :
              state'[s] = state[s] /\ queue'[s] = queue[s] /\ cur_msg'[s] = cur_msg[s]
    PROVE  GroupInv(h)'
<1>1. PhaseOK(h)'
  BY DEF GroupInv, PhaseOK
<1>2. RunOK(h)'
  <2>1. pc[h] \in {"oninit", "try", "dispatch", "handle", "run", "yieldhook"}
           => cur_run[h] \in Members(h)
    BY DEF IInv, ThreadInv
  <2>2. pc[h] \in ExitPc => Table[h][idx[h]] \in Members(h)
    BY GroupFacts
  <2> QED BY <2>1, <2>2 DEF GroupInv, RunOK
<1>3. ServiceOK(h)'
  BY DEF GroupInv, ServiceOK
<1>4. WalkOK(h)'
  <2>1. \A i \in 1 .. Len(Table[h]) : Table[h][i] \in Members(h)
    BY Places
  <2> QED BY <2>1 DEF GroupInv, WalkOK
<1> QED BY <1>1, <1>2, <1>3, <1>4 DEF GroupInv

\* What a step of an API call changes in the states and messages of the services.
LEMMA ApiFrame ==
    ASSUME IInv, NEW t \in Thread, CallStart(t) \/ CallStep(t)
    PROVE  /\ UNCHANGED <<ready, main_pc, main_grp, main_srv, entry, ctlVars, cur_msg>>
           /\ ~PushQueue(t) => UNCHANGED queue
           /\ ~PushQueue(t) /\ ~ResumeLock(t) => UNCHANGED state
<1> USE DEF CallStart, CallStep, SendCall, ResumeCall, QuitCall, SendCheck, PushAlloc, PushFail,
            PushQueue, CallPost, ResumeLock, QuitSet, QuitWake, StartSend, SendFails, restApi,
            ctxVars, listVars, msgqVars
<1>1. UNCHANGED <<ready, main_pc, main_grp, main_srv, entry>>
  OBVIOUS
<1>2. UNCHANGED <<ctlVars, cur_msg>>
  OBVIOUS
<1>3. ~PushQueue(t) => UNCHANGED queue
  OBVIOUS
<1>4. ~PushQueue(t) /\ ~ResumeLock(t) => UNCHANGED state
  OBVIOUS
<1> QED BY <1>1, <1>2, <1>3, <1>4

\* A message is pushed, and wakes its receiver; a suspended handler is resumed.
LEMMA PushEffect ==
    ASSUME IInv, NEW t \in Thread, PushQueue(t)
    PROVE  /\ call_srv[t] \in Service /\ call_msg[t] \in Msg /\ main_pc # "new"
           /\ \A x \in Service :
                 /\ state'[x] = IF x = call_srv[t] THEN PushedState(x) ELSE state[x]
                 /\ queue'[x] = IF x = call_srv[t] THEN Append(queue[x], call_msg[t]) ELSE queue[x]
           /\ queue'[call_srv[t]] # <<>>
<1> DEFINE s == call_srv[t]
<1>1. s \in Service /\ call_msg[t] \in Msg /\ main_pc # "new"
  BY DEF PushQueue, IInv, CallInv, MainInv
<1>2. /\ IF PushedState(s) = state[s] THEN UNCHANGED listVars ELSE SetState(s, PushedState(s))
      /\ queue' = [queue EXCEPT ![s] = Append(queue[s], call_msg[t])]
  BY DEF PushQueue, Pushed
<1>3. queue \in [Service -> Seq(Msg)]
  BY DEF IInv, TypeOK, MsgqTypeOK
<1> HIDE DEF s
<1>4. \A x \in Service : queue'[x] = IF x = s THEN Append(queue[x], call_msg[t]) ELSE queue[x]
  BY <1>1, <1>2, <1>3
<1>5. Append(queue[s], call_msg[t]) # <<>>
  BY <1>1, <1>3
<1>6. \A x \in Service : state'[x] = IF x = s THEN PushedState(x) ELSE state[x]
  <2>1. CASE PushedState(s) = state[s]
    BY <1>2, <2>1 DEF listVars
  <2>2. CASE PushedState(s) # state[s]
    <3>1. PushedState(s) \in {"init1", "busy"} /\ SetState(s, PushedState(s))
      BY <1>2, <2>2 DEF PushedState
    <3> QED BY <1>1, <3>1, StateMoves
  <2> QED BY <2>1, <2>2
<1> QED BY <1>1, <1>4, <1>5, <1>6 DEF s

LEMMA ResumeEffect ==
    ASSUME IInv, NEW t \in Thread, ResumeLock(t)
    PROVE  /\ call_srv[t] \in Service /\ main_pc # "new" /\ UNCHANGED queue
           /\ \A x \in Service :
                 state'[x] = IF x = call_srv[t] /\ state[x] = "yield" THEN "busy" ELSE state[x]
<1> DEFINE s == call_srv[t]
<1>1. s \in Service /\ main_pc # "new" /\ UNCHANGED queue
  BY DEF ResumeLock, IInv, CallInv, MainInv, msgqVars
<1>2. CASE state[s] = "yield"
  <2>1. SetState(s, "busy")
    BY <1>2 DEF ResumeLock, Resumable
  <2> QED BY <1>1, <1>2, <2>1, StateMoves
<1>3. CASE state[s] # "yield"
  BY <1>1, <1>3 DEF ResumeLock, Resumable, listVars
<1> QED BY <1>2, <1>3

LEMMA ApiGroupInv ==
    ASSUME IInv, NEW t \in Thread, CallStart(t) \/ CallStep(t),
           call[t] = "push" => AllFixed, NEW h \in Group, GroupInv(h)
    PROVE  GroupInv(h)'
<1> DEFINE s == call_srv[t]
<1>1. /\ UNCHANGED <<entry, cur_msg>>
      /\ pc'[h] = pc[h] /\ phase'[h] = phase[h] /\ idx'[h] = idx[h] /\ cur_run'[h] = cur_run[h]
  BY ApiFrame DEF ctlVars
<1>2. \A i \in 1 .. Len(Table[h]) : Table[h][i] \in Service
  BY Places
<1>3. /\ pc[h] \in {"oninit", "try", "dispatch", "handle", "run", "yieldhook"}
            => cur_run[h] \in Service
      /\ pc[h] \in ExitPc => Table[h][idx[h]] \in Service
  BY GroupFacts DEF IInv, ThreadInv
<1>4. CASE PushQueue(t)
  <2>1. /\ s \in Service /\ AllFixed /\ queue'[s] # <<>>
        /\ \A x \in Service : /\ state'[x] = IF x = s THEN PushedState(x) ELSE state[x]
                              /\ x # s => queue'[x] = queue[x]
    <3>1. call[t] = "push"
      BY <1>4 DEF PushQueue
    <3> QED BY <1>4, <3>1, PushEffect
  <2> HIDE DEF s
  <2>2. /\ state'[s] = state[s] \/ state[s] \in {"init2", "idle"}
        /\ state[s] = "init2" => state'[s] = "init1" /\ s \notin entry \ Lazy
        /\ state[s] = "idle" => state'[s] = "busy"
        /\ state'[s] \notin {"init0", "init2", "idle"}
    BY <2>1 DEF PushedState, AllFixed, Fixed
  <2>3. PhaseOK(h)'
    BY <1>1 DEF GroupInv, PhaseOK
  <2>4. RunOK(h)'
    BY <1>1, <1>3, <2>1, <2>2 DEF GroupInv, RunOK
  <2>5. ServiceOK(h)'
    BY <1>1, <2>1, <2>2 DEF GroupInv, ServiceOK
  <2>6. WalkOK(h)'
    BY <1>1, <1>2, <2>1, <2>2 DEF GroupInv, WalkOK
  <2> QED BY <2>3, <2>4, <2>5, <2>6 DEF GroupInv
<1>5. CASE ResumeLock(t)
  <2>1. /\ UNCHANGED queue
        /\ \A x \in Service :
              state'[x] = IF x = s /\ state[x] = "yield" THEN "busy" ELSE state[x]
    BY <1>5, ResumeEffect
  <2> HIDE DEF s
  <2>3. PhaseOK(h)'
    BY <1>1 DEF GroupInv, PhaseOK
  <2>4. RunOK(h)'
    BY <1>1, <1>3, <2>1 DEF GroupInv, RunOK
  <2>5. ServiceOK(h)'
    BY <1>1, <2>1 DEF GroupInv, ServiceOK
  <2>6. WalkOK(h)'
    BY <1>1, <1>2, <2>1 DEF GroupInv, WalkOK
  <2> QED BY <2>3, <2>4, <2>5, <2>6 DEF GroupInv
<1>6. CASE ~PushQueue(t) /\ ~ResumeLock(t)
  BY <1>1, <1>6, ApiFrame, GroupKept
<1> QED BY <1>4, <1>5, <1>6

\* What the steps of Main change.
LEMMA MainFrame ==
    ASSUME \/ EafInit \/ LoadCall \/ CleanupCall \/ LoadStart \/ LoadWake \/ LoadWait
           \/ CleanupFree \/ \E s \in Service : Register(s)
    PROVE  UNCHANGED <<state, queue, cur_msg, phase, idx, cur_run, callVars, msgVars>>
BY DEF EafInit, LoadCall, CleanupCall, LoadStart, LoadWake, LoadWait, CleanupFree, Register,
       restMain, listVars, msgqVars, ctlVars

\* _eaf_load_fix_state gives the next service its first state.
LEMMA LoadFixEffect ==
    ASSUME IInv, FixInv, LoadFix
    PROVE  /\ main_pc = "fix" /\ main_grp \in Group /\ main_srv \in Nat \ {0}
           /\ UNCHANGED <<ctx_state, ready, main_pc, entry, msgqVars, ctlVars, callVars, msgVars>>
           /\ \/ /\ main_srv > Len(Table[main_grp])
                 /\ UNCHANGED state /\ main_grp' = main_grp + 1 /\ main_srv' = 1
              \/ /\ main_srv \in 1 .. Len(Table[main_grp])
                 /\ Table[main_grp][main_srv] \in Service
                 /\ main_grp' = main_grp /\ main_srv' = main_srv + 1
                 /\ state[Table[main_grp][main_srv]] = "init0"
                 /\ \A x \in Service :
                       state'[x] = IF x # Table[main_grp][main_srv] THEN state[x]
                                   ELSE IF x \notin entry THEN "exit1"
                                   ELSE IF x \in Lazy THEN "init2" ELSE "init1"
<1> DEFINE s == Table[main_grp][main_srv]
<1>1. /\ main_pc = "fix" /\ main_grp \in Group /\ main_srv \in Nat \ {0}
      /\ UNCHANGED <<ctx_state, ready, main_pc, entry, msgqVars, ctlVars, callVars, msgVars>>
  BY GroupAssumption DEF LoadFix, IInv, TypeOK, CtxTypeOK, Group
<1>2. CASE main_srv > Len(Table[main_grp])
  BY <1>1, <1>2 DEF LoadFix, listVars
<1>3. CASE ~(main_srv > Len(Table[main_grp]))
  <2>1. main_srv \in 1 .. Len(Table[main_grp])
    BY <1>1, <1>3, Places
  <2>2. s \in Service
    BY <1>1, <2>1, Places
  <2>3. state[s] = "init0"
    BY <1>1, <2>1 DEF FixInv
  <2> DEFINE new == CASE s \notin entry -> "exit1"
                      [] s \in entry \cap Lazy -> "init2"
                      [] OTHER -> "init1"
  <2>4. SetState(s, new) /\ main_grp' = main_grp /\ main_srv' = main_srv + 1
    BY <1>3 DEF LoadFix
  <2>5. new = IF s \notin entry THEN "exit1" ELSE IF s \in Lazy THEN "init2" ELSE "init1"
    OBVIOUS
  <2> HIDE DEF s, new
  <2>6. \A x \in Service : state'[x] = IF x = s THEN new ELSE state[x]
    BY <1>1, <2>2, <2>4, <2>5, StateMoves
  <2>7. ASSUME NEW x \in Service
        PROVE  state'[x] = IF x # s THEN state[x]
                           ELSE IF x \notin entry THEN "exit1"
                           ELSE IF x \in Lazy THEN "init2" ELSE "init1"
    BY <2>5, <2>6
  <2>8. /\ main_srv \in 1 .. Len(Table[main_grp]) /\ s \in Service /\ state[s] = "init0"
        /\ main_grp' = main_grp /\ main_srv' = main_srv + 1
        /\ \A x \in Service : state'[x] = IF x # s THEN state[x]
                                         ELSE IF x \notin entry THEN "exit1"
                                         ELSE IF x \in Lazy THEN "init2" ELSE "init1"
    BY <2>1, <2>2, <2>3, <2>4, <2>7
  <2> QED BY <1>1, <2>8, Zenon DEF s
<1> QED BY <1>1, <1>2, <1>3

LEMMA MainGroupInv ==
    ASSUME IInv, FixInv, NEW h \in Group, GroupInv(h),
           \/ EafInit \/ LoadCall \/ CleanupCall \/ MainStep \/ \E s \in Service : Register(s)
    PROVE  GroupInv(h)'
<1>1. CASE LoadCall \/ CleanupCall \/ LoadStart \/ LoadWake \/ LoadWait \/ CleanupFree
  <2>1. UNCHANGED <<entry, pc>>
    BY <1>1 DEF LoadCall, CleanupCall, LoadStart, LoadWake, LoadWait, CleanupFree, restMain,
       ctlVars
  <2> QED BY <1>1, <2>1, MainFrame, GroupKept
<1>2. CASE EafInit
  <2>1. /\ main_pc = "new" /\ pc'[h] = "start" /\ UNCHANGED entry
    BY <1>2 DEF EafInit, MainAt
  <2>2. pc[h] = "none" /\ phase[h] = "init"
    BY <2>1 DEF IInv, MainInv, FixInv, Before
  <2> QED BY <1>2, <2>1, <2>2, MainFrame DEF GroupInv, PhaseOK, RunOK, ServiceOK, WalkOK
<1>3. CASE \E s \in Service : Register(s)
  <2>1. main_pc = "boot" /\ UNCHANGED pc
    BY <1>3 DEF Register, MainAt, restMain, ctlVars
  <2>2. /\ pc[h] \in {"none", "start", "startpend", "end"} /\ phase[h] = "init"
        /\ \A s \in Service : state[s] = "init0"
    BY <2>1 DEF IInv, MainInv, FixInv, Before
  <2> QED BY <1>3, <2>1, <2>2, MainFrame DEF GroupInv, PhaseOK, RunOK, ServiceOK, WalkOK
<1>4. CASE LoadFix
  <2>1. /\ main_pc = "fix" /\ UNCHANGED <<entry, queue, cur_msg>>
        /\ UNCHANGED <<pc, phase, idx, cur_run>>
    BY <1>4, LoadFixEffect DEF msgqVars, ctlVars
  <2>2. /\ pc[h] \in {"none", "start", "startpend", "end"} /\ phase[h] = "init"
        /\ \A s \in Service : cur_msg[s] = NoMsg /\ queue[s] = <<>>
    BY <2>1 DEF IInv, MainInv, FixInv, Before
  <2>3. \A s \in Service :
           \/ state'[s] = state[s]
           \/ s \notin entry /\ state'[s] = "exit1"
           \/ s \in Lazy /\ state'[s] = "init2"
           \/ s \notin Lazy /\ state'[s] = "init1"
    BY <1>4, LoadFixEffect
  <2> QED BY <2>1, <2>2, <2>3 DEF GroupInv, PhaseOK, RunOK, ServiceOK, WalkOK
<1>5. CASE CleanupGroup
  <2>1. /\ main_pc = "join" /\ main_grp \in Group /\ pc[main_grp] = "end"
        /\ UNCHANGED <<entry, state>> /\ UNCHANGED <<pc, phase, idx, cur_run>>
        /\ \A s \in Service :
              /\ queue'[s] = IF GroupOf(s) = main_grp THEN <<>> ELSE queue[s]
              /\ cur_msg'[s] = IF GroupOf(s) = main_grp THEN NoMsg ELSE cur_msg[s]
    BY <1>5 DEF CleanupGroup, IInv, MainInv, ctlVars, listVars
  <2>2. CASE h # main_grp
    <3>1. \A s \in Members(h) : queue'[s] = queue[s] /\ cur_msg'[s] = cur_msg[s]
      BY <2>1, <2>2
    <3> QED BY <2>1, <3>1, GroupKept
  <2>3. CASE h = main_grp
    <3>1. \A i \in 1 .. Len(Table[h]) : Table[h][i] \in Service
      BY Places
    <3>3. PhaseOK(h)' /\ RunOK(h)'
      BY <2>1, <2>3 DEF GroupInv, PhaseOK, RunOK
    <3>4. ServiceOK(h)'
      BY <2>1, <2>3 DEF GroupInv, ServiceOK
    <3>5. WalkOK(h)'
      BY <2>1, <2>3, <3>1 DEF GroupInv, WalkOK
    <3> QED BY <3>3, <3>4, <3>5 DEF GroupInv
  <2> QED BY <2>2, <2>3
<1> QED BY <1>1, <1>2, <1>3, <1>4, <1>5 DEF MainStep

\* A step of one working thread, for all groups.
LEMMA GroupGroupInv ==
    ASSUME IInv, NEW g \in Group, GroupStep(g), \A h \in Group : GroupInv(h), FixInv,
           NEW h \in Group
    PROVE  GroupInv(h)'
<1>1. CASE h = g
  <2>1. pc[g] \notin {"none", "start", "startpend", "end"} => AllFixed
    BY DEF FixInv, Started
  <2>2. CASE \/ WaitStart(g) \/ Pend(g) \/ InitNext(g) \/ InitDone(g) \/ PostReady(g)
             \/ LoopCheck(g) \/ IfTeardown(g) \/ Pick(g) \/ TryPend(g) \/ DispatchInit(g)
             \/ YieldHookReturn(g) \/ TeardownDone(g) \/ GroupExitDone(g)
    BY <1>1, <2>1, <2>2, ControlSteps
  <2>3. CASE \/ OnInitReturn(g) \/ Dispatch(g) \/ HandleBefore(g) \/ HandlerReturn(g)
             \/ HandlerYield(g)
    <3>1. AllFixed
      BY <2>1, <2>3 DEF At, OnInitReturn, Dispatch, HandleBefore, HandlerReturn, HandlerYield
    <3> QED BY <1>1, <2>3, <3>1, HandlingSteps
  <2>4. CASE \/ TeardownNext(g) \/ GroupExitNext(g) \/ OnExitReturn(g) \/ DrainNext(g)
             \/ Drop(g) \/ DrainDone(g)
    <3>1. AllFixed
      BY <2>1, <2>4 DEF At, TeardownNext, GroupExitNext, OnExitReturn, DrainNext, Drop, DrainDone
    <3> QED BY <1>1, <2>4, <3>1, ExitSteps
  <2> QED BY <2>2, <2>3, <2>4 DEF GroupStep
<1>2. CASE h # g
  <2>1. /\ pc'[h] = pc[h] /\ phase'[h] = phase[h] /\ idx'[h] = idx[h] /\ cur_run'[h] = cur_run[h]
        /\ entry' = entry
    BY <1>2, GroupFrame
  <2>2. \A s \in Members(h) :
           state'[s] = state[s] /\ queue'[s] = queue[s] /\ cur_msg'[s] = cur_msg[s]
    BY <1>2, ServiceFrame
  <2> QED BY <2>1, <2>2, GroupKept
<1> QED BY <1>1, <1>2

-----------------------------------------------------------------------------
\* eaf_load has given every service its first state before anything uses one.

\* A working thread moves a service only when it has an entry point, and never
\* back to a state from before its initialisation.
LEMMA GroupMoves ==
    ASSUME IInv, NEW g \in Group, GroupStep(g), GroupInv(g), AllFixed, NEW x \in Service,
           state'[x] # state[x]
    PROVE  state'[x] = "exit1" \/ (x \in entry /\ state'[x] \in {"idle", "busy", "yield", "exit0"})
<1> USE DEF At
<1>1. ThreadInv /\ main_pc # "new" /\ GroupOf(x) = g
  BY GroupFrame, ServiceFrame DEF IInv
<1>2. x \in entry \/ state[x] = "exit1"
  BY DEF AllFixed, Fixed
<1>3. \/ OnInitReturn(g) \/ Dispatch(g) \/ HandlerYield(g) \/ TeardownNext(g)
      \/ GroupExitNext(g) \/ OnExitReturn(g) \/ DrainDone(g)
  BY DEF GroupStep, restCtl, ctxVars, WaitStart, Pend, InitNext, InitDone, OnInitReturn,
     PostReady,
         LoopCheck, IfTeardown, Pick, TryPend, DispatchInit, Dispatch,
         HandleBefore, HandlerReturn, HandlerYield, YieldHookReturn, TeardownNext, TeardownDone,
         GroupExitNext, GroupExitDone, OnExitReturn, DrainNext, Drop, DrainDone, listVars
<1>4. CASE OnInitReturn(g) \/ Dispatch(g) \/ HandlerYield(g)
  <2>1. cur_run[g] \in Service /\ state[cur_run[g]] # "exit1"
    <3>1. pc[g] \in {"oninit", "dispatch", "run"}
      BY <1>4 DEF OnInitReturn, Dispatch, HandlerYield
    <3> QED BY <1>1, <3>1 DEF ThreadInv, GroupInv, RunOK
  <2>2. PICK new \in {"idle", "busy", "yield"} : SetState(cur_run[g], new)
    BY <1>4 DEF OnInitReturn, Initialised, Dispatch, HandlerYield, listVars
  <2>3. state'[x] = IF x = cur_run[g] THEN new ELSE state[x]
    BY <1>1, <2>1, <2>2, StateMoves
  <2> QED BY <1>2, <2>1, <2>3
<1>5. CASE TeardownNext(g) \/ GroupExitNext(g) \/ OnExitReturn(g) \/ DrainDone(g)
  <2> DEFINE s == Table[g][idx[g]]
  <2>1. /\ s \in Service
        /\ \E new \in {"exit0", "exit1"} :
              SetState(s, new) /\ (new = "exit0" => s \in entry)
    BY <1>5, GroupFacts DEF TeardownNext, GroupExitNext, OnExitReturn, DrainDone, listVars
  <2> HIDE DEF s
  <2>2. PICK new \in {"exit0", "exit1"} : SetState(s, new) /\ (new = "exit0" => s \in entry)
    BY <2>1
  <2>3. state'[x] = IF x = s THEN new ELSE state[x]
    BY <1>1, <2>1, <2>2, StateMoves
  <2> QED BY <2>2, <2>3
<1> QED BY <1>3, <1>4, <1>5

\* What is fixed stays fixed, and nothing starts before everything is.
LEMMA FixKept ==
    ASSUME FixInv, UNCHANGED <<main_pc, main_grp, main_srv, entry>>, main_pc \notin Before,
           Started' => Started,
           \A x \in Service : state'[x] # state[x] =>
              \/ state'[x] = "exit1"
              \/ x \in entry /\ state'[x] \in {"init1", "idle", "busy", "yield", "exit0"}
    PROVE  FixInv'
<1>1. AllFixed => AllFixed'
  BY DEF AllFixed, Fixed
<1> QED BY <1>1 DEF FixInv, Before

LEMMA FixStays ==
    ASSUME FixInv, UNCHANGED <<main_pc, main_grp, main_srv, entry, state, queue, cur_msg, phase>>,
           Started' => Started,
           main_pc \in Before => \A t \in Thread : call'[t] \notin {"alloc", "push"}
    PROVE  FixInv'
<1>1. AllFixed' = AllFixed
  BY DEF AllFixed, Fixed
<1>2. \A s : Fixed(s)' = Fixed(s)
  BY DEF Fixed
<1> QED BY <1>1, <1>2 DEF FixInv, Before

\* A working thread begins a call of its own only for a default response.
LEMMA GroupSends ==
    ASSUME IInv, NEW g \in Group, GroupStep(g)
    PROVE  \/ UNCHANGED <<callVars, msgVars>>
           \/ HandleBefore(g) \/ HandlerReturn(g) \/ Drop(g)
           \/ DrainNext(g) /\ \E m \in Msg : StartSend(g, Dflt(m.id))
<1>1. \/ UNCHANGED <<callVars, msgVars>>
      \/ HandleBefore(g) \/ HandlerReturn(g) \/ Drop(g) \/ DrainNext(g)
  BY DEF GroupStep, restCtl, ctxVars, WaitStart, Pend, InitNext, InitDone, OnInitReturn,
     PostReady,
         LoopCheck, IfTeardown, Pick, TryPend, DispatchInit, Dispatch,
         HandleBefore, HandlerReturn, HandlerYield, YieldHookReturn, TeardownNext, TeardownDone,
         GroupExitNext, GroupExitDone, OnExitReturn, DrainNext, Drop, DrainDone
<1>2. ASSUME DrainNext(g), ~UNCHANGED <<callVars, msgVars>>
      PROVE  \E m \in Msg : StartSend(g, Dflt(m.id))
  <2> DEFINE s == Table[g][idx[g]]
  <2>1. PICK m : /\ m = IF cur_msg[s] # NoMsg THEN cur_msg[s] ELSE Head(queue[s])
                 /\ cur_msg[s] # NoMsg \/ queue[s] # <<>>
                 /\ StartSend(g, Dflt(m.id))
    BY <1>2 DEF DrainNext
  <2>2. s \in Service
    BY <1>2, GroupFacts DEF DrainNext, At
  <2> HIDE DEF s
  <2>3. queue[s] \in Seq(Msg) /\ cur_msg[s] \in Msg \cup {NoMsg}
    BY <2>2 DEF IInv, TypeOK, MsgqTypeOK
  <2>4. m \in Msg
    BY <2>1, <2>3
  <2> QED BY <2>1, <2>4
<1> QED BY <1>1, <1>2

LEMMA GroupFixInv ==
    ASSUME IInv, StateInv, NEW g \in Group, GroupStep(g)
    PROVE  FixInv'
<1>1. /\ UNCHANGED <<ctx_state, main_pc, main_grp, main_srv, entry>> /\ pc[g] # "none"
      /\ \A h \in Group : h # g => pc'[h] = pc[h]
  BY GroupFrame
<1>2. ASSUME NEW t \in Thread, call'[t] \in {"alloc", "push"}
      PROVE  call[t] = call'[t]
  <2>1. call' = call \/ call' = [call EXCEPT ![g] = "check"]
    BY GroupSends DEF callVars, StartSend, HandleBefore, HandlerReturn, Drop
  <2>2. call[t] # call'[t] => call'[t] = "check"
    BY <2>1 DEF IInv, TypeOK, CallTypeOK
  <2> QED BY <1>2, <2>2
<1>3. CASE pc[g] \in {"start", "startpend"}
  <2>1. WaitStart(g) \/ Pend(g)
    BY <1>3 DEF GroupStep, restCtl, ctxVars, WaitStart, Pend, InitNext, InitDone, OnInitReturn,
       PostReady,
         LoopCheck, IfTeardown, Pick, TryPend, DispatchInit, Dispatch,
         HandleBefore, HandlerReturn, HandlerYield, YieldHookReturn, TeardownNext, TeardownDone,
         GroupExitNext, GroupExitDone, OnExitReturn, DrainNext, Drop, DrainDone, At
  <2>2. /\ UNCHANGED <<state, queue, cur_msg, phase>>
        /\ pc'[g] \notin {"none", "start", "startpend", "end"} => ctx_state = "busy"
    BY <1>3, <2>1 DEF WaitStart, Pend, Jump, restCtl, listVars, msgqVars, IInv, TypeOK, CtlTypeOK
  <2>3. Started' => Started
    BY <1>1, <1>2, <2>2 DEF Started
  <2>4. main_pc \in Before => \A t \in Thread : call'[t] \notin {"alloc", "push"}
    BY <1>2 DEF StateInv, FixInv
  <2> QED BY <1>1, <2>2, <2>3, <2>4, FixStays DEF StateInv
<1>4. CASE pc[g] \notin {"start", "startpend"}
  <2>1. main_pc \notin Before
    BY <1>1, <1>4, PastStart, GroupFrame DEF Before
  <2>2. Started /\ AllFixed
    BY <1>4, GroupFrame DEF Started, StateInv, FixInv
  <2>3. \A x \in Service : state'[x] # state[x] =>
           \/ state'[x] = "exit1"
           \/ x \in entry /\ state'[x] \in {"idle", "busy", "yield", "exit0"}
    BY <2>2, GroupMoves DEF StateInv
  <2> QED BY <1>1, <2>1, <2>2, <2>3, FixKept DEF StateInv
<1> QED BY <1>3, <1>4

LEMMA ApiFixInv ==
    ASSUME IInv, StateInv, NEW t \in Thread, CallStart(t) \/ CallStep(t)
    PROVE  FixInv'
<1>1. /\ UNCHANGED <<main_pc, main_grp, main_srv, entry, ctlVars, cur_msg>>
      /\ UNCHANGED <<pc, phase>>
  BY ApiFrame DEF ctlVars
<1>2. /\ ctx_state' = "busy" => ctx_state = "busy"
      /\ \A u \in Thread : call'[u] \in {"alloc", "push"} =>
            call[u] \in {"alloc", "push"} \/ ctx_state = "busy"
  <2>1. ctx_state' = "busy" => ctx_state = "busy"
    BY DEF CallStart, CallStep, SendCall, ResumeCall, QuitCall, SendCheck, PushAlloc, PushFail,
            PushQueue, CallPost, ResumeLock, QuitSet, QuitWake, StartSend, SendFails, restApi,
            ctxVars, listVars, msgqVars
  <2>2. /\ \E c : call' = [call EXCEPT ![t] = c]
        /\ \/ call'[t] \notin {"alloc", "push"} \/ call[t] = "alloc" \/ ctx_state = "busy"
    <3>1. call = [call EXCEPT ![t] = call[t]]
      BY DEF IInv, TypeOK, CallTypeOK
    <3>2. \E c : /\ call' = [call EXCEPT ![t] = c]
                 /\ c \notin {"alloc", "push"} \/ call[t] = "alloc" \/ ctx_state = "busy"
      BY <3>1, ThreadAssumption DEF CallStart, CallStep, SendCall, ResumeCall, QuitCall,
         SendCheck, PushAlloc, PushFail,
            PushQueue, CallPost, ResumeLock, QuitSet, QuitWake, StartSend, SendFails, restApi,
            ctxVars, listVars, msgqVars
    <3> QED BY <3>2 DEF IInv, TypeOK, CallTypeOK
  <2> QED BY <2>1, <2>2 DEF IInv, TypeOK, CallTypeOK
<1>3. Started' => Started
  BY <1>1, <1>2 DEF Started
<1>4. FixInv /\ \A g \in Group : GroupInv(g)
  BY DEF StateInv
<1>5. CASE main_pc \in Before
  <2>1. /\ \A u \in Thread : call[u] \notin {"alloc", "push"}
        /\ \A s \in Service : cur_msg[s] = NoMsg
        /\ ctx_state # "busy"
    BY <1>4, <1>5 DEF FixInv, IInv, MainInv, Before
  <2>2. ~PushQueue(t)
    BY <2>1 DEF PushQueue
  <2>3. UNCHANGED state
    <3>1. CASE ResumeLock(t)
      <4>1. call_srv[t] \in Service
        BY <3>1, ResumeEffect
      <4>2. state[call_srv[t]] # "yield"
        BY <1>4, <2>1, <4>1, TableProperties DEF GroupInv, ServiceOK
      <4> QED BY <3>1, <4>2 DEF ResumeLock, Resumable, listVars
    <3> QED BY <2>2, <3>1, ApiFrame
  <2>4. \A u \in Thread : call'[u] \notin {"alloc", "push"}
    BY <1>2, <2>1
  <2> QED BY <1>1, <1>3, <1>4, <2>2, <2>3, <2>4, ApiFrame, FixStays
<1>6. CASE main_pc \notin Before
  <2>1. ASSUME NEW x \in Service, state'[x] # state[x]
        PROVE  x \in entry /\ state'[x] \in {"init1", "busy"}
    <3>1. CASE PushQueue(t)
      <4>1. /\ state'[x] = PushedState(x) /\ call[t] = "push"
        BY <2>1, <3>1, PushEffect DEF PushQueue
      <4>2. AllFixed
        BY <1>4, <4>1 DEF FixInv, Started
      <4>3. state[x] \in {"init2", "idle"} /\ state'[x] \in {"init1", "busy"}
        BY <2>1, <4>1 DEF PushedState
      <4> QED BY <4>2, <4>3 DEF AllFixed, Fixed
    <3>2. CASE ResumeLock(t)
      <4>1. state[x] = "yield" /\ state'[x] = "busy"
        BY <2>1, <3>2, ResumeEffect
      <4>2. cur_msg[x] # NoMsg /\ pc[GroupOf(x)] # "end"
        BY <1>4, <4>1, TableProperties DEF GroupInv, ServiceOK
      <4>3. PICK g \in Group : g = GroupOf(x)
        BY TableProperties
      <4>4. phase[g] # "init"
        BY <1>4, <4>2, <4>3 DEF GroupInv, ServiceOK
      <4>5. pc[g] \notin {"none", "start", "startpend", "end"}
        BY <1>4, <4>2, <4>3, <4>4 DEF GroupInv, PhaseOK
      <4>6. AllFixed
        BY <1>4, <4>5 DEF FixInv, Started
      <4> QED BY <4>1, <4>6 DEF AllFixed, Fixed
    <3> QED BY <2>1, <3>1, <3>2, ApiFrame
  <2> QED BY <1>1, <1>3, <1>4, <1>6, <2>1, FixKept
<1> QED BY <1>5, <1>6

LEMMA LoadFixFixInv ==
    ASSUME IInv, FixInv, LoadFix
    PROVE  FixInv'
<1> DEFINE s == Table[main_grp][main_srv]
<1>1. /\ main_pc = "fix" /\ main_pc' = "fix" /\ main_grp \in Group /\ main_srv \in Nat \ {0}
      /\ UNCHANGED <<ctx_state, entry, queue, cur_msg, pc, phase, call>>
  BY LoadFixEffect DEF msgqVars, ctlVars, callVars
<1>2. \A g \in Group : \A i \in 1 .. Len(Table[g]) :
         IF g > main_grp \/ (g = main_grp /\ i >= main_srv)
         THEN state[Table[g][i]] = "init0" ELSE Fixed(Table[g][i])
  BY <1>1 DEF FixInv
<1>3. /\ \A x \in Service : cur_msg[x] = NoMsg /\ queue[x] = <<>>
      /\ \A g \in Group : phase[g] = "init"
      /\ \A t \in Thread : call[t] \notin {"alloc", "push"}
  BY <1>1 DEF FixInv, Before
<1>4. Started' = Started
  BY <1>1 DEF Started
<1>5. \A g \in Group : \A i \in 1 .. Len(Table[g]) :
         g \in Int /\ i \in Int /\ Table[g][i] \in Service
  BY Places, GroupAssumption DEF Group
<1>6. ASSUME NEW g \in Group, NEW i \in 1 .. Len(Table[g])
      PROVE  IF g > main_grp' \/ (g = main_grp' /\ i >= main_srv')
             THEN state'[Table[g][i]] = "init0" ELSE Fixed(Table[g][i])'
  <2>1. CASE /\ main_srv > Len(Table[main_grp]) /\ UNCHANGED state
             /\ main_grp' = main_grp + 1 /\ main_srv' = 1
    <3>1. Fixed(Table[g][i])' = Fixed(Table[g][i])
      BY <1>1, <2>1 DEF Fixed
    <3>2. (g > main_grp' \/ (g = main_grp' /\ i >= main_srv'))
             <=> (g > main_grp \/ (g = main_grp /\ i >= main_srv))
      <4>1. CASE g = main_grp
        BY <1>1, <1>5, <2>1, <4>1, Places
      <4>2. CASE g # main_grp
        BY <1>1, <1>5, <2>1, <4>2, GroupAssumption DEF Group
      <4> QED BY <4>1, <4>2
    <3> QED BY <1>2, <2>1, <3>1, <3>2
  <2>2. CASE /\ main_srv \in 1 .. Len(Table[main_grp]) /\ s \in Service
             /\ main_grp' = main_grp /\ main_srv' = main_srv + 1 /\ state[s] = "init0"
             /\ \A x \in Service : state'[x] = IF x # s THEN state[x]
                                               ELSE IF x \notin entry THEN "exit1"
                                               ELSE IF x \in Lazy THEN "init2" ELSE "init1"
    <3>1. CASE g = main_grp /\ i = main_srv
      <4>1. ~(g > main_grp' \/ (g = main_grp' /\ i >= main_srv'))
        <5>1. g = main_grp' /\ i + 1 = main_srv'
          BY <2>2, <3>1
        <5> QED BY <1>5, <5>1
      <4> DEFINE x == Table[g][i]
      <4>2. x = s
        BY <3>1
      <4> HIDE DEF s
      <4>3. /\ x \in Service /\ entry' = entry
            /\ state'[x] = IF x \notin entry THEN "exit1"
                           ELSE IF x \in Lazy THEN "init2" ELSE "init1"
        BY <1>1, <2>2, <4>2
      <4>4. Fixed(x)'
        <5> HIDE DEF x
        <5> QED BY <4>3 DEF Fixed
      <4> QED BY <4>1, <4>4
    <3>2. CASE ~(g = main_grp /\ i = main_srv)
      <4>1. Table[g][i] # s
        <5>1. main_grp \in Group /\ main_srv \in 1 .. Len(Table[main_grp])
          BY <1>1, <2>2
        <5> QED BY <3>2, <5>1, TableAssumption
      <4> HIDE DEF s
      <4>2. state'[Table[g][i]] = state[Table[g][i]]
        BY <1>5, <2>2, <4>1
      <4>3. Fixed(Table[g][i])' = Fixed(Table[g][i])
        BY <1>1, <4>2 DEF Fixed
      <4>4. (g > main_grp' \/ (g = main_grp' /\ i >= main_srv'))
               <=> (g > main_grp \/ (g = main_grp /\ i >= main_srv))
        BY <1>1, <1>5, <2>2, <3>2
      <4> QED BY <1>2, <4>2, <4>3, <4>4
    <3> QED BY <3>1, <3>2
  <2> QED BY <2>1, <2>2, LoadFixEffect
<1>7. Started' => AllFixed'
  <2>1. CASE UNCHANGED state
    <3>1. AllFixed' = AllFixed
      BY <1>1, <2>1 DEF AllFixed, Fixed
    <3> QED BY <1>4, <3>1 DEF FixInv
  <2>2. CASE ~UNCHANGED state
    <3>1. s \in Service /\ state[s] = "init0"
      BY <2>2, LoadFixEffect
    <3>2. ~AllFixed
      BY <3>1 DEF AllFixed, Fixed
    <3> QED BY <1>4, <3>2 DEF FixInv
  <2> QED BY <2>1, <2>2
<1> QED BY <1>1, <1>3, <1>6, <1>7 DEF FixInv

LEMMA MainFixInv ==
    ASSUME IInv, StateInv,
           \/ EafInit \/ LoadCall \/ CleanupCall \/ MainStep \/ \E s \in Service : Register(s)
    PROVE  FixInv'
<1>1. FixInv
  BY DEF StateInv
<1>2. CASE EafInit
  <2>1. /\ main_pc = "new" /\ main_pc' = "boot" /\ ctx_state' = "init"
        /\ \A g \in Group : pc'[g] = "start"
        /\ UNCHANGED <<main_grp, main_srv>>
    BY <1>2 DEF EafInit, MainAt
  <2>2. UNCHANGED <<state, queue, cur_msg, phase, call>>
    BY <1>2, MainFrame DEF callVars
  <2>3. ~Started'
    BY <1>1, <2>1, <2>2 DEF Started, FixInv, Before
  <2> QED BY <1>1, <2>1, <2>2, <2>3 DEF FixInv, Before
<1>3. CASE \E s \in Service : Register(s)
  <2>1. main_pc = "boot" /\ UNCHANGED <<ctx_state, main_pc, main_grp, main_srv, pc>>
    BY <1>3 DEF Register, MainAt, restMain, ctlVars
  <2>2. UNCHANGED <<state, queue, cur_msg, phase, call>>
    BY <1>3, MainFrame DEF callVars
  <2>3. ~AllFixed
    BY <1>1, <1>3, <2>1 DEF FixInv, AllFixed, Fixed
  <2>4. ~Started'
    BY <1>1, <2>1, <2>2, <2>3 DEF FixInv, Started
  <2> QED BY <1>1, <2>1, <2>2, <2>4 DEF FixInv
<1>4. CASE LoadCall
  <2>1. /\ main_pc = "boot" /\ main_pc' \in {"fix", "rejected"}
        /\ UNCHANGED <<ctx_state, main_grp, main_srv, entry, pc>>
    BY <1>4 DEF LoadCall, MainAt, restMain, ctlVars
  <2>2. UNCHANGED <<state, queue, cur_msg, phase, call>>
    BY <1>4, MainFrame DEF callVars
  <2>3. Started' = Started /\ AllFixed' = AllFixed
    BY <2>1, <2>2 DEF Started, AllFixed, Fixed
  <2>4. /\ main_grp = 1 /\ main_srv = 1 /\ \A s \in Service : state[s] = "init0"
    BY <1>1, <2>1 DEF FixInv
  <2>5. \A g \in Group : \A i \in 1 .. Len(Table[g]) :
           /\ Table[g][i] \in Service
           /\ g > main_grp \/ (g = main_grp /\ i >= main_srv)
    BY <2>4, Places, GroupAssumption DEF Group
  <2> QED BY <1>1, <2>1, <2>2, <2>3, <2>4, <2>5 DEF FixInv, Before
<1>5. CASE LoadFix
  BY <1>1, <1>5, LoadFixFixInv
<1>6. CASE LoadStart
  <2>1. /\ main_pc = "fix" /\ main_grp > NumGroup /\ main_pc' = "wake" /\ UNCHANGED <<state, entry>>
    BY <1>6, MainFrame DEF LoadStart
  <2>2. ASSUME NEW s \in Service
        PROVE  Fixed(s)
    <3>1. PICK g \in Group : \E i \in 1 .. Len(Table[g]) : Table[g][i] = s
      BY TableAssumption
    <3>2. main_grp > g /\ main_grp \in Int /\ g \in Int
      BY <2>1, GroupAssumption DEF Group, IInv, TypeOK, CtxTypeOK
    <3>3. ~(g > main_grp) /\ g # main_grp
      BY <3>2
    <3> QED BY <1>1, <2>1, <3>1, <3>3 DEF FixInv
  <2>3. AllFixed'
    BY <2>1, <2>2 DEF AllFixed, Fixed
  <2> QED BY <2>1, <2>3 DEF FixInv, Before
<1>7. CASE LoadWake \/ LoadWait \/ CleanupCall \/ CleanupGroup \/ CleanupFree
  <2>1. /\ main_pc' \notin Before /\ UNCHANGED <<entry, state, pc, call>>
        /\ main_pc' \in {"wake", "wait", "up"} => main_pc \in {"wake", "wait", "up"}
        /\ ctx_state' = "busy" => ctx_state = "busy"
    BY <1>7 DEF LoadWake, LoadWait, CleanupCall, CleanupGroup, CleanupFree, restMain, listVars,
                ctlVars, callVars, Before
  <2>2. Started' => Started
    BY <2>1 DEF Started
  <2>3. AllFixed' = AllFixed
    BY <2>1 DEF AllFixed, Fixed
  <2> QED BY <1>1, <2>1, <2>2, <2>3 DEF FixInv, Before
<1> QED BY <1>2, <1>3, <1>4, <1>5, <1>6, <1>7 DEF MainStep

-----------------------------------------------------------------------------
\* eaf_load counts the groups that have come through their initialisation.

LEMMA PostedFinite == IsFiniteSet(Group) /\ Cardinality(Group) = NumGroup
                      /\ IsFiniteSet(Posted) /\ Cardinality(Posted) \in Nat
<1>1. IsFiniteSet(Group) /\ Cardinality(Group) = NumGroup
  BY FS_Interval, GroupAssumption DEF Group
<1>2. Posted \in SUBSET Group
  BY DEF Posted
<1>3. IsFiniteSet(Posted)
  BY <1>1, <1>2, FS_Subset
<1> QED BY <1>1, <1>3, FS_CardinalityType

LEMMA NextReadyInv ==
    ASSUME IInv, StateInv, [Next]_vars
    PROVE  ReadyInv'
<1>1. ReadyInv /\ CtxTypeOK /\ CtlTypeOK
  BY DEF StateInv, IInv, TypeOK
<1>2. ASSUME UNCHANGED <<ready, main_pc, main_grp>>, Posted' = Posted
      PROVE  ReadyInv'
  BY <1>1, <1>2 DEF ReadyInv
<1>3. CASE \E g \in Group : GroupStep(g)
  <2>1. PICK g \in Group : GroupStep(g)
    BY <1>3
  <2>2. UNCHANGED <<main_pc, main_grp>> /\ \A h \in Group : h # g => phase'[h] = phase[h]
    BY <2>1, GroupFrame
  <2>3. CASE PostReady(g)
    <3>1. /\ ready' = ready + 1 /\ phase'[g] = "busy" /\ pc[g] = "ready"
      BY <1>1, <2>3 DEF PostReady, At, CtlTypeOK
    <3>2. phase[g] = "init" /\ main_pc \notin {"new", "boot", "fix"}
      BY <3>1, PastStart DEF StateInv, GroupInv, PhaseOK
    <3>3. Posted' = Posted \cup {g} /\ g \notin Posted
      BY <2>2, <3>1, <3>2 DEF Posted
    <3>4. Cardinality(Posted') = Cardinality(Posted) + 1 /\ Cardinality(Posted) \in Nat
      BY <3>3, PostedFinite, FS_AddElement
    <3>5. main_pc # "up"
      BY <1>1, <3>3 DEF ReadyInv
    <3> QED BY <1>1, <2>2, <3>1, <3>2, <3>4, <3>5 DEF ReadyInv, CtxTypeOK, Before
  <2>4. CASE ~PostReady(g)
    <3>1. ready' = ready /\ (phase'[g] = "init" <=> phase[g] = "init")
      <4>1. ready' = ready
        BY <2>1, <2>4 DEF GroupStep, restCtl, ctxVars, WaitStart, Pend, InitNext, InitDone,
           OnInitReturn, PostReady,
         LoopCheck, IfTeardown, Pick, TryPend, DispatchInit, Dispatch,
         HandleBefore, HandlerReturn, HandlerYield, YieldHookReturn, TeardownNext, TeardownDone,
         GroupExitNext, GroupExitDone, OnExitReturn, DrainNext, Drop, DrainDone
      <4>2. \/ UNCHANGED phase \/ LoopCheck(g) \/ IfTeardown(g) \/ TeardownDone(g)
        BY <2>1, <2>4 DEF GroupStep, restCtl, ctxVars, WaitStart, Pend, InitNext, InitDone,
           OnInitReturn, PostReady,
         LoopCheck, IfTeardown, Pick, TryPend, DispatchInit, Dispatch,
         HandleBefore, HandlerReturn, HandlerYield, YieldHookReturn, TeardownNext, TeardownDone,
         GroupExitNext, GroupExitDone, OnExitReturn, DrainNext, Drop, DrainDone
      <4>3. CASE LoopCheck(g) \/ IfTeardown(g) \/ TeardownDone(g)
        <5>1. phase[g] # "init"
          BY <4>3 DEF LoopCheck, IfTeardown, TeardownDone, At, StateInv, GroupInv, PhaseOK
        <5>2. phase'[g] # "init"
          BY <1>1, <4>3, <5>1 DEF LoopCheck, IfTeardown, TeardownDone, CtlTypeOK
        <5> QED BY <4>1, <5>1, <5>2
      <4> QED BY <4>1, <4>2, <4>3
    <3>2. Posted' = Posted
      BY <2>2, <3>1 DEF Posted
    <3> QED BY <1>2, <2>2, <3>1, <3>2
  <2> QED BY <2>3, <2>4
<1>4. CASE \E t \in Thread : CallStart(t) \/ CallStep(t)
  BY <1>2, <1>4, ApiFrame DEF Posted, ctlVars
<1>5. CASE EafInit \/ LoadCall \/ CleanupCall \/ LoadStart \/ LoadWake \/ LoadFix
           \/ CleanupFree \/ CleanupGroup \/ (\E s \in Service : Register(s)) \/ UNCHANGED vars
  <2>1. UNCHANGED <<ready, phase>>
    BY <1>5 DEF EafInit, LoadCall, CleanupCall, LoadStart, LoadWake, LoadFix, CleanupFree,
                CleanupGroup, Register, restMain, ctlVars, vars, ctxVars
  <2>2. Posted' = Posted
    BY <2>1 DEF Posted
  <2>3. \/ main_pc' \in Before \cup {"wake"} /\ main_pc \in Before
        \/ main_pc = "wake" /\ main_pc' = "wake"
        \/ main_pc = "wake" /\ main_pc' = "wait" /\ main_grp' = 1
        \/ main_pc' \in {"rejected", "join", "free", "gone"}
        \/ UNCHANGED <<main_pc, main_grp>>
    BY <1>5 DEF EafInit, LoadCall, CleanupCall, LoadStart, LoadWake, LoadFix, CleanupFree,
                CleanupGroup, Register, MainAt, Before, vars, ctxVars
  <2> QED BY <1>1, <2>1, <2>2, <2>3 DEF ReadyInv, Before, CtxTypeOK
<1>6. CASE LoadWait
  <2>1. /\ main_pc = "wait" /\ ready' = ready - 1 /\ UNCHANGED phase /\ ready \in Nat /\ ready > 0
        /\ main_grp \in 1 .. NumGroup
    BY <1>1, <1>6 DEF LoadWait, restMain, ctlVars, CtxTypeOK, IInv, MainInv, Group
  <2>2. Posted' = Posted /\ ready + (main_grp - 1) = Cardinality(Posted)
    BY <1>1, <2>1 DEF Posted, ReadyInv
  <2>3. CASE main_grp = NumGroup
    <3>1. main_pc' = "up"
      BY <1>6, <2>3 DEF LoadWait, LastGroup
    <3>2. Cardinality(Posted) >= NumGroup
      BY <2>1, <2>2, <2>3, GroupAssumption
    <3>3. Posted \in SUBSET Group
      BY DEF Posted
    <3>4. Posted = Group
      BY <3>2, <3>3, PostedFinite, FS_Subset, GroupAssumption
    <3> QED BY <2>2, <3>1, <3>4 DEF ReadyInv, Before
  <2>4. CASE main_grp # NumGroup
    <3>1. main_pc' = "wait" /\ main_grp' = main_grp + 1
      BY <1>6, <2>1, <2>4 DEF LoadWait, LastGroup
    <3> QED BY <2>1, <2>2, <3>1 DEF ReadyInv, Before
  <2> QED BY <2>3, <2>4
<1> QED BY <1>3, <1>4, <1>5, <1>6 DEF Next, MainStep

\* A joined thread has ended.
LEMMA NextJoinInv ==
    ASSUME IInv, StateInv, [Next]_vars
    PROVE  JoinInv'
<1>1. JoinInv
  BY DEF StateInv
<1>2. SUFFICES ASSUME NEW g \in Group, CleanedUp(g)' PROVE pc'[g] = "end"
  BY DEF JoinInv
<1>3. CASE \E h \in Group : GroupStep(h)
  <2>1. PICK h \in Group : GroupStep(h)
    BY <1>3
  <2>2. UNCHANGED <<main_pc, main_grp>> /\ pc[h] # "end" /\ (h # g => pc'[g] = pc[g])
    BY <2>1, GroupFrame
  <2>3. CleanedUp(g)
    BY <1>2, <2>2 DEF CleanedUp
  <2> QED BY <1>1, <2>2, <2>3 DEF JoinInv
<1>4. CASE \/ \E t \in Thread : CallStart(t) \/ CallStep(t)
           \/ UNCHANGED vars
  <2>1. UNCHANGED <<main_pc, main_grp, pc>>
    BY <1>4, ApiFrame DEF ctlVars, vars, ctxVars
  <2> QED BY <1>1, <1>2, <2>1 DEF JoinInv, CleanedUp
<1>5. CASE \/ EafInit \/ LoadCall \/ LoadStart \/ LoadWake \/ LoadFix \/ LoadWait
           \/ CleanupCall \/ \E s \in Service : Register(s)
  <2>1. /\ main_pc' \notin {"free", "gone"}
        /\ main_pc' = "join" => main_grp' = 1
    BY <1>5 DEF EafInit, LoadCall, LoadStart, LoadWake, LoadFix, LoadWait, CleanupCall, Register,
                MainAt
  <2> QED BY <1>2, <2>1, GroupAssumption DEF CleanedUp, Group
<1>6. CASE CleanupGroup
  <2>1. /\ main_pc = "join" /\ pc[main_grp] = "end" /\ UNCHANGED pc /\ main_grp \in Group
    BY <1>6 DEF CleanupGroup, ctlVars, IInv, MainInv
  <2>2. g < main_grp \/ g = main_grp
    <3>1. main_grp \in 1 .. NumGroup /\ g \in 1 .. NumGroup
      BY <2>1 DEF Group
    <3>2. main_grp = NumGroup \/ (main_pc' = "join" /\ main_grp' = main_grp + 1)
      BY <1>6, <2>1 DEF CleanupGroup, LastGroup
    <3> QED BY <1>2, <3>1, <3>2, GroupAssumption DEF CleanedUp
  <2> QED BY <1>1, <2>1, <2>2 DEF JoinInv, CleanedUp
<1>7. CASE CleanupFree
  BY <1>1, <1>7 DEF CleanupFree, JoinInv, CleanedUp, restMain, ctlVars
<1> QED BY <1>3, <1>4, <1>5, <1>6, <1>7 DEF Next, MainStep

-----------------------------------------------------------------------------
\* The invariant

LEMMA InitStateInv == Init => StateInv
<1> SUFFICES ASSUME Init PROVE StateInv
  OBVIOUS
<1>1. \A g \in Group : GroupInv(g)
  <2>1. \A g \in Group : /\ pc[g] = "none" /\ phase[g] = "init" /\ idx[g] = 1
                         /\ \A s \in Members(g) : /\ state[s] = "init0" /\ cur_msg[s] = NoMsg
                                                  /\ queue[s] = <<>>
    BY DEF Init
  <2> QED BY <2>1 DEF GroupInv, PhaseOK, RunOK, ServiceOK, WalkOK
<1>2. FixInv
  <2>1. ~Started
    BY DEF Init, Started
  <2> QED BY <2>1 DEF Init, FixInv
<1>3. ReadyInv
  <2>1. Posted = {}
    BY DEF Init, Posted
  <2> QED BY <2>1, FS_EmptySet DEF Init, ReadyInv, Before
<1>4. JoinInv
  BY DEF Init, JoinInv, CleanedUp
<1> QED BY <1>1, <1>2, <1>3, <1>4 DEF StateInv

LEMMA NextStateInv == IInv /\ StateInv /\ [Next]_vars => StateInv'
<1> SUFFICES ASSUME IInv, StateInv, [Next]_vars PROVE StateInv'
  OBVIOUS
<1>1. FixInv /\ \A g \in Group : GroupInv(g)
  BY DEF StateInv
<1>2. ReadyInv' /\ JoinInv'
  BY NextReadyInv, NextJoinInv
<1>3. CASE \E g \in Group : GroupStep(g)
  BY <1>1, <1>2, <1>3, GroupGroupInv, GroupFixInv DEF StateInv
<1>4. CASE \E t \in Thread : CallStart(t) \/ CallStep(t)
  <2>1. PICK t \in Thread : CallStart(t) \/ CallStep(t)
    BY <1>4
  <2>2. call[t] = "push" => AllFixed
    BY <1>1 DEF FixInv, Started
  <2> QED BY <1>1, <1>2, <2>1, <2>2, ApiGroupInv, ApiFixInv DEF StateInv
<1>5. CASE EafInit \/ LoadCall \/ CleanupCall \/ MainStep \/ \E s \in Service : Register(s)
  BY <1>1, <1>2, <1>5, MainGroupInv, MainFixInv DEF StateInv
<1>6. CASE UNCHANGED vars
  <2>1. UNCHANGED <<ctx_state, main_pc, main_grp, main_srv, entry, state, queue, cur_msg, pc,
  phase,
                    idx, cur_run, call>>
    BY <1>6 DEF vars, ctxVars, listVars, msgqVars, ctlVars, callVars
  <2>2. \A h \in Group : GroupInv(h)'
    BY <1>1, <2>1, GroupKept
  <2>3. FixInv'
    <3>1. Started' = Started
      BY <2>1 DEF Started
    <3> QED BY <1>1, <2>1, <3>1, FixStays DEF FixInv
  <2> QED BY <1>2, <2>2, <2>3 DEF StateInv
<1> QED BY <1>3, <1>4, <1>5, <1>6 DEF Next

\* What threads, services and messages have to do with each other holds in
\* every reachable state (service.c from eaf_init to eaf_cleanup).
THEOREM StatesInvariance == Spec => [](IInv /\ StateInv)
<1>1. Init => IInv /\ StateInv
  BY InitIInv, InitStateInv
<1>2. (IInv /\ StateInv) /\ [Next]_vars => (IInv /\ StateInv)'
  BY NextIInv, NextStateInv
<1> QED BY <1>1, <1>2, PTL DEF Spec

-----------------------------------------------------------------------------
\* What follows

\* assert(local.state == busy) of _eaf_handle_new_message holds: no other
\* thread can move a service between its being picked and its being dispatched.
THEOREM DispatchFindsBusy == Spec => []DispatchedIsBusy
<1>1. StateInv => DispatchedIsBusy
  BY DEF StateInv, GroupInv, RunOK, DispatchedIsBusy
<1> QED BY StatesInvariance, <1>1, PTL

\* A message that _eaf_service_push_msg has queued never waits at a service
\* that is idle or has not begun its delayed initialisation.
THEOREM QueuedServicesAreScheduled == Spec => []QueuedIsScheduled
<1>1. ASSUME StateInv
      PROVE  QueuedIsScheduled
  <2>1. \A s \in Service : GroupOf(s) \in Group
    BY TableProperties
  <2> QED BY <1>1, <2>1 DEF StateInv, GroupInv, ServiceOK, QueuedIsScheduled
<1> QED BY StatesInvariance, <1>1, PTL

\* A service that is initialised or idle holds no message, and one that has
\* yielded holds the message its handler goes back to (_eaf_service_resume_message).
THEOREM CurrentMatches == Spec => []CurrentMatchesState
<1>1. ASSUME StateInv
      PROVE  CurrentMatchesState
  <2>1. \A s \in Service : GroupOf(s) \in Group
    BY TableProperties
  <2> QED BY <1>1, <2>1 DEF StateInv, GroupInv, ServiceOK, CurrentMatchesState
<1> QED BY StatesInvariance, <1>1, PTL

\* When eaf_load has returned, every service that is not lazy has been through
\* on_init, for any number of groups and in any order of their threads.
THEOREM LoadWaits == Spec => []LoadedIsInitialised
<1>1. ASSUME StateInv, IInv
      PROVE  LoadedIsInitialised
  <2>1. SUFFICES ASSUME main_pc = "up", NEW s \in entry \ Lazy
                 PROVE  state[s] \notin {"init0", "init1"}
    BY DEF LoadedIsInitialised
  <2>2. s \in Service /\ GroupOf(s) \in Group
    BY <1>1, TableProperties DEF IInv, TypeOK, CtxTypeOK
  <2>3. phase[GroupOf(s)] # "init"
    BY <1>1, <2>1, <2>2 DEF StateInv, ReadyInv, Posted
  <2> QED BY <1>1, <2>2, <2>3 DEF StateInv, GroupInv, ServiceOK
<1> QED BY StatesInvariance, <1>1, PTL

\* A step of a working thread moves a service out of exit0 only to exit1, and
\* out of exit1 never.
LEMMA GroupExits ==
    ASSUME IInv, StateInv, NEW g \in Group, GroupStep(g), NEW x \in Service
    PROVE  /\ state[x] = "exit0" => state'[x] \in {"exit0", "exit1"}
           /\ state[x] = "exit1" => state'[x] = "exit1"
<1> USE DEF At
<1>1. ThreadInv /\ main_pc # "new" /\ GroupInv(g)
  BY GroupFrame DEF IInv, StateInv
<1>2. CASE UNCHANGED state
  BY <1>2
<1>3. CASE ~UNCHANGED state
  <2>1. \/ OnInitReturn(g) \/ Dispatch(g) \/ HandlerYield(g) \/ TeardownNext(g)
        \/ GroupExitNext(g) \/ OnExitReturn(g) \/ DrainDone(g)
    BY <1>3 DEF GroupStep, restCtl, ctxVars, WaitStart, Pend, InitNext, InitDone, OnInitReturn,
       PostReady,
         LoopCheck, IfTeardown, Pick, TryPend, DispatchInit, Dispatch,
         HandleBefore, HandlerReturn, HandlerYield, YieldHookReturn, TeardownNext, TeardownDone,
         GroupExitNext, GroupExitDone, OnExitReturn, DrainNext, Drop, DrainDone, listVars
  <2>2. CASE OnInitReturn(g) \/ Dispatch(g) \/ HandlerYield(g)
    <3>1. pc[g] \in {"oninit", "dispatch", "run"}
      BY <2>2 DEF OnInitReturn, Dispatch, HandlerYield
    <3>2. cur_run[g] \in Service /\ state[cur_run[g]] \notin {"exit0", "exit1"}
      BY <1>1, <3>1 DEF ThreadInv, GroupInv, RunOK
    <3>3. \E new \in {"idle", "busy", "yield"} : SetState(cur_run[g], new)
      BY <1>3, <2>2 DEF OnInitReturn, Initialised, Dispatch, HandlerYield, listVars
    <3> QED BY <1>1, <3>2, <3>3, StateMoves
  <2>3. CASE TeardownNext(g) \/ GroupExitNext(g) \/ OnExitReturn(g) \/ DrainDone(g)
    <3> DEFINE s == Table[g][idx[g]]
    <3>1. s \in Service
      BY <2>3, <1>3, GroupFacts DEF TeardownNext, GroupExitNext, OnExitReturn, DrainDone, listVars
    <3>2. \/ SetState(s, "exit1") /\ state[s] = "exit0"
          \/ SetState(s, "exit0") /\ state[s] # "exit1"
      <4>1. CASE TeardownNext(g)
        <5>1. /\ SetState(s, "exit0") /\ s \in entry /\ pc[g] = "teardown"
              /\ idx[g] <= Len(Table[g])
          BY <1>3, <4>1 DEF TeardownNext, listVars
        <5>2. phase[g] = "drain"
          BY <1>1, <5>1 DEF GroupInv, PhaseOK
        <5>3. idx[g] \in Nat /\ idx[g] >= 1
          BY <1>1, <5>1 DEF ThreadInv, IInv, TypeOK, CtlTypeOK
        <5>4. idx[g] \in 1 .. Len(Table[g])
          BY <5>1, <5>3, Places
        <5> QED BY <1>1, <5>1, <5>2, <5>4 DEF GroupInv, WalkOK
      <4>2. CASE GroupExitNext(g)
        BY <1>3, <4>2 DEF GroupExitNext, Exited, listVars
      <4>3. CASE OnExitReturn(g) \/ DrainDone(g)
        BY <1>1, <1>3, <4>3 DEF OnExitReturn, DrainDone, GroupInv, RunOK, listVars
      <4> QED BY <2>3, <4>1, <4>2, <4>3
    <3> HIDE DEF s
    <3> QED BY <1>1, <3>1, <3>2, StateMoves
  <2> QED BY <2>1, <2>2, <2>3
<1> QED BY <1>2, <1>3

\* Exits are final (_eaf_service_teardown and _eaf_group_exit): a service runs
\* on_exit at most once, and no message, resume or loop brings it back.
THEOREM ExitsAreFinal == Spec => ExitIsFinal
<1>1. ASSUME IInv, StateInv, [Next]_vars, NEW x \in Service
      PROVE  /\ state[x] = "exit0" => state'[x] \in {"exit0", "exit1"}
             /\ state[x] = "exit1" => state'[x] = "exit1"
  <2>1. CASE \E g \in Group : GroupStep(g)
    BY <1>1, <2>1, GroupExits
  <2>2. CASE \E t \in Thread : CallStart(t) \/ CallStep(t)
    <3>1. PICK t \in Thread : CallStart(t) \/ CallStep(t)
      BY <2>2
    <3>2. CASE PushQueue(t)
      <4>1. state'[x] = state[x] \/ state'[x] = PushedState(x)
        BY <1>1, <3>2, PushEffect
      <4> QED BY <4>1 DEF PushedState
    <3>3. CASE ResumeLock(t)
      BY <1>1, <3>3, ResumeEffect
    <3> QED BY <1>1, <3>1, <3>2, <3>3, ApiFrame
  <2>3. CASE LoadFix
    BY <1>1, <2>3, LoadFixEffect DEF StateInv
  <2>4. CASE CleanupGroup \/ UNCHANGED vars
    BY <2>4 DEF CleanupGroup, vars, listVars
  <2>5. CASE \/ EafInit \/ LoadCall \/ CleanupCall \/ LoadStart \/ LoadWake \/ LoadWait
             \/ CleanupFree \/ \E s \in Service : Register(s)
    BY <2>5, MainFrame
  <2> QED BY <1>1, <2>1, <2>2, <2>3, <2>4, <2>5 DEF Next, MainStep
<1>2. (IInv /\ StateInv) /\ [Next]_vars
         => [\A s \in Service :
                /\ state[s] = "exit0" => state'[s] \in {"exit0", "exit1"}
                /\ state[s] = "exit1" => state'[s] = "exit1"]_vars
  BY <1>1
<1> QED BY StatesInvariance, <1>2, PTL DEF Spec, ExitIsFinal

-----------------------------------------------------------------------------
\* Where messages are

\* A message is neither NoMsg nor in two roles.
LEMMA Messages ==
    /\ NoMsg \notin Msg
    /\ \A r \in Request : Req(r) \in Msg /\ Dflt(r) \in Msg /\ Req(r).kind = "req"
                          /\ Dflt(r).kind = "dflt" /\ Req(r).id = r /\ Dflt(r).id = r
    /\ \A m \in Msg : m.id \in Request /\ (m.kind = "req" => m = Req(m.id))
                      /\ (m.kind = "dflt" => m = Dflt(m.id))
BY MessageAssumption DEF Msg, Req, Dflt

\* PlaceInv says of every service which messages it holds.
LEMMA HeldExactly ==
    ASSUME MsgqTypeOK, PlaceInv, NEW s \in Service
    PROVE  /\ Held(s) = {m \in Msg : fate[m] = "queued" /\ Dest(m) = s}
           /\ queue[s] \in Seq(Msg) /\ Distinct(queue[s]) /\ ToSet(queue[s]) \subseteq Msg
           /\ cur_msg[s] \in Msg \cup {NoMsg} /\ cur_msg[s] \notin ToSet(queue[s])
<1>1. queue[s] \in Seq(Msg) /\ cur_msg[s] \in Msg \cup {NoMsg}
  BY DEF MsgqTypeOK
<1>2. ToSet(queue[s]) \subseteq Msg
  BY <1>1 DEF ToSet
<1>3. Distinct(queue[s]) /\ cur_msg[s] \notin ToSet(queue[s])
  BY DEF PlaceInv, Distinct
<1>4. Held(s) \subseteq {m \in Msg : fate[m] = "queued" /\ Dest(m) = s}
  BY <1>1, <1>2 DEF PlaceInv, Held
<1>5. {m \in Msg : fate[m] = "queued" /\ Dest(m) = s} \subseteq Held(s)
  BY DEF PlaceInv
<1> QED BY <1>1, <1>2, <1>3, <1>4, <1>5

\* PlaceInv after a step whose queues hold exactly the messages it leaves queued.
LEMMA PlacesNext ==
    ASSUME \A s \in Service : /\ Distinct(queue'[s]) /\ cur_msg'[s] \notin ToSet(queue'[s])
                              /\ Held(s)' = {m \in Msg : fate'[m] = "queued" /\ Dest(m) = s},
           \A m \in Msg : fate'[m] = "queued" => Dest(m) \in Service
    PROVE  PlaceInv'
BY DEF PlaceInv, Distinct

\* No message moves, and none becomes queued or ceases to be.
LEMMA PlacesStay ==
    ASSUME MsgqTypeOK, PlaceInv, UNCHANGED <<queue, cur_msg>>,
           \A m \in Msg : fate'[m] = "queued" <=> fate[m] = "queued"
    PROVE  PlaceInv'
<1>1. \A s \in Service : Held(s)' = Held(s)
  BY DEF Held
<1>2. \A m \in Msg : fate'[m] = "queued" => Dest(m) \in Service
  BY DEF PlaceInv
<1> QED BY <1>1, <1>2, HeldExactly, PlacesNext

\* The first message of a queue becomes the current one (_eaf_handle_new_message).
LEMMA PlacesPopped ==
    ASSUME MsgqTypeOK, PlaceInv, NEW s \in Service, cur_msg[s] = NoMsg, queue[s] # <<>>,
           cur_msg' = [cur_msg EXCEPT ![s] = Head(queue[s])],
           queue' = [queue EXCEPT ![s] = Tail(queue[s])],
           \A m \in Msg : fate'[m] = "queued" <=> fate[m] = "queued"
    PROVE  PlaceInv'
<1> DEFINE l == queue[s]
<1>1. /\ cur_msg'[s] = Head(l) /\ queue'[s] = Tail(l)
      /\ \A x \in Service : x # s => cur_msg'[x] = cur_msg[x] /\ queue'[x] = queue[x]
  BY DEF MsgqTypeOK
<1>2. l \in Seq(Msg) /\ Distinct(l) /\ l # <<>>
  BY HeldExactly
<1> HIDE DEF l
<1>3. /\ Head(l) \in Msg /\ Head(l) \in ToSet(l) /\ Distinct(Tail(l))
      /\ ToSet(Tail(l)) = ToSet(l) \ {Head(l)}
  BY <1>2, TailSet
<1>4. Held(s)' = Held(s)
  BY <1>1, <1>3, MessageAssumption DEF Held, l
<1>5. \A x \in Service : x # s => Held(x)' = Held(x)
  BY <1>1 DEF Held
<1>6. \A m \in Msg : fate'[m] = "queued" => Dest(m) \in Service
  BY DEF PlaceInv
<1>7. ASSUME NEW x \in Service
      PROVE  /\ Distinct(queue'[x]) /\ cur_msg'[x] \notin ToSet(queue'[x])
             /\ Held(x)' = {m \in Msg : fate'[m] = "queued" /\ Dest(m) = x}
  <2>1. Distinct(queue'[x]) /\ cur_msg'[x] \notin ToSet(queue'[x])
    BY <1>1, <1>3, HeldExactly
  <2>2. Held(x)' = Held(x)
    BY <1>4, <1>5
  <2> QED BY <2>1, <2>2, HeldExactly
<1> QED BY <1>6, <1>7, PlacesNext

\* The current message is done with (_eaf_service_reset).
LEMMA PlacesReset ==
    ASSUME MsgqTypeOK, MsgTypeOK, PlaceInv, NEW s \in Service, cur_msg[s] # NoMsg,
           NEW what, what # "queued",
           cur_msg' = [cur_msg EXCEPT ![s] = NoMsg], UNCHANGED queue,
           fate' = [fate EXCEPT ![cur_msg[s]] = what]
    PROVE  PlaceInv'
<1> DEFINE m == cur_msg[s]
<1>1. /\ cur_msg'[s] = NoMsg /\ m \in Msg /\ m \in Held(s)
      /\ \A x \in Service : x # s => cur_msg'[x] = cur_msg[x]
  BY HeldExactly DEF MsgqTypeOK, Held
<1> HIDE DEF m
<1>2. \A x \in Msg : fate'[x] = IF x = m THEN what ELSE fate[x]
  BY <1>1 DEF MsgTypeOK, m
<1>3. m \notin ToSet(queue[s]) /\ NoMsg \notin ToSet(queue[s])
  BY HeldExactly, MessageAssumption DEF m
<1>4. Held(s)' = Held(s) \ {m}
  BY <1>1, <1>3 DEF Held, m
<1>5. \A x \in Service : x # s => Held(x)' = Held(x)
  BY <1>1 DEF Held
<1>6. \A x \in Service : m \in Held(x) => x = s
  BY <1>1, HeldExactly
<1>7. ASSUME NEW x \in Service
      PROVE  /\ Distinct(queue'[x]) /\ cur_msg'[x] \notin ToSet(queue'[x])
             /\ Held(x)' = {y \in Msg : fate'[y] = "queued" /\ Dest(y) = x}
  <2>1. Distinct(queue'[x]) /\ cur_msg'[x] \notin ToSet(queue'[x])
    BY <1>1, <1>3, HeldExactly
  <2>2. Held(x) = {y \in Msg : fate[y] = "queued" /\ Dest(y) = x}
    BY HeldExactly
  <2> QED BY <1>1, <1>2, <1>4, <1>5, <1>6, <2>1, <2>2
<1>8. \A x \in Msg : fate'[x] = "queued" => Dest(x) \in Service
  BY <1>2 DEF PlaceInv
<1> QED BY <1>7, <1>8, PlacesNext

\* A message is queued (_eaf_service_push_msg).
LEMMA PlacesPushed ==
    ASSUME MsgqTypeOK, MsgTypeOK, PlaceInv, NEW s \in Service, NEW m \in Msg,
           fate[m] # "queued", Dest(m) = s,
           queue' = [queue EXCEPT ![s] = Append(queue[s], m)], UNCHANGED cur_msg,
           fate' = [fate EXCEPT ![m] = "queued"]
    PROVE  PlaceInv'
<1> DEFINE l == queue[s]
<1>1. /\ queue'[s] = Append(l, m) /\ \A x \in Service : x # s => queue'[x] = queue[x]
  BY DEF MsgqTypeOK
<1>2. \A x \in Msg : fate'[x] = IF x = m THEN "queued" ELSE fate[x]
  BY DEF MsgTypeOK
<1>3. m \notin Held(s)
  BY HeldExactly
<1>4. l \in Seq(Msg) /\ Distinct(l) /\ m \notin ToSet(l) /\ cur_msg[s] # m
  BY <1>3, HeldExactly, MessageAssumption DEF Held
<1> HIDE DEF l
<1>5. Distinct(Append(l, m)) /\ ToSet(Append(l, m)) = ToSet(l) \cup {m}
  BY <1>4, AppendSet
<1>6. Held(s)' = Held(s) \cup {m}
  BY <1>1, <1>5 DEF Held, l
<1>7. \A x \in Service : x # s => Held(x)' = Held(x)
  BY <1>1 DEF Held
<1>8. ASSUME NEW x \in Service
      PROVE  /\ Distinct(queue'[x]) /\ cur_msg'[x] \notin ToSet(queue'[x])
             /\ Held(x)' = {y \in Msg : fate'[y] = "queued" /\ Dest(y) = x}
  <2>1. Distinct(queue'[x]) /\ cur_msg'[x] \notin ToSet(queue'[x])
    BY <1>1, <1>4, <1>5, HeldExactly DEF l
  <2>2. Held(x) = {y \in Msg : fate[y] = "queued" /\ Dest(y) = x}
    BY HeldExactly
  <2> QED BY <1>2, <1>6, <1>7, <2>1, <2>2
<1>9. \A x \in Msg : fate'[x] = "queued" => Dest(x) \in Service
  BY <1>2 DEF PlaceInv
<1> QED BY <1>8, <1>9, PlacesNext

\* A joined group loses its messages (_eaf_cleanup_group).
LEMMA PlacesCleaned ==
    ASSUME IInv, PlaceInv, CleanupGroup
    PROVE  /\ PlaceInv'
           /\ \A m \in Msg : IF fate[m] = "queued" /\ GroupOf(Dest(m)) = main_grp
                             THEN fate'[m] = "freed" /\ refcnt'[m] = refcnt[m] - 1
                             ELSE fate'[m] = fate[m] /\ refcnt'[m] = refcnt[m]
<1> DEFINE mine == {s \in Service : GroupOf(s) = main_grp}
           held == UNION {Held(s) : s \in mine}
<1>1. MsgqTypeOK /\ MsgTypeOK
  BY DEF IInv, TypeOK
<1>2. \A s \in Service : /\ queue'[s] = IF s \in mine THEN <<>> ELSE queue[s]
                         /\ cur_msg'[s] = IF s \in mine THEN NoMsg ELSE cur_msg[s]
  BY DEF CleanupGroup
<1>3. \A m \in Msg : /\ refcnt'[m] = IF m \in held THEN refcnt[m] - 1 ELSE refcnt[m]
                     /\ fate'[m] = IF m \in held THEN "freed" ELSE fate[m]
  BY DEF CleanupGroup
<1>4. \A m \in Msg : m \in held <=> fate[m] = "queued" /\ GroupOf(Dest(m)) = main_grp
  <2>1. ASSUME NEW m \in held
        PROVE  m \in Msg /\ fate[m] = "queued" /\ GroupOf(Dest(m)) = main_grp
    <3>1. PICK s \in mine : m \in Held(s)
      OBVIOUS
    <3> QED BY <1>1, <3>1, HeldExactly
  <2>2. ASSUME NEW m \in Msg, fate[m] = "queued", GroupOf(Dest(m)) = main_grp
        PROVE  m \in held
    <3>1. Dest(m) \in mine /\ m \in Held(Dest(m))
      BY <2>2 DEF PlaceInv
    <3> QED BY <3>1
  <2> QED BY <2>1, <2>2
<1> HIDE DEF held
<1>5. ASSUME NEW s \in Service
      PROVE  /\ Distinct(queue'[s]) /\ cur_msg'[s] \notin ToSet(queue'[s])
             /\ Held(s)' = {m \in Msg : fate'[m] = "queued" /\ Dest(m) = s}
  <2>1. Held(s) = {m \in Msg : fate[m] = "queued" /\ Dest(m) = s}
    BY <1>1, HeldExactly
  <2>2. CASE s \in mine
    <3>1. queue'[s] = <<>> /\ cur_msg'[s] = NoMsg
      BY <1>2, <2>2
    <3>2. Held(s)' = {} /\ Distinct(queue'[s]) /\ ToSet(queue'[s]) = {}
      BY <3>1 DEF Held, Distinct, ToSet
    <3>3. \A m \in Msg : Dest(m) = s => fate'[m] # "queued"
      BY <1>3, <1>4, <2>2
    <3> QED BY <3>2, <3>3
  <2>3. CASE s \notin mine
    <3>1. queue'[s] = queue[s] /\ cur_msg'[s] = cur_msg[s]
      BY <1>2, <2>3
    <3>2. Held(s)' = Held(s)
      BY <3>1 DEF Held
    <3>3. \A m \in Msg : Dest(m) = s => fate'[m] = fate[m]
      BY <1>3, <1>4, <2>3
    <3> QED BY <1>1, <2>1, <3>1, <3>2, <3>3, HeldExactly
  <2> QED BY <2>2, <2>3
<1>6. \A m \in Msg : fate'[m] = "queued" => Dest(m) \in Service
  BY <1>3 DEF PlaceInv
<1> QED BY <1>3, <1>4, <1>5, <1>6, PlacesNext


-----------------------------------------------------------------------------
\* What senders and references are after a step of one thread

\* What may happen to a message in one step.
Moves(m) ==
    \/ fate'[m] = fate[m]
    \/ fate[m] = "fresh" /\ fate'[m] = "sending"
    \/ fate[m] = "sending" /\ fate'[m] \in {"failed", "queued"}
    \/ fate[m] = "queued" /\ fate'[m] \in closedFates

\* A step of the call of thread t, and what it leaves alone.
OnlyCall(t) ==
    /\ \A u \in Thread : u # t => /\ call'[u] = call[u] /\ call_msg'[u] = call_msg[u]
                                  /\ call_srv'[u] = call_srv[u]
    /\ \A m \in Msg : m # call_msg[t] /\ m # call_msg'[t]
                         => fate'[m] = fate[m] /\ refcnt'[m] = refcnt[m]
    /\ call_msg'[t] \in {NoMsg, call_msg[t]} \/ \A u \in Thread : call_msg[u] # call_msg'[t]

\* SendInv after a step of one frame that treats its message as its label says.
LEMMA SendNext ==
    ASSUME CallTypeOK, CallInv, SendInv, NEW t \in Thread, OnlyCall(t),
           call_msg'[t] \in Msg \cup {NoMsg},
           call'[t] \in {"idle", "resume", "exit", "teardown", "wake"} => call_msg'[t] = NoMsg,
           call'[t] \in {"check", "alloc", "push"} => fate'[call_msg'[t]] = "sending",
           call'[t] \in {"alloc", "push"} => call_srv'[t] = Dest(call_msg'[t]),
           call_msg'[t] # NoMsg => fate'[call_msg'[t]] # "fresh"
    PROVE  SendInv'
<1>1. ASSUME NEW u \in Thread, u # t
      PROVE  /\ call_msg'[u] = call_msg[u] /\ call_msg[u] \in Msg \cup {NoMsg}
             /\ call_msg[u] # NoMsg => /\ call_msg[u] # call_msg[t] /\ call_msg[u] # call_msg'[t]
                                       /\ fate'[call_msg[u]] = fate[call_msg[u]]
             /\ call'[u] = call[u] /\ call_srv'[u] = call_srv[u]
  <2>1. /\ call'[u] = call[u] /\ call_msg'[u] = call_msg[u] /\ call_srv'[u] = call_srv[u]
        /\ call_msg[u] \in Msg \cup {NoMsg}
    BY <1>1 DEF OnlyCall, CallTypeOK
  <2>2. call_msg[u] # NoMsg => call_msg[u] # call_msg[t]
    BY <1>1 DEF SendInv
  <2>3. call_msg[u] # NoMsg => call_msg[u] # call_msg'[t]
    BY <2>2 DEF OnlyCall
  <2>4. call_msg[u] # NoMsg => fate'[call_msg[u]] = fate[call_msg[u]]
    BY <2>1, <2>2, <2>3 DEF OnlyCall
  <2> QED BY <2>1, <2>2, <2>3, <2>4
<1>2. ASSUME NEW u \in Thread, u # t
      PROVE  /\ call'[u] \in {"idle", "resume", "exit", "teardown", "wake"} => call_msg'[u] = NoMsg
             /\ call'[u] \in {"check", "alloc", "push"} => fate'[call_msg'[u]] = "sending"
             /\ call'[u] \in {"alloc", "push"} => call_srv'[u] = Dest(call_msg'[u])
             /\ call_msg'[u] # NoMsg => fate'[call_msg'[u]] # "fresh"
  <2>1. /\ call[u] \in {"idle", "resume", "exit", "teardown", "wake"} => call_msg[u] = NoMsg
        /\ call[u] \in {"check", "alloc", "push"} => fate[call_msg[u]] = "sending"
        /\ call[u] \in {"alloc", "push"} => call_srv[u] = Dest(call_msg[u])
        /\ call_msg[u] # NoMsg => fate[call_msg[u]] # "fresh"
    BY DEF SendInv
  <2>2. call[u] \in {"check", "alloc", "push"} => fate'[call_msg[u]] = fate[call_msg[u]]
    <3>1. SUFFICES ASSUME call[u] \in {"check", "alloc", "push"}
                   PROVE  fate'[call_msg[u]] = fate[call_msg[u]]
      OBVIOUS
    <3>2. call_msg[u] # NoMsg
      BY <3>1, MessageAssumption DEF CallInv
    <3> QED BY <1>1, <1>2, <3>2
  <2> QED BY <1>1, <1>2, <2>1, <2>2
<1>3. \A u, v \in Thread : call_msg'[u] = call_msg'[v] /\ call_msg'[u] # NoMsg => u = v
  BY <1>1 DEF SendInv
<1> QED BY <1>2, <1>3 DEF SendInv

\* The references to a message that no other thread sends.
LEMMA RefNow ==
    ASSUME SendInv, NEW t \in Thread, NEW m \in Msg,
           call_msg[t] = m \/ \A u \in Thread : call_msg[u] # m
    PROVE  /\ (\E u \in Thread : call_msg[u] = m) <=> call_msg[t] = m
           /\ (\E u \in Thread : call_msg[u] = m /\ call[u] = "push")
                 <=> call_msg[t] = m /\ call[t] = "push"
BY MessageAssumption DEF SendInv

\* RefInv after a step in which the count of one message follows its holders.
LEMMA RefNext ==
    ASSUME SendInv, SendInv', RefInv, NEW t \in Thread, OnlyCall(t),
           \A m \in Msg : m \in {call_msg[t], call_msg'[t]} =>
               refcnt'[m] = Ref(fate'[m] = "queued") + Ref(call_msg'[t] = m)
                            + Ref(call_msg'[t] = m /\ call'[t] = "push")
    PROVE  RefInv'
<1> SUFFICES ASSUME NEW m \in Msg
             PROVE  refcnt'[m] = Ref(fate'[m] = "queued")
                                 + Ref(\E u \in Thread : call_msg'[u] = m)
                                 + Ref(\E u \in Thread : call_msg'[u] = m /\ call'[u] = "push")
  BY DEF RefInv, Ref
<1>1. CASE m \in {call_msg[t], call_msg'[t]}
  <2>1. \A u \in Thread : u # t => call_msg'[u] # m
    BY <1>1, MessageAssumption DEF OnlyCall, SendInv
  <2>2. /\ (\E u \in Thread : call_msg'[u] = m) <=> call_msg'[t] = m
        /\ (\E u \in Thread : call_msg'[u] = m /\ call'[u] = "push")
              <=> call_msg'[t] = m /\ call'[t] = "push"
    BY <2>1
  <2> QED BY <1>1, <2>2 DEF Ref
<1>2. CASE m \notin {call_msg[t], call_msg'[t]}
  <2>1. fate'[m] = fate[m] /\ refcnt'[m] = refcnt[m]
    BY <1>2 DEF OnlyCall
  <2>2. /\ (\E u \in Thread : call_msg'[u] = m) <=> (\E u \in Thread : call_msg[u] = m)
        /\ (\E u \in Thread : call_msg'[u] = m /\ call'[u] = "push")
              <=> (\E u \in Thread : call_msg[u] = m /\ call[u] = "push")
    BY <1>2 DEF OnlyCall
  <2> QED BY <2>1, <2>2 DEF RefInv, Ref
<1> QED BY <1>1, <1>2

\* The references to the message a thread sends, before its step.
LEMMA RefHere ==
    ASSUME SendInv, RefInv, NEW t \in Thread, call_msg[t] \in Msg
    PROVE  refcnt[call_msg[t]] = Ref(fate[call_msg[t]] = "queued") + 1 + Ref(call[t] = "push")
<1>1. /\ \E u \in Thread : call_msg[u] = call_msg[t]
      /\ (\E u \in Thread : call_msg[u] = call_msg[t] /\ call[u] = "push") <=> call[t] = "push"
  BY RefNow
<1> QED BY <1>1 DEF RefInv, Ref

\* Receivers give messages up, no call goes on.
LEMMA SendReleased ==
    ASSUME SendInv, CallTypeOK, CallInv, UNCHANGED callVars,
           \A m \in Msg : \/ fate'[m] = fate[m]
                          \/ fate[m] = "queued" /\ fate'[m] \in closedFates
    PROVE  SendInv'
<1> SUFFICES ASSUME NEW t \in Thread
             PROVE  /\ call'[t] \in {"idle", "resume", "exit", "teardown", "wake"}
                           => call_msg'[t] = NoMsg
                    /\ call'[t] \in {"check", "alloc", "push"} => fate'[call_msg'[t]] = "sending"
                    /\ call'[t] \in {"alloc", "push"} => call_srv'[t] = Dest(call_msg'[t])
                    /\ call_msg'[t] # NoMsg => fate'[call_msg'[t]] # "fresh"
                    /\ \A u \in Thread :
                          call_msg'[t] = call_msg'[u] /\ call_msg'[t] # NoMsg => t = u
  BY DEF SendInv
<1>1. call'[t] = call[t] /\ call_msg' = call_msg /\ call_srv'[t] = call_srv[t]
  BY DEF callVars
<1>2. /\ call[t] \in {"idle", "resume", "exit", "teardown", "wake"} => call_msg[t] = NoMsg
      /\ call[t] \in {"check", "alloc", "push"} =>
            call_msg[t] \in Msg /\ fate[call_msg[t]] = "sending"
      /\ call[t] \in {"alloc", "push"} => call_srv[t] = Dest(call_msg[t])
      /\ call_msg[t] # NoMsg => call_msg[t] \in Msg /\ fate[call_msg[t]] # "fresh"
      /\ \A u \in Thread : call_msg[t] = call_msg[u] /\ call_msg[t] # NoMsg => t = u
  BY DEF SendInv, CallTypeOK, CallInv
<1> QED BY <1>1, <1>2 DEF closedFates

\* Messages that leave their queues with the one reference the queue had.
LEMMA RefReleased ==
    ASSUME RefInv, UNCHANGED callVars,
           \A m \in Msg : \/ fate'[m] = fate[m] /\ refcnt'[m] = refcnt[m]
                          \/ /\ fate[m] = "queued" /\ fate'[m] \in closedFates
                             /\ refcnt'[m] = refcnt[m] - 1
    PROVE  RefInv'
<1>1. call' = call /\ call_msg' = call_msg
  BY DEF callVars
<1> SUFFICES ASSUME NEW m \in Msg
             PROVE  refcnt'[m] = Ref(fate'[m] = "queued")
                                 + Ref(\E u \in Thread : call_msg'[u] = m)
                                 + Ref(\E u \in Thread : call_msg'[u] = m /\ call'[u] = "push")
  BY DEF RefInv, Ref
<1>2. refcnt[m] = Ref(fate[m] = "queued") + Ref(\E u \in Thread : call_msg[u] = m)
                  + Ref(\E u \in Thread : call_msg[u] = m /\ call[u] = "push")
  BY DEF RefInv
<1> QED BY <1>1, <1>2 DEF Ref, closedFates

\* A default response stays where it is, and so does the request it is for.
LEMMA DfltKept ==
    ASSUME DfltInv,
           \A r \in Request : fate'[Dflt(r)] # "fresh" => fate[Dflt(r)] # "fresh",
           \A r \in Request : fate[Req(r)] = "dropped" => fate'[Req(r)] = "dropped",
           \A g \in Group : pc[g] = "drop" =>
               pc'[g] = "drop" /\ cur_msg'[Table[g][idx'[g]]] = cur_msg[Table[g][idx[g]]]
    PROVE  DfltInv'
BY DEF DfltInv

-----------------------------------------------------------------------------
\* The steps of the API calls

\* What the invariants say of the thread that takes a step of a call.
LEMMA CallerFacts ==
    ASSUME IInv, FlowInv, NEW t \in Thread
    PROVE  /\ call_msg[t] \in Msg \cup {NoMsg}
           /\ call[t] \in {"idle", "resume", "exit", "teardown", "wake"} => call_msg[t] = NoMsg
           /\ call[t] \in {"check", "alloc", "push"} =>
                 call_msg[t] \in Msg /\ fate[call_msg[t]] = "sending"
           /\ call[t] \in {"alloc", "push"} => call_srv[t] = Dest(call_msg[t])
           /\ call_msg[t] # NoMsg => fate[call_msg[t]] # "fresh"
           /\ call_msg[t] \in Msg => refcnt[call_msg[t]] \in Int
                  /\ refcnt[call_msg[t]] = Ref(fate[call_msg[t]] = "queued") + 1
                                           + Ref(call[t] = "push")
<1>1. SendInv /\ RefInv
  BY DEF FlowInv
<1>2. call_msg[t] \in Msg => refcnt[call_msg[t]] \in Int
                  /\ refcnt[call_msg[t]] = Ref(fate[call_msg[t]] = "queued") + 1
                                           + Ref(call[t] = "push")
  BY <1>1, RefHere DEF IInv, TypeOK, MsgTypeOK
<1> QED BY <1>1, <1>2 DEF SendInv, IInv, TypeOK, CallTypeOK, CallInv

\* A send begins with a message nobody has seen (eaf_msg_create_req,
\* eaf_msg_create_rsp).
LEMMA StartFlow ==
    ASSUME IInv, FlowInv, NEW t \in Thread, NEW m \in Msg, call[t] = "idle",
           fate[m] = "fresh", StartSend(t, m)
    PROVE  /\ SendInv' /\ RefInv'
           /\ \A x \in Msg : fate'[x] = IF x = m THEN "sending" ELSE fate[x]
<1>1. /\ call \in [Thread -> CallPc] /\ call_msg \in [Thread -> Msg \cup {NoMsg}]
      /\ refcnt \in [Msg -> Int] /\ fate \in [Msg -> Fate]
      /\ CallTypeOK /\ CallInv /\ SendInv /\ RefInv
  BY DEF IInv, TypeOK, CallTypeOK, MsgTypeOK, FlowInv
<1>2. /\ call'[t] = "check" /\ call_msg'[t] = m
      /\ \A u \in Thread : u # t => call'[u] = call[u] /\ call_msg'[u] = call_msg[u]
      /\ UNCHANGED call_srv
  BY <1>1 DEF StartSend
<1>3. \A x \in Msg : /\ fate'[x] = IF x = m THEN "sending" ELSE fate[x]
                     /\ refcnt'[x] = IF x = m THEN 1 ELSE refcnt[x]
  BY <1>1 DEF StartSend
<1>4. call_msg[t] = NoMsg /\ \A u \in Thread : call_msg[u] # m
  BY MessageAssumption, CallerFacts
<1>5. OnlyCall(t)
  BY <1>2, <1>3, <1>4 DEF OnlyCall
<1>6. SendInv'
  BY <1>1, <1>2, <1>3, <1>5, SendNext
<1>7. \A x \in Msg : x \in {call_msg[t], call_msg'[t]} =>
          refcnt'[x] = Ref(fate'[x] = "queued") + Ref(call_msg'[t] = x)
                       + Ref(call_msg'[t] = x /\ call'[t] = "push")
  BY <1>2, <1>3, <1>4, MessageAssumption DEF Ref
<1> QED BY <1>1, <1>3, <1>5, <1>6, <1>7, RefNext

\* A send is refused.
LEMMA FailFlow ==
    ASSUME IInv, FlowInv, NEW t \in Thread, NEW n \in Int,
           (call[t] \in {"check", "alloc"} /\ n = 1) \/ (call[t] = "push" /\ n = 2),
           SendFails(t, n)
    PROVE  /\ SendInv' /\ RefInv' /\ call_msg[t] \in Msg /\ fate[call_msg[t]] = "sending"
           /\ \A x \in Msg : fate'[x] = IF x = call_msg[t] THEN "failed" ELSE fate[x]
<1>1. /\ call \in [Thread -> CallPc] /\ call_msg \in [Thread -> Msg \cup {NoMsg}]
      /\ refcnt \in [Msg -> Int] /\ fate \in [Msg -> Fate]
      /\ call_srv \in [Thread -> Service \cup {NoService}]
      /\ CallTypeOK /\ CallInv /\ SendInv /\ RefInv
  BY DEF IInv, TypeOK, CallTypeOK, MsgTypeOK, FlowInv
<1>2. /\ call'[t] = "idle" /\ call_msg'[t] = NoMsg
      /\ \A u \in Thread : u # t => /\ call'[u] = call[u] /\ call_msg'[u] = call_msg[u]
                                    /\ call_srv'[u] = call_srv[u]
  BY <1>1 DEF SendFails
<1>3. \A x \in Msg : /\ fate'[x] = IF x = call_msg[t] THEN "failed" ELSE fate[x]
                     /\ refcnt'[x] = IF x = call_msg[t] THEN refcnt[x] - n ELSE refcnt[x]
  BY <1>1 DEF SendFails
<1>4. /\ call_msg[t] \in Msg /\ fate[call_msg[t]] = "sending"
      /\ refcnt[call_msg[t]] \in Int
      /\ refcnt[call_msg[t]] = Ref(fate[call_msg[t]] = "queued") + 1 + Ref(call[t] = "push")
  BY CallerFacts
<1>5. OnlyCall(t)
  BY <1>2, <1>3 DEF OnlyCall
<1>6. SendInv'
  BY <1>1, <1>2, <1>3, <1>5, SendNext
<1>7. refcnt'[call_msg[t]] = 0
  BY <1>3, <1>4 DEF Ref
<1>8. \A x \in Msg : x \in {call_msg[t], call_msg'[t]} =>
          refcnt'[x] = Ref(fate'[x] = "queued") + Ref(call_msg'[t] = x)
                       + Ref(call_msg'[t] = x /\ call'[t] = "push")
  BY <1>2, <1>3, <1>4, <1>7, MessageAssumption DEF Ref
<1> QED BY <1>1, <1>3, <1>4, <1>5, <1>6, <1>8, RefNext

\* SendCheck: the message goes on to the allocation, or is refused and released.
LEMMA CheckFlow ==
    ASSUME IInv, FlowInv, NEW t \in Thread, SendCheck(t)
    PROVE  /\ SendInv' /\ RefInv'
           /\ \A m \in Msg : Moves(m) /\ (fate'[m] = "queued" <=> fate[m] = "queued")
<1>1. CASE SendFails(t, 1)
  BY <1>1, FailFlow DEF SendCheck, Moves
<1>2. CASE ~SendFails(t, 1)
  <2>1. /\ call[t] = "check" /\ call' = [call EXCEPT ![t] = "alloc"]
        /\ call_srv' = [call_srv EXCEPT ![t] = Dest(call_msg[t])]
        /\ UNCHANGED <<call_msg, refcnt, fate>>
    BY <1>2 DEF SendCheck, msgVars
  <2>2. /\ call \in [Thread -> CallPc] /\ call_srv \in [Thread -> Service \cup {NoService}]
        /\ CallTypeOK /\ CallInv /\ SendInv /\ RefInv
    BY DEF IInv, TypeOK, CallTypeOK, FlowInv
  <2>3. /\ call'[t] = "alloc" /\ call_srv'[t] = Dest(call_msg[t])
        /\ \A u \in Thread : u # t => call'[u] = call[u] /\ call_srv'[u] = call_srv[u]
    BY <2>1, <2>2
  <2>4. OnlyCall(t)
    BY <2>1, <2>3 DEF OnlyCall
  <2>5. SendInv'
    BY <2>1, <2>2, <2>3, <2>4, SendNext, CallerFacts
  <2>6. call_msg[t] \in Msg /\ refcnt[call_msg[t]] = Ref(fate[call_msg[t]] = "queued") + 1 + Ref(FALSE)
    BY <2>1, CallerFacts DEF Ref
  <2>7. RefInv'
    BY <2>1, <2>2, <2>3, <2>4, <2>5, <2>6, RefNext DEF Ref
  <2> QED BY <2>1, <2>5, <2>7 DEF Moves
<1> QED BY <1>1, <1>2

\* PushAlloc: the push takes a reference of its own.
LEMMA AllocFlow ==
    ASSUME IInv, FlowInv, NEW t \in Thread, PushAlloc(t)
    PROVE  /\ SendInv' /\ RefInv'
           /\ \A m \in Msg : Moves(m) /\ (fate'[m] = "queued" <=> fate[m] = "queued")
<1>1. CASE SendFails(t, 1)
  BY <1>1, FailFlow DEF PushAlloc, Moves
<1>2. CASE ~SendFails(t, 1)
  <2>1. /\ call[t] = "alloc" /\ call' = [call EXCEPT ![t] = "push"]
        /\ refcnt' = [refcnt EXCEPT ![call_msg[t]] = @ + 1]
        /\ UNCHANGED <<call_msg, call_srv, fate>>
    BY <1>2 DEF PushAlloc
  <2>2. /\ call \in [Thread -> CallPc] /\ refcnt \in [Msg -> Int]
        /\ CallTypeOK /\ CallInv /\ SendInv /\ RefInv
    BY DEF IInv, TypeOK, CallTypeOK, MsgTypeOK, FlowInv
  <2>3. /\ call_msg[t] \in Msg /\ fate[call_msg[t]] = "sending"
        /\ call_srv[t] = Dest(call_msg[t])
        /\ refcnt[call_msg[t]] = Ref(fate[call_msg[t]] = "queued") + 1 + Ref(call[t] = "push")
    BY <2>1, CallerFacts
  <2>4. /\ call'[t] = "push" /\ \A u \in Thread : u # t => call'[u] = call[u]
        /\ \A m \in Msg : refcnt'[m] = IF m = call_msg[t] THEN refcnt[m] + 1 ELSE refcnt[m]
    BY <2>1, <2>2
  <2>5. OnlyCall(t)
    BY <2>1, <2>4 DEF OnlyCall
  <2>6. SendInv'
    BY <2>1, <2>2, <2>3, <2>4, <2>5, SendNext
  <2>7. refcnt'[call_msg[t]] = 2
    BY <2>1, <2>3, <2>4 DEF Ref
  <2>8. RefInv'
    BY <2>1, <2>2, <2>3, <2>4, <2>5, <2>6, <2>7, RefNext DEF Ref
  <2> QED BY <2>1, <2>6, <2>8 DEF Moves
<1> QED BY <1>1, <1>2

\* PushQueue: the message enters the queue of its receiver.
LEMMA QueueFlow ==
    ASSUME IInv, FlowInv, NEW t \in Thread, PushQueue(t)
    PROVE  /\ SendInv' /\ RefInv' /\ PlaceInv'
           /\ call_msg[t] \in Msg /\ fate[call_msg[t]] = "sending"
           /\ Dest(call_msg[t]) \in Service
           /\ queue' = [queue EXCEPT ![Dest(call_msg[t])] =
                                         Append(queue[Dest(call_msg[t])], call_msg[t])]
           /\ \A m \in Msg : fate'[m] = IF m = call_msg[t] THEN "queued" ELSE fate[m]
<1>1. /\ call[t] = "push" /\ call' = [call EXCEPT ![t] = "post"]
      /\ queue' = [queue EXCEPT ![call_srv[t]] = Append(queue[call_srv[t]], call_msg[t])]
      /\ fate' = [fate EXCEPT ![call_msg[t]] = "queued"]
      /\ UNCHANGED <<call_msg, call_srv, refcnt, cur_msg>>
  BY DEF PushQueue, Pushed
<1>2. /\ call \in [Thread -> CallPc] /\ fate \in [Msg -> Fate]
      /\ CallTypeOK /\ CallInv /\ SendInv /\ RefInv /\ MsgqTypeOK /\ MsgTypeOK /\ PlaceInv
  BY DEF IInv, TypeOK, CallTypeOK, MsgTypeOK, FlowInv
<1>3. /\ call_msg[t] \in Msg /\ fate[call_msg[t]] = "sending"
      /\ call_srv[t] = Dest(call_msg[t]) /\ call_srv[t] \in Service
      /\ refcnt[call_msg[t]] = Ref(fate[call_msg[t]] = "queued") + 1 + Ref(call[t] = "push")
  BY <1>1, <1>2, CallerFacts DEF CallInv
<1>4. /\ call'[t] = "post" /\ \A u \in Thread : u # t => call'[u] = call[u]
      /\ \A m \in Msg : fate'[m] = IF m = call_msg[t] THEN "queued" ELSE fate[m]
  BY <1>1, <1>2
<1>5. OnlyCall(t)
  BY <1>1, <1>4 DEF OnlyCall
<1>6. SendInv'
  BY <1>1, <1>2, <1>3, <1>4, <1>5, SendNext
<1>7. refcnt'[call_msg[t]] = 2
  BY <1>1, <1>3 DEF Ref
<1>8. RefInv'
  BY <1>1, <1>2, <1>3, <1>4, <1>5, <1>6, <1>7, RefNext DEF Ref
<1>9. PlaceInv'
  BY <1>1, <1>2, <1>3, PlacesPushed
<1> QED BY <1>1, <1>3, <1>4, <1>6, <1>8, <1>9

\* CallPost: the frame ends, and with it the sender's own hold of its message.
LEMMA PostFlow ==
    ASSUME IInv, FlowInv, NEW t \in Thread, CallPost(t)
    PROVE  SendInv' /\ RefInv' /\ UNCHANGED fate
<1>1. /\ call[t] = "post" /\ call' = [call EXCEPT ![t] = "idle"]
      /\ refcnt' = IF call_msg[t] = NoMsg THEN refcnt
                   ELSE [refcnt EXCEPT ![call_msg[t]] = @ - 1]
      /\ call_msg' = [call_msg EXCEPT ![t] = NoMsg]
      /\ call_srv' = [call_srv EXCEPT ![t] = NoService]
      /\ UNCHANGED fate
  BY DEF CallPost
<1>2. /\ call \in [Thread -> CallPc] /\ refcnt \in [Msg -> Int]
      /\ call_msg \in [Thread -> Msg \cup {NoMsg}]
      /\ call_srv \in [Thread -> Service \cup {NoService}]
      /\ CallTypeOK /\ CallInv /\ SendInv /\ RefInv
  BY DEF IInv, TypeOK, CallTypeOK, MsgTypeOK, FlowInv
<1>3. /\ call'[t] = "idle" /\ call_msg'[t] = NoMsg
      /\ \A u \in Thread : u # t => /\ call'[u] = call[u] /\ call_msg'[u] = call_msg[u]
                                    /\ call_srv'[u] = call_srv[u]
      /\ \A m \in Msg : refcnt'[m] = IF m = call_msg[t] THEN refcnt[m] - 1 ELSE refcnt[m]
  BY <1>1, <1>2, MessageAssumption
<1>4. OnlyCall(t)
  BY <1>1, <1>3 DEF OnlyCall
<1>5. SendInv'
  BY <1>1, <1>2, <1>3, <1>4, SendNext
<1>6. call_msg[t] \in Msg =>
          refcnt'[call_msg[t]] = Ref(fate'[call_msg[t]] = "queued")
  BY <1>1, <1>3, CallerFacts DEF Ref
<1>7. \A x \in Msg : x \in {call_msg[t], call_msg'[t]} =>
          refcnt'[x] = Ref(fate'[x] = "queued") + Ref(call_msg'[t] = x)
                       + Ref(call_msg'[t] = x /\ call'[t] = "push")
  BY <1>3, <1>6, MessageAssumption DEF Ref
<1> QED BY <1>1, <1>2, <1>4, <1>5, <1>7, RefNext

\* eaf_resume, eaf_exit and eaf_teardown send nothing.
LEMMA QuietFlow ==
    ASSUME IInv, FlowInv, NEW t \in Thread,
           \/ ResumeCall(t) \/ QuitCall(t) \/ ResumeLock(t) \/ QuitSet(t) \/ QuitWake(t)
    PROVE  SendInv' /\ RefInv' /\ UNCHANGED fate
<1>1. /\ UNCHANGED <<call_msg, refcnt, fate>>
      /\ call[t] \in {"idle", "resume", "exit", "teardown", "wake"}
  BY DEF ResumeCall, QuitCall, ResumeLock, QuitSet, QuitWake, InUserCode, msgVars
<1>2. /\ call \in [Thread -> CallPc] /\ call_srv \in [Thread -> Service \cup {NoService}]
      /\ CallTypeOK /\ CallInv /\ SendInv /\ RefInv
  BY DEF IInv, TypeOK, CallTypeOK, FlowInv
<1>3. /\ call'[t] \in {"idle", "resume", "exit", "teardown", "wake", "post"}
      /\ \A u \in Thread : u # t => call'[u] = call[u] /\ call_srv'[u] = call_srv[u]
  BY <1>2, BoundAssumption, ThreadAssumption
     DEF ResumeCall, QuitCall, ResumeLock, QuitSet, QuitWake
<1>4. OnlyCall(t)
  BY <1>1, <1>3 DEF OnlyCall
<1>5. call_msg[t] = NoMsg
  BY <1>1, CallerFacts
<1>6. SendInv'
  BY <1>1, <1>2, <1>3, <1>4, <1>5, SendNext
<1>7. \A x \in Msg : x \notin {call_msg[t], call_msg'[t]}
  BY <1>1, <1>5, MessageAssumption
<1> QED BY <1>1, <1>2, <1>4, <1>6, <1>7, RefNext

\* What a step of an API call does to the messages.
LEMMA ApiFlow ==
    ASSUME IInv, FlowInv, NEW t \in Thread, CallStart(t) \/ CallStep(t)
    PROVE  /\ SendInv' /\ RefInv' /\ \A m \in Msg : Moves(m)
           /\ ~PushQueue(t) => \A m \in Msg : fate'[m] = "queued" <=> fate[m] = "queued"
           /\ \A r \in Request : fate'[Dflt(r)] # "fresh" => fate[Dflt(r)] # "fresh"
<1>1. CASE SendCall(t)
  <2>1. PICK m \in Msg : fate[m] = "fresh" /\ MaySend(t, m) /\ StartSend(t, m)
    BY <1>1 DEF SendCall
  <2>2. call[t] = "idle" /\ m.kind # "dflt"
    BY <1>1, <2>1 DEF SendCall, InUserCode, MaySend
  <2>3. /\ SendInv' /\ RefInv'
        /\ \A x \in Msg : fate'[x] = IF x = m THEN "sending" ELSE fate[x]
    BY <2>1, <2>2, StartFlow
  <2>4. \A x \in Msg : Moves(x) /\ (fate'[x] = "queued" <=> fate[x] = "queued")
    BY <2>1, <2>3 DEF Moves
  <2>5. \A r \in Request : fate'[Dflt(r)] = fate[Dflt(r)]
    BY <2>2, <2>3, Messages
  <2> QED BY <2>3, <2>4, <2>5
<1>2. CASE SendCheck(t) \/ PushAlloc(t) \/ PushFail(t)
  <2>1. /\ SendInv' /\ RefInv'
        /\ \A m \in Msg : Moves(m) /\ (fate'[m] = "queued" <=> fate[m] = "queued")
    BY <1>2, CheckFlow, AllocFlow, FailFlow DEF PushFail, Moves
  <2>2. \A m \in Msg : fate'[m] # "fresh" => fate[m] # "fresh"
    <3>1. CASE \E n \in Int : /\ (call[t] \in {"check", "alloc"} /\ n = 1)
                                 \/ (call[t] = "push" /\ n = 2)
                              /\ SendFails(t, n)
      BY <3>1, FailFlow
    <3>2. CASE UNCHANGED fate
      BY <3>2
    <3> QED BY <1>2, <3>1, <3>2 DEF SendCheck, PushAlloc, PushFail, msgVars
  <2> QED BY <2>1, <2>2, Messages
<1>3. CASE PushQueue(t)
  <2>1. /\ SendInv' /\ RefInv' /\ fate[call_msg[t]] = "sending"
        /\ \A m \in Msg : fate'[m] = IF m = call_msg[t] THEN "queued" ELSE fate[m]
    BY <1>3, QueueFlow
  <2> QED BY <1>3, <2>1, Messages DEF Moves
<1>4. CASE \/ CallPost(t) \/ ResumeCall(t) \/ QuitCall(t) \/ ResumeLock(t)
           \/ QuitSet(t) \/ QuitWake(t)
  <2>1. SendInv' /\ RefInv' /\ UNCHANGED fate
    BY <1>4, PostFlow, QuietFlow
  <2> QED BY <2>1 DEF Moves
<1> QED BY <1>1, <1>2, <1>3, <1>4 DEF CallStart, CallStep

\* Every step of an API call keeps FlowInv.
LEMMA ApiFlowInv ==
    ASSUME IInv, FlowInv, NEW t \in Thread, CallStart(t) \/ CallStep(t)
    PROVE  FlowInv'
<1>1. SendInv' /\ RefInv'
  BY ApiFlow
<1>2. PlaceInv'
  <2>1. CASE PushQueue(t)
    BY <2>1, QueueFlow
  <2>2. CASE ~PushQueue(t)
    BY <2>2, ApiFlow, ApiFrame, PlacesStay DEF IInv, TypeOK, FlowInv
  <2> QED BY <2>1, <2>2
<1>3. DfltInv'
  <2>1. /\ UNCHANGED <<pc, idx, cur_msg>>
        /\ \A r \in Request : fate'[Dflt(r)] # "fresh" => fate[Dflt(r)] # "fresh"
        /\ \A m \in Msg : Moves(m)
    BY ApiFrame, ApiFlow DEF ctlVars
  <2>2. \A r \in Request : fate[Req(r)] = "dropped" => fate'[Req(r)] = "dropped"
    BY <2>1, Messages DEF Moves
  <2> QED BY <2>1, <2>2, DfltKept DEF FlowInv
<1> QED BY <1>1, <1>2, <1>3 DEF FlowInv

-----------------------------------------------------------------------------
\* The steps of the working threads

\* A service takes the first message of its queue.
Serves(s) ==
    /\ cur_msg[s] = NoMsg /\ queue[s] # <<>>
    /\ cur_msg' = [cur_msg EXCEPT ![s] = Head(queue[s])]
    /\ queue' = [queue EXCEPT ![s] = Tail(queue[s])]

\* The steps that end the handling of a message.
LEMMA GroupResets ==
    ASSUME IInv, StateInv, NEW g \in Group, HandleBefore(g) \/ HandlerReturn(g) \/ Drop(g)
    PROVE  \/ UNCHANGED <<callVars, msgVars, msgqVars>> /\ ~Drop(g)
           \/ \E s \in Service, what \in closedFates :
                 /\ GroupOf(s) = g /\ cur_msg[s] # NoMsg
                 /\ Reset(s, what) /\ UNCHANGED <<queue, callVars>>
                 /\ Drop(g) => s = Table[g][idx[g]] /\ what = "dropped"
                 /\ pc[g] = "drop" => Drop(g)
<1>1. RunOK(g) /\ ThreadInv
  BY DEF StateInv, GroupInv, IInv
<1>2. CASE Drop(g)
  <2>1. /\ Table[g][idx[g]] \in Service /\ GroupOf(Table[g][idx[g]]) = g
        /\ cur_msg[Table[g][idx[g]]] # NoMsg
    BY <1>1, <1>2, GroupFacts DEF Drop, At, RunOK
  <2> QED BY <1>2, <2>1 DEF Drop, closedFates
<1>3. CASE HandleBefore(g) \/ HandlerReturn(g)
  <2>1. /\ pc[g] \in {"handle", "run"} /\ cur_run[g] \in Service /\ GroupOf(cur_run[g]) = g
        /\ cur_msg[cur_run[g]] # NoMsg
    BY <1>1, <1>3 DEF HandleBefore, HandlerReturn, At, RunOK, ThreadInv
  <2>2. ~Drop(g)
    BY <2>1 DEF Drop, At
  <2>3. \/ UNCHANGED <<callVars, msgVars, msgqVars>>
        \/ Reset(cur_run[g], "vetoed") /\ UNCHANGED <<queue, callVars>>
        \/ Reset(cur_run[g], "handled") /\ UNCHANGED <<queue, callVars>>
    BY <1>3 DEF HandleBefore, HandlerReturn, msgqVars
  <2>4. "vetoed" \in closedFates /\ "handled" \in closedFates /\ pc[g] # "drop"
    BY <2>1 DEF closedFates
  <2>5. CASE UNCHANGED <<callVars, msgVars, msgqVars>>
    BY <2>2, <2>5
  <2>6. CASE ~UNCHANGED <<callVars, msgVars, msgqVars>>
    BY <2>1, <2>2, <2>3, <2>4, <2>6
  <2> QED BY <2>5, <2>6
<1> QED BY <1>2, <1>3

\* A request that is discarded is answered by a default response nobody has
\* seen (_eaf_service_teardown_cleanup_msgq).
LEMMA DrainEffect ==
    ASSUME IInv, FlowInv, NEW g \in Group, DrainNext(g)
    PROVE  \E s \in Service, m \in Msg :
              /\ s = Table[g][idx[g]] /\ GroupOf(s) = g /\ fate[m] = "queued"
              /\ UNCHANGED msgqVars \/ Serves(s)
              /\ cur_msg'[s] = m /\ pc'[g] = "drop" /\ idx' = idx
              /\ \/ UNCHANGED <<callVars, msgVars>>
                 \/ /\ m = Req(m.id) /\ fate[Dflt(m.id)] = "fresh" /\ call[g] = "idle"
                    /\ StartSend(g, Dflt(m.id))
<1> DEFINE s == Table[g][idx[g]]
           m == IF cur_msg[s] # NoMsg THEN cur_msg[s] ELSE Head(queue[s])
<1>1. s \in Service /\ GroupOf(s) = g /\ pc[g] = "drain" /\ call[g] = "idle"
  BY GroupFacts DEF DrainNext, At
<1>2. /\ cur_msg[s] # NoMsg \/ queue[s] # <<>>
      /\ cur_msg' = [cur_msg EXCEPT ![s] = m]
      /\ queue' = IF cur_msg[s] # NoMsg THEN queue ELSE [queue EXCEPT ![s] = Tail(queue[s])]
      /\ IF m.kind = "req" THEN StartSend(g, Dflt(m.id)) ELSE UNCHANGED <<callVars, msgVars>>
      /\ pc' = [pc EXCEPT ![g] = "drop"] /\ idx' = idx
  BY DEF DrainNext, PopFront, Jump
<1>3. MsgqTypeOK /\ PlaceInv /\ CtlTypeOK /\ DfltInv
  BY DEF IInv, TypeOK, FlowInv
<1> HIDE DEF s
<1>4. m \in Msg /\ m \in Held(s)
  <2>1. queue[s] \in Seq(Msg) /\ cur_msg[s] \in Msg \cup {NoMsg} /\ Distinct(queue[s])
    BY <1>1, <1>3, HeldExactly
  <2>2. CASE cur_msg[s] # NoMsg
    BY <2>1, <2>2 DEF Held
  <2>3. CASE cur_msg[s] = NoMsg
    <3>1. Head(queue[s]) \in Msg /\ Head(queue[s]) \in ToSet(queue[s])
      BY <1>2, <2>1, <2>3, TailSet
    <3> QED BY <2>3, <3>1 DEF Held
  <2> QED BY <2>2, <2>3
<1>5. fate[m] = "queued" /\ Dest(m) = s
  BY <1>1, <1>3, <1>4, HeldExactly
<1>6. UNCHANGED msgqVars \/ Serves(s)
  <2>1. cur_msg \in [Service -> Msg \cup {NoMsg}]
    BY <1>3 DEF MsgqTypeOK
  <2> QED BY <1>1, <1>2, <2>1 DEF msgqVars, Serves
<1>7. cur_msg'[s] = m /\ pc'[g] = "drop"
  BY <1>1, <1>2, <1>3 DEF MsgqTypeOK, CtlTypeOK
<1>8. ASSUME m.kind = "req"
      PROVE  m = Req(m.id) /\ fate[Dflt(m.id)] = "fresh"
  <2>1. m.id \in Request /\ m = Req(m.id)
    BY <1>4, <1>8, Messages
  <2>2. ASSUME NEW h \in Group, pc[h] = "drop", cur_msg[Table[h][idx[h]]] = m
        PROVE  FALSE
    <3>1. Table[h][idx[h]] \in Service /\ GroupOf(Table[h][idx[h]]) = h
      BY <2>2, GroupFacts
    <3>2. m \in Held(Table[h][idx[h]])
      BY <1>4, <2>2, Messages DEF Held
    <3>3. Table[h][idx[h]] = s
      BY <1>3, <1>5, <3>1, <3>2, HeldExactly
    <3> QED BY <1>1, <2>2, <3>1, <3>3
  <2> QED BY <1>3, <1>5, <2>1, <2>2 DEF DfltInv
<1> QED BY <1>1, <1>2, <1>4, <1>5, <1>6, <1>7, <1>8 DEF s

\* What a step of a working thread does to queues and messages.
LEMMA GroupFlow ==
    ASSUME IInv, StateInv, FlowInv, NEW g \in Group, GroupStep(g)
    PROVE  \/ UNCHANGED <<callVars, msgVars, msgqVars>> /\ pc[g] # "drop"
           \/ /\ UNCHANGED <<callVars, msgVars>> /\ pc[g] = "dispatch"
              /\ cur_run[g] \in Service /\ GroupOf(cur_run[g]) = g /\ Serves(cur_run[g])
           \/ HandleBefore(g) \/ HandlerReturn(g) \/ Drop(g)
           \/ DrainNext(g)
<1>1. \/ UNCHANGED <<callVars, msgVars, msgqVars>> /\ pc[g] # "drop"
      \/ Dispatch(g) \/ HandleBefore(g) \/ HandlerReturn(g) \/ Drop(g) \/ DrainNext(g)
  BY DEF GroupStep, restCtl, ctxVars, WaitStart, Pend, InitNext, InitDone, OnInitReturn,
     PostReady,
         LoopCheck, IfTeardown, Pick, TryPend, DispatchInit, Dispatch,
         HandleBefore, HandlerReturn, HandlerYield, YieldHookReturn, TeardownNext, TeardownDone,
         GroupExitNext, GroupExitDone, OnExitReturn, DrainNext, Drop, DrainDone, At, msgqVars
<1>2. CASE Dispatch(g)
  <2>1. cur_run[g] \in Service /\ GroupOf(cur_run[g]) = g /\ pc[g] = "dispatch"
    BY <1>2 DEF IInv, ThreadInv, Dispatch, At
  <2>2. /\ UNCHANGED <<callVars, msgVars>>
        /\ UNCHANGED msgqVars \/ Serves(cur_run[g])
    BY <1>2 DEF Dispatch, Suspended, PopFront, Serves
  <2>3. CASE UNCHANGED msgqVars
    BY <2>1, <2>2, <2>3
  <2>4. CASE Serves(cur_run[g])
    BY <2>1, <2>2, <2>4
  <2> QED BY <2>2, <2>3, <2>4
<1> QED BY <1>1, <1>2

\* The threads of other groups keep what they are about to drop.
LEMMA OtherDrops ==
    ASSUME IInv, NEW g \in Group, GroupStep(g), NEW h \in Group, h # g, pc[h] = "drop"
    PROVE  pc'[h] = "drop" /\ cur_msg'[Table[h][idx'[h]]] = cur_msg[Table[h][idx[h]]]
<1>1. pc'[h] = pc[h] /\ idx'[h] = idx[h]
  BY GroupFrame
<1>2. Table[h][idx[h]] \in Service /\ GroupOf(Table[h][idx[h]]) = h
  BY GroupFacts
<1>3. cur_msg'[Table[h][idx[h]]] = cur_msg[Table[h][idx[h]]]
  BY <1>2, ServiceFrame
<1> QED BY <1>1, <1>3

\* A service is done with its message.
LEMMA ResetFlow ==
    ASSUME IInv, FlowInv, NEW s \in Service, cur_msg[s] # NoMsg, NEW what \in closedFates,
           Reset(s, what), UNCHANGED <<queue, callVars>>
    PROVE  /\ SendInv' /\ RefInv' /\ PlaceInv'
           /\ cur_msg[s] \in Msg /\ fate[cur_msg[s]] = "queued" /\ Dest(cur_msg[s]) = s
           /\ \A m \in Msg : fate'[m] = IF m = cur_msg[s] THEN what ELSE fate[m]
<1>1. /\ fate \in [Msg -> Fate] /\ refcnt \in [Msg -> Int] /\ MsgTypeOK /\ MsgqTypeOK
      /\ CallTypeOK /\ CallInv /\ SendInv /\ RefInv /\ PlaceInv
  BY DEF IInv, TypeOK, MsgTypeOK, FlowInv
<1>2. cur_msg[s] \in Msg /\ fate[cur_msg[s]] = "queued" /\ Dest(cur_msg[s]) = s
  BY <1>1, HeldExactly DEF Held
<1>3. \A m \in Msg : /\ fate'[m] = IF m = cur_msg[s] THEN what ELSE fate[m]
                     /\ refcnt'[m] = IF m = cur_msg[s] THEN refcnt[m] - 1 ELSE refcnt[m]
  BY <1>1, <1>2 DEF Reset
<1>4. \A m \in Msg : \/ fate'[m] = fate[m] /\ refcnt'[m] = refcnt[m]
                     \/ /\ fate[m] = "queued" /\ fate'[m] \in closedFates
                        /\ refcnt'[m] = refcnt[m] - 1
  BY <1>2, <1>3
<1>5. SendInv' /\ RefInv'
  BY <1>1, <1>4, SendReleased, RefReleased
<1>6. PlaceInv'
  <2>1. what # "queued"
    BY DEF closedFates
  <2> QED BY <1>1, <2>1, PlacesReset DEF Reset
<1> QED BY <1>2, <1>3, <1>5, <1>6

\* The messages after a step of a working thread that ends the handling of one.
LEMMA ResetFlowInv ==
    ASSUME IInv, StateInv, FlowInv, NEW g \in Group, GroupStep(g),
           HandleBefore(g) \/ HandlerReturn(g) \/ Drop(g),
           NEW s \in Service, NEW what \in closedFates,
           cur_msg[s] # NoMsg, Reset(s, what), UNCHANGED <<queue, callVars>>,
           Drop(g) => s = Table[g][idx[g]] /\ what = "dropped",
           pc[g] = "drop" => Drop(g)
    PROVE  FlowInv'
<1> DEFINE m == cur_msg[s]
<1>1. /\ SendInv' /\ RefInv' /\ PlaceInv'
      /\ m \in Msg /\ fate[m] = "queued"
      /\ \A x \in Msg : fate'[x] = IF x = m THEN what ELSE fate[x]
  BY ResetFlow
<1>2. SUFFICES ASSUME NEW r \in Request, fate'[Dflt(r)] # "fresh", fate'[Req(r)] # "dropped"
               PROVE  \E h \in Group : pc'[h] = "drop" /\ cur_msg'[Table[h][idx'[h]]] = Req(r)
  BY <1>1 DEF FlowInv, DfltInv
<1> HIDE DEF m
<1>3. Req(r) \in Msg /\ Dflt(r) \in Msg
  BY Messages
<1>4. fate[Dflt(r)] # "fresh" /\ fate[Req(r)] # "dropped"
  BY <1>1, <1>2, <1>3
<1>5. PICK h \in Group : pc[h] = "drop" /\ cur_msg[Table[h][idx[h]]] = Req(r)
  BY <1>4 DEF FlowInv, DfltInv
<1>6. h # g
  BY <1>1, <1>2, <1>3, <1>5 DEF m
<1> QED BY <1>5, <1>6, OtherDrops

\* The messages after _eaf_service_teardown_cleanup_msgq took one.
LEMMA DrainFlowInv ==
    ASSUME IInv, FlowInv, NEW g \in Group, GroupStep(g), DrainNext(g)
    PROVE  FlowInv'
<1>1. PICK s \in Service, m \in Msg :
          /\ s = Table[g][idx[g]] /\ GroupOf(s) = g /\ fate[m] = "queued"
          /\ UNCHANGED msgqVars \/ Serves(s)
          /\ cur_msg'[s] = m /\ pc'[g] = "drop" /\ idx' = idx
          /\ \/ UNCHANGED <<callVars, msgVars>>
             \/ /\ m = Req(m.id) /\ fate[Dflt(m.id)] = "fresh" /\ call[g] = "idle"
                /\ StartSend(g, Dflt(m.id))
  BY DrainEffect
<1>2. /\ SendInv /\ RefInv /\ PlaceInv /\ DfltInv /\ MsgqTypeOK /\ CallTypeOK /\ CallInv
      /\ g \in Thread /\ pc[g] = "drain"
  BY DEF FlowInv, IInv, TypeOK, Thread, DrainNext, At
<1>3. /\ SendInv' /\ RefInv'
      /\ \/ \A x \in Msg : fate'[x] = fate[x]
         \/ /\ m = Req(m.id) /\ fate[Dflt(m.id)] = "fresh"
            /\ \A x \in Msg : fate'[x] = IF x = Dflt(m.id) THEN "sending" ELSE fate[x]
  <2>1. CASE UNCHANGED <<callVars, msgVars>>
    <3>1. UNCHANGED callVars /\ \A x \in Msg : fate'[x] = fate[x] /\ refcnt'[x] = refcnt[x]
      BY <2>1 DEF msgVars
    <3> QED BY <1>2, <3>1, SendReleased, RefReleased
  <2>2. CASE /\ m = Req(m.id) /\ fate[Dflt(m.id)] = "fresh" /\ call[g] = "idle"
             /\ StartSend(g, Dflt(m.id))
    <3>1. Dflt(m.id) \in Msg
      BY Messages
    <3> QED BY <1>2, <2>2, <3>1, StartFlow
  <2> QED BY <1>1, <2>1, <2>2
<1>4. PlaceInv'
  <2>1. \A x \in Msg : fate'[x] = "queued" <=> fate[x] = "queued"
    BY <1>3
  <2>2. CASE UNCHANGED msgqVars
    BY <1>2, <2>1, <2>2, PlacesStay DEF msgqVars
  <2>3. CASE Serves(s)
    BY <1>2, <2>1, <2>3, PlacesPopped DEF Serves
  <2> QED BY <1>1, <2>2, <2>3
<1>5. DfltInv'
  <2>1. SUFFICES ASSUME NEW r \in Request, fate'[Dflt(r)] # "fresh", fate'[Req(r)] # "dropped"
                 PROVE  \E h \in Group :
                           pc'[h] = "drop" /\ cur_msg'[Table[h][idx'[h]]] = Req(r)
    BY DEF DfltInv
  <2>2. CASE fate[Dflt(r)] = "fresh"
    <3>1. m = Req(m.id) /\ Dflt(r) = Dflt(m.id)
      BY <1>3, <2>1, <2>2, Messages
    <3>2. m = Req(r)
      BY <3>1, Messages
    <3> QED BY <1>1, <3>2
  <2>3. CASE fate[Dflt(r)] # "fresh"
    <3>1. fate[Req(r)] # "dropped"
      BY <1>3, <2>1, Messages
    <3>2. PICK h \in Group : pc[h] = "drop" /\ cur_msg[Table[h][idx[h]]] = Req(r)
      BY <1>2, <2>3, <3>1 DEF DfltInv
    <3> QED BY <1>2, <3>2, OtherDrops
  <2> QED BY <2>2, <2>3
<1> QED BY <1>3, <1>4, <1>5 DEF FlowInv

\* A default response is not lost while a working thread does something else.
LEMMA DfltStays ==
    ASSUME IInv, FlowInv, NEW g \in Group, GroupStep(g), pc[g] # "drop",
           \A m \in Msg : fate'[m] = fate[m]
    PROVE  DfltInv'
<1>1. \A r \in Request : fate'[Dflt(r)] = fate[Dflt(r)] /\ fate'[Req(r)] = fate[Req(r)]
  BY Messages
<1>2. \A h \in Group : pc[h] = "drop" =>
          pc'[h] = "drop" /\ cur_msg'[Table[h][idx'[h]]] = cur_msg[Table[h][idx[h]]]
  BY OtherDrops
<1> QED BY <1>1, <1>2, DfltKept DEF FlowInv

\* Every step of a working thread keeps FlowInv.
LEMMA GroupFlowInv ==
    ASSUME IInv, StateInv, FlowInv, NEW g \in Group, GroupStep(g)
    PROVE  FlowInv'
<1>1. /\ SendInv /\ RefInv /\ PlaceInv /\ DfltInv /\ MsgqTypeOK /\ CallTypeOK /\ CallInv
  BY DEF FlowInv, IInv, TypeOK
<1>2. ASSUME UNCHANGED <<callVars, msgVars>>
      PROVE  SendInv' /\ RefInv' /\ \A m \in Msg : fate'[m] = fate[m] /\ refcnt'[m] = refcnt[m]
  <2>1. UNCHANGED callVars /\ \A m \in Msg : fate'[m] = fate[m] /\ refcnt'[m] = refcnt[m]
    BY <1>2 DEF msgVars
  <2> QED BY <1>1, <2>1, SendReleased, RefReleased
<1>3. CASE UNCHANGED <<callVars, msgVars, msgqVars>> /\ pc[g] # "drop"
  <2>1. PlaceInv'
    BY <1>1, <1>2, <1>3, PlacesStay DEF msgqVars
  <2> QED BY <1>2, <1>3, <2>1, DfltStays DEF FlowInv
<1>4. CASE /\ UNCHANGED <<callVars, msgVars>> /\ pc[g] = "dispatch"
           /\ cur_run[g] \in Service /\ GroupOf(cur_run[g]) = g /\ Serves(cur_run[g])
  <2>1. PlaceInv'
    BY <1>1, <1>2, <1>4, PlacesPopped DEF Serves
  <2> QED BY <1>2, <1>4, <2>1, DfltStays DEF FlowInv
<1>5. CASE HandleBefore(g) \/ HandlerReturn(g) \/ Drop(g)
  <2>1. CASE UNCHANGED <<callVars, msgVars, msgqVars>> /\ ~Drop(g)
    <3>1. pc[g] # "drop"
      BY <1>5, <2>1 DEF HandleBefore, HandlerReturn, At
    <3> QED BY <1>3, <2>1, <3>1
  <2>2. CASE \E s \in Service, what \in closedFates :
                 /\ GroupOf(s) = g /\ cur_msg[s] # NoMsg
                 /\ Reset(s, what) /\ UNCHANGED <<queue, callVars>>
                 /\ Drop(g) => s = Table[g][idx[g]] /\ what = "dropped"
                 /\ pc[g] = "drop" => Drop(g)
    BY <1>5, <2>2, ResetFlowInv
  <2> QED BY <1>5, <2>1, <2>2, GroupResets
<1>6. CASE DrainNext(g)
  BY <1>6, DrainFlowInv
<1> QED BY <1>3, <1>4, <1>5, <1>6, GroupFlow

-----------------------------------------------------------------------------
\* The steps of Main, and the theorem

\* Every step of the main thread keeps FlowInv.
LEMMA MainFlowInv ==
    ASSUME IInv, StateInv, FlowInv,
           EafInit \/ LoadCall \/ CleanupCall \/ MainStep \/ \E s \in Service : Register(s)
    PROVE  FlowInv'
<1>1. /\ SendInv /\ RefInv /\ PlaceInv /\ DfltInv /\ MsgqTypeOK /\ CallTypeOK /\ CallInv
  BY DEF FlowInv, IInv, TypeOK
<1>2. CASE CleanupGroup
  <2>1. /\ PlaceInv'
        /\ \A m \in Msg : IF fate[m] = "queued" /\ GroupOf(Dest(m)) = main_grp
                          THEN fate'[m] = "freed" /\ refcnt'[m] = refcnt[m] - 1
                          ELSE fate'[m] = fate[m] /\ refcnt'[m] = refcnt[m]
    BY <1>1, <1>2, PlacesCleaned
  <2>2. UNCHANGED callVars /\ UNCHANGED <<pc, idx>> /\ pc[main_grp] = "end"
    BY <1>2 DEF CleanupGroup, ctlVars
  <2>3. \A m \in Msg : \/ fate'[m] = fate[m] /\ refcnt'[m] = refcnt[m]
                       \/ /\ fate[m] = "queued" /\ fate'[m] \in closedFates
                          /\ refcnt'[m] = refcnt[m] - 1
    BY <2>1 DEF closedFates
  <2>4. SendInv' /\ RefInv'
    BY <1>1, <2>2, <2>3, SendReleased, RefReleased
  <2>5. ASSUME NEW h \in Group, pc[h] = "drop"
        PROVE  pc'[h] = "drop" /\ cur_msg'[Table[h][idx'[h]]] = cur_msg[Table[h][idx[h]]]
    <3>1. Table[h][idx[h]] \in Service /\ GroupOf(Table[h][idx[h]]) = h /\ h # main_grp
      BY <2>2, <2>5, GroupFacts
    <3>2. cur_msg'[Table[h][idx[h]]] = cur_msg[Table[h][idx[h]]]
      BY <1>2, <3>1 DEF CleanupGroup
    <3> QED BY <2>2, <2>5, <3>2
  <2>6. DfltInv'
    <3>1. /\ \A r \in Request : fate'[Dflt(r)] # "fresh" => fate[Dflt(r)] # "fresh"
          /\ \A r \in Request : fate[Req(r)] = "dropped" => fate'[Req(r)] = "dropped"
      BY <2>1, Messages
    <3> QED BY <1>1, <2>5, <3>1, DfltKept
  <2> QED BY <2>1, <2>4, <2>6 DEF FlowInv
<1>3. CASE \/ EafInit \/ LoadCall \/ CleanupCall \/ LoadStart \/ LoadWake \/ LoadWait
           \/ CleanupFree \/ LoadFix \/ \E s \in Service : Register(s)
  <2>1. UNCHANGED <<queue, cur_msg, idx, callVars, msgVars>>
    BY <1>3, MainFrame, LoadFixEffect DEF StateInv, msgqVars, ctlVars
  <2>2. \A m \in Msg : fate'[m] = fate[m] /\ refcnt'[m] = refcnt[m]
    BY <2>1 DEF msgVars
  <2>3. SendInv' /\ RefInv' /\ PlaceInv'
    BY <1>1, <2>1, <2>2, SendReleased, RefReleased, PlacesStay
  <2>4. \A g \in Group : pc[g] = "drop" => pc'[g] = "drop"
    <3>1. CASE EafInit
      BY <3>1 DEF EafInit, MainAt, IInv, MainInv
    <3>2. CASE ~EafInit
      BY <1>3, <3>2 DEF LoadCall, CleanupCall, LoadStart, LoadWake, LoadWait, CleanupFree,
         LoadFix,
                        Register, restMain, ctlVars
    <3> QED BY <3>1, <3>2
  <2>5. DfltInv'
    <3>1. \A r \in Request : fate'[Dflt(r)] = fate[Dflt(r)] /\ fate'[Req(r)] = fate[Req(r)]
      BY <2>2, Messages
    <3> QED BY <1>1, <2>1, <2>4, <3>1, DfltKept
  <2> QED BY <2>3, <2>5 DEF FlowInv
<1> QED BY <1>2, <1>3 DEF MainStep

\* FlowInv holds at the start: every message is fresh and nowhere.
LEMMA InitFlowInv == Init => FlowInv
<1> SUFFICES ASSUME Init PROVE FlowInv
  OBVIOUS
<1>1. /\ \A t \in Thread : call[t] = "idle" /\ call_msg[t] = NoMsg
      /\ \A m \in Msg : fate[m] = "fresh" /\ refcnt[m] = 0
      /\ \A s \in Service : queue[s] = <<>> /\ cur_msg[s] = NoMsg
  BY DEF Init
<1>2. SendInv
  BY <1>1 DEF SendInv
<1>3. PlaceInv
  <2>1. \A s \in Service : Held(s) = {} /\ ToSet(queue[s]) = {}
    BY <1>1 DEF Held, ToSet
  <2> QED BY <1>1, <2>1 DEF PlaceInv
<1>4. DfltInv
  BY <1>1, Messages DEF DfltInv
<1>5. RefInv
  BY <1>1, MessageAssumption DEF RefInv, Ref
<1> QED BY <1>2, <1>3, <1>4, <1>5 DEF FlowInv

\* FlowInv is inductive, given the invariants of the other two proof modules.
LEMMA NextFlowInv == IInv /\ StateInv /\ FlowInv /\ [Next]_vars => FlowInv'
<1> SUFFICES ASSUME IInv, StateInv, FlowInv, [Next]_vars PROVE FlowInv'
  OBVIOUS
<1>1. CASE \E t \in Thread : CallStart(t) \/ CallStep(t)
  BY <1>1, ApiFlowInv
<1>2. CASE \E g \in Group : GroupStep(g)
  BY <1>2, GroupFlowInv
<1>3. CASE EafInit \/ LoadCall \/ CleanupCall \/ MainStep \/ \E s \in Service : Register(s)
  BY <1>3, MainFlowInv
<1>4. CASE UNCHANGED vars
  <2>1. /\ UNCHANGED <<queue, cur_msg, idx, pc, callVars>>
        /\ \A m \in Msg : fate'[m] = fate[m] /\ refcnt'[m] = refcnt[m]
    BY <1>4 DEF vars, msgqVars, ctlVars, msgVars
  <2>2. SendInv' /\ RefInv' /\ PlaceInv'
    BY <2>1, SendReleased, RefReleased, PlacesStay DEF FlowInv, IInv, TypeOK
  <2>3. DfltInv'
    <3>1. \A r \in Request : fate'[Dflt(r)] = fate[Dflt(r)] /\ fate'[Req(r)] = fate[Req(r)]
      BY <2>1, Messages
    <3> QED BY <2>1, <3>1, DfltKept DEF FlowInv
  <2> QED BY <2>2, <2>3 DEF FlowInv
<1> QED BY <1>1, <1>2, <1>3, <1>4 DEF Next


-----------------------------------------------------------------------------
\* How many requests a service has

\* The threads that can have a request for a service are finitely many.
LEMMA SendersFinite ==
    ASSUME NEW s \in Service
    PROVE  IsFiniteSet(Senders(s)) /\ IsFiniteSet(Thread) /\ Cardinality(Senders(s)) \in Nat
<1>1. IsFiniteSet(Thread)
  <2>1. IsFiniteSet(Group \cup Client)
    BY PostedFinite, ThreadAssumption, FS_Union
  <2> QED BY <2>1, FS_AddElement DEF Thread
<1>2. \A r \in Request : SenderOf(r) \subseteq Thread
  BY TableProperties, MessageAssumption DEF SenderOf, Thread
<1>3. Senders(s) \in SUBSET Thread
  BY <1>2 DEF Senders
<1>4. IsFiniteSet(Senders(s))
  BY <1>1, <1>3, FS_Subset
<1> QED BY <1>1, <1>4, FS_CardinalityType

\* A queue has finitely many elements.
LEMMA QueueFinite ==
    ASSUME NEW S, NEW l \in Seq(S)
    PROVE  IsFiniteSet(ToSet(l)) /\ Cardinality(ToSet(l)) <= Len(l)
<1>1. l \in Surjection(1 .. Len(l), ToSet(l))
  BY DEF Surjection, ToSet
<1>2. IsFiniteSet(1 .. Len(l)) /\ Cardinality(1 .. Len(l)) = Len(l)
  <2>1. Len(l) \in Nat /\ 1 \in Int /\ Len(l) \in Int
    OBVIOUS
  <2>2. /\ IsFiniteSet(1 .. Len(l))
        /\ Cardinality(1 .. Len(l)) = IF 1 > Len(l) THEN 0 ELSE Len(l) - 1 + 1
    BY <2>1, FS_Interval
  <2> QED BY <2>1, <2>2
<1> QED BY <1>1, <1>2, FS_Surjection

\* What the capacity counts is finite.
LEMMA CountsFinite ==
    ASSUME IInv, NEW s \in Service
    PROVE  /\ IsFiniteSet(RequestsAt(s)) /\ Cardinality(RequestsAt(s)) \in Nat
           /\ IsFiniteSet(Pushing(s)) /\ Cardinality(Pushing(s)) \in Nat
           /\ Cardinality(Senders(s)) \in Nat /\ Capacity[s] \in Nat
<1>1. IsFiniteSet(ToSet(queue[s]))
  BY QueueFinite DEF IInv, TypeOK, MsgqTypeOK
<1>2. IsFiniteSet(RequestsAt(s))
  <2>1. RequestsAt(s) \in SUBSET ToSet(queue[s])
    BY DEF RequestsAt
  <2> QED BY <1>1, <2>1, FS_Subset
<1>3. IsFiniteSet(Pushing(s))
  <2>1. Pushing(s) \in SUBSET Thread
    BY DEF Pushing
  <2> QED BY <2>1, SendersFinite, FS_Subset
<1> QED BY <1>2, <1>3, SendersFinite, FS_CardinalityType, ServiceAssumption

\* Fewer requests at a service stay below the bound.
LEMMA BoundStays ==
    ASSUME IInv, NEW s \in Service, Bounded(s),
           RequestsAt(s)' \subseteq RequestsAt(s), Pushing(s)' \subseteq Pushing(s)
    PROVE  Bounded(s)'
<1> DEFINE R == RequestsAt(s)
           P == Pushing(s)
<1>1. /\ IsFiniteSet(R) /\ Cardinality(R) \in Nat /\ IsFiniteSet(P) /\ Cardinality(P) \in Nat
      /\ Cardinality(Senders(s)) \in Nat /\ Capacity[s] \in Nat
  BY CountsFinite
<1>2. ASSUME NEW X \in SUBSET R, NEW Y \in SUBSET P, X # {} \/ Y # {}
      PROVE  Cardinality(X) + Cardinality(Y) <= Capacity[s] + Cardinality(Senders(s)) - 1
  <2>1. Cardinality(R) + Cardinality(P) <= Capacity[s] + Cardinality(Senders(s)) - 1
    BY <1>2 DEF Bounded
  <2>2. /\ IsFiniteSet(X) /\ Cardinality(X) <= Cardinality(R)
        /\ IsFiniteSet(Y) /\ Cardinality(Y) <= Cardinality(P)
    BY <1>1, FS_Subset
  <2>3. Cardinality(X) \in Nat /\ Cardinality(Y) \in Nat
    BY <2>2, FS_CardinalityType
  <2> HIDE DEF R, P
  <2> QED BY <1>1, <2>1, <2>2, <2>3
<1>3. PICK X \in SUBSET R, Y \in SUBSET P : X = RequestsAt(s)' /\ Y = Pushing(s)'
  OBVIOUS
<1>4. Senders(s)' = Senders(s)
  BY DEF Senders, SenderOf
<1> HIDE DEF R, P
<1>5. X # {} \/ Y # {} =>
          Cardinality(X) + Cardinality(Y) <= Capacity[s] + Cardinality(Senders(s)) - 1
  BY <1>2
<1> QED BY <1>3, <1>4, <1>5 DEF Bounded

\* A queue that lost its first message, all of them or none has no new request.
LEMMA RequestsShrink ==
    ASSUME MsgqTypeOK, PlaceInv, NEW s \in Service,
           \/ queue'[s] = queue[s] \/ queue'[s] = <<>>
           \/ queue[s] # <<>> /\ queue'[s] = Tail(queue[s])
    PROVE  RequestsAt(s)' \subseteq RequestsAt(s)
<1>1. queue[s] \in Seq(Msg) /\ Distinct(queue[s])
  BY HeldExactly
<1>2. ToSet(queue'[s]) \subseteq ToSet(queue[s])
  <2>1. CASE queue'[s] = queue[s]
    BY <2>1
  <2>2. CASE queue'[s] = <<>>
    BY <2>2 DEF ToSet
  <2>3. CASE queue[s] # <<>> /\ queue'[s] = Tail(queue[s])
    BY <1>1, <2>3, TailSet
  <2> QED BY <2>1, <2>2, <2>3
<1> QED BY <1>2 DEF RequestsAt

\* A thread sends the requests of the service it runs, or of none.
LEMMA StartsOwn ==
    ASSUME IInv, NEW t \in Thread, NEW m \in Msg, InUserCode(t), MaySend(t, m),
           m.kind = "req"
    PROVE  t \in SenderOf(m.id)
<1>1. From[m.id] = Self(t)
  BY DEF MaySend
<1>2. CASE t \in Group
  <2>1. Running(t) \in Service /\ GroupOf(Running(t)) = t
    BY <1>2, GroupFacts DEF InUserCode, UserPc, Running, IInv, ThreadInv
  <2> QED BY <1>1, <1>2, <2>1, ServiceAssumption DEF Self, SenderOf
<1>3. CASE t \notin Group
  BY <1>1, <1>3 DEF Self, SenderOf, Thread
<1> QED BY <1>2, <1>3

\* What an API call does to the messages of the calls.
LEMMA CallMoves ==
    ASSUME IInv, NEW t \in Thread, CallStart(t) \/ CallStep(t)
    PROVE  /\ \A u \in Thread : u # t => call_msg'[u] = call_msg[u]
           /\ call_msg'[t] \in {call_msg[t], NoMsg} \/ SendCall(t)
           /\ call'[t] = "push" => PushAlloc(t)
<1>1. /\ call \in [Thread -> CallPc] /\ call_msg \in [Thread -> Msg \cup {NoMsg}]
  BY DEF IInv, TypeOK, CallTypeOK
<1>2. CASE SendCall(t) \/ SendCheck(t) \/ PushAlloc(t) \/ PushFail(t)
  BY <1>1, <1>2 DEF SendCall, SendCheck, PushAlloc, PushFail, StartSend, SendFails, msgVars
<1>3. CASE PushQueue(t) \/ CallPost(t)
  BY <1>1, <1>3 DEF PushQueue, CallPost
<1>4. CASE ResumeCall(t) \/ QuitCall(t) \/ ResumeLock(t) \/ QuitSet(t) \/ QuitWake(t)
  BY <1>1, <1>4, ThreadAssumption DEF ResumeCall, QuitCall, ResumeLock, QuitSet, QuitWake
<1> QED BY <1>2, <1>3, <1>4 DEF CallStart, CallStep

\* Only the threads that may act for a sender have its requests.
LEMMA OwnersKept ==
    ASSUME IInv, BoundInv, NEW t \in Thread, CallStart(t) \/ CallStep(t), NEW u \in Thread,
           call_msg'[u] # NoMsg, call_msg'[u].kind = "req"
    PROVE  u \in SenderOf(call_msg'[u].id)
<1>1. CASE u # t \/ ~SendCall(t)
  BY <1>1, CallMoves DEF BoundInv
<1>2. CASE u = t /\ SendCall(t)
  <2>1. PICK m \in Msg : InUserCode(t) /\ MaySend(t, m) /\ call_msg' = [call_msg EXCEPT ![t] = m]
    BY <1>2 DEF SendCall, StartSend
  <2>2. call_msg'[t] = m
    BY <2>1 DEF IInv, TypeOK, CallTypeOK
  <2> QED BY <1>2, <2>1, <2>2, StartsOwn
<1> QED BY <1>1, <1>2

\* The capacity check of _eaf_service_push_msg.
LEMMA AllocBound ==
    ASSUME FullInv, NEW t \in Thread, PushAlloc(t), ~SendFails(t, 1), NEW s \in Service
    PROVE  Bounded(s)'
<1>1. /\ SendInv /\ CallInv /\ IInv /\ Bounded(s) /\ FlowInv
      /\ \A u \in Thread : call_msg[u] # NoMsg /\ call_msg[u].kind = "req"
                             => u \in SenderOf(call_msg[u].id)
      /\ call \in [Thread -> CallPc]
  BY DEF FullInv, FlowInv, IInv, BoundInv, TypeOK, CallTypeOK
<1>2. /\ call[t] = "alloc" /\ ~Full(call_msg[t], call_srv[t])
      /\ call' = [call EXCEPT ![t] = "push"]
      /\ UNCHANGED <<call_msg, call_srv, queue>>
  BY DEF PushAlloc, restApi, msgqVars
<1>3. RequestsAt(s)' = RequestsAt(s) /\ Senders(s)' = Senders(s)
  BY <1>2 DEF RequestsAt, Senders, SenderOf
<1>4. CASE call_srv[t] = s /\ call_msg[t].kind = "req"
  <2>1. SendInv' /\ CallInv'
    BY <1>1, AllocFlow, ApiSteps DEF CallStep, IInv
  <2>2. Pushing(s)' \subseteq Senders(s)
    <3>1. \A u \in Thread : call'[u] = "push" =>
              /\ call_msg'[u] \in Msg /\ call_msg'[u] # NoMsg
              /\ call_srv'[u] = Dest(call_msg'[u])
      BY <2>1, MessageAssumption DEF SendInv, CallInv
    <3>2. \A u \in Thread : call_msg'[u] # NoMsg /\ call_msg'[u].kind = "req"
                             => u \in SenderOf(call_msg'[u].id)
      BY <1>1, <1>2
    <3>3. ASSUME NEW u \in Thread, call'[u] = "push", call_srv'[u] = s,
                 call_msg'[u].kind = "req"
          PROVE  u \in Senders(s)
      <4>1. /\ call_msg'[u].id \in Request /\ To[call_msg'[u].id] = s
            /\ u \in SenderOf(call_msg'[u].id)
        BY <3>1, <3>2, <3>3, Messages DEF Dest
      <4> QED BY <4>1 DEF Senders
    <3> QED BY <3>3 DEF Pushing
  <2>3. Cardinality(Pushing(s)') <= Cardinality(Senders(s))
    BY <2>2, SendersFinite, FS_Subset
  <2>4. Cardinality(RequestsAt(s)) <= Len(queue[s])
    <3>1. queue[s] \in Seq(Msg)
      BY <1>1 DEF IInv, TypeOK, MsgqTypeOK
    <3>2. IsFiniteSet(ToSet(queue[s])) /\ Cardinality(ToSet(queue[s])) <= Len(queue[s])
      BY <3>1, QueueFinite
    <3>3. RequestsAt(s) \in SUBSET ToSet(queue[s])
      BY DEF RequestsAt
    <3>4. /\ Cardinality(RequestsAt(s)) \in Nat /\ Cardinality(ToSet(queue[s])) \in Nat
          /\ Len(queue[s]) \in Nat
      BY <1>1, <3>1, <3>2, CountsFinite, FS_CardinalityType
    <3>5. Cardinality(RequestsAt(s)) <= Cardinality(ToSet(queue[s]))
      BY <3>2, <3>3, FS_Subset
    <3> QED BY <3>2, <3>4, <3>5
  <2>5. Len(queue[s]) < Capacity[s] /\ Len(queue[s]) \in Nat /\ Capacity[s] \in Nat
    BY <1>1, <1>2, <1>4, ServiceAssumption DEF Full, IInv, TypeOK, MsgqTypeOK
  <2>6. /\ Cardinality(RequestsAt(s)) \in Nat /\ Cardinality(Senders(s)) \in Nat
        /\ Cardinality(Pushing(s)') \in Nat
    BY <1>1, <2>2, CountsFinite, SendersFinite, FS_Subset, FS_CardinalityType
  <2>7. Cardinality(RequestsAt(s)) + Cardinality(Pushing(s)')
            <= Capacity[s] + Cardinality(Senders(s)) - 1
    BY <2>3, <2>4, <2>5, <2>6
  <2> QED BY <1>3, <2>7 DEF Bounded
<1>5. CASE ~(call_srv[t] = s /\ call_msg[t].kind = "req")
  <2>1. Pushing(s)' \subseteq Pushing(s)
    BY <1>1, <1>2, <1>5 DEF Pushing
  <2> QED BY <1>1, <1>3, <2>1, BoundStays
<1> QED BY <1>4, <1>5

\* A request moves from the sender to the queue.
LEMMA QueueBound ==
    ASSUME FullInv, NEW t \in Thread, PushQueue(t), NEW s \in Service
    PROVE  Bounded(s)'
<1> DEFINE m == call_msg[t]
<1>1. /\ IInv /\ FlowInv /\ Bounded(s) /\ SendInv /\ MsgqTypeOK /\ PlaceInv
      /\ call \in [Thread -> CallPc]
  BY DEF FullInv, FlowInv, IInv, BoundInv, TypeOK, CallTypeOK
<1>2. /\ call[t] = "push" /\ call' = [call EXCEPT ![t] = "post"]
      /\ UNCHANGED <<call_msg, call_srv>>
      /\ m \in Msg /\ fate[m] = "sending" /\ call_srv[t] = Dest(m)
      /\ \A x \in Service :
            queue'[x] = IF x = call_srv[t] THEN Append(queue[x], call_msg[t]) ELSE queue[x]
  BY <1>1, PushEffect, CallerFacts DEF PushQueue
<1>3. Pushing(s)' = Pushing(s) \ {t}
  BY <1>1, <1>2 DEF Pushing
<1>4. CASE s = Dest(m) /\ m.kind = "req"
  <2>1. RequestsAt(s)' = RequestsAt(s) \cup {m}
    <3>1. queue[s] \in Seq(Msg) /\ Distinct(queue[s]) /\ m \notin ToSet(queue[s])
      BY <1>1, <1>2, HeldExactly DEF Held
    <3>2. ToSet(queue'[s]) = ToSet(queue[s]) \cup {m}
      BY <1>2, <1>4, <3>1, AppendSet
    <3> QED BY <1>4, <3>2 DEF RequestsAt
  <2>2. t \in Pushing(s)
    BY <1>2, <1>4 DEF Pushing
  <2>3. /\ IsFiniteSet(RequestsAt(s)) /\ Cardinality(RequestsAt(s)) \in Nat
        /\ IsFiniteSet(Pushing(s)) /\ Cardinality(Pushing(s)) \in Nat
        /\ Cardinality(Senders(s)) \in Nat /\ Capacity[s] \in Nat
    BY <1>1, CountsFinite
  <2>4. Cardinality(RequestsAt(s)') <= Cardinality(RequestsAt(s)) + 1
    <3>1. \/ Cardinality(RequestsAt(s) \cup {m}) = Cardinality(RequestsAt(s))
          \/ Cardinality(RequestsAt(s) \cup {m}) = Cardinality(RequestsAt(s)) + 1
      BY <2>3, FS_AddElement
    <3> QED BY <2>1, <2>3, <3>1
  <2>5. Cardinality(Pushing(s)') = Cardinality(Pushing(s)) - 1
    BY <1>3, <2>2, <2>3, FS_RemoveElement
  <2>6. Cardinality(RequestsAt(s)) + Cardinality(Pushing(s))
            <= Capacity[s] + Cardinality(Senders(s)) - 1
    BY <1>1, <2>2 DEF Bounded
  <2>7. Cardinality(RequestsAt(s)') \in Nat
    BY <2>1, <2>3, FS_AddElement, FS_CardinalityType
  <2>8. Cardinality(RequestsAt(s)') + Cardinality(Pushing(s)')
            <= Capacity[s] + Cardinality(Senders(s)) - 1
    BY <2>3, <2>4, <2>5, <2>6, <2>7
  <2>9. Senders(s)' = Senders(s)
    BY DEF Senders, SenderOf
  <2> QED BY <2>8, <2>9 DEF Bounded
<1>5. CASE ~(s = Dest(m) /\ m.kind = "req")
  <2>1. RequestsAt(s)' \subseteq RequestsAt(s)
    <3>1. CASE s # Dest(m)
      BY <1>1, <1>2, <3>1, RequestsShrink
    <3>2. CASE s = Dest(m) /\ m.kind # "req"
      <4>1. queue[s] \in Seq(Msg) /\ Distinct(queue[s]) /\ m \notin ToSet(queue[s])
        BY <1>1, <1>2, <3>2, HeldExactly DEF Held
      <4>2. ToSet(queue'[s]) = ToSet(queue[s]) \cup {m}
        BY <1>2, <3>2, <4>1, AppendSet
      <4> QED BY <3>2, <4>2 DEF RequestsAt
    <3> QED BY <1>5, <3>1, <3>2
  <2> QED BY <1>1, <1>3, <2>1, BoundStays
<1> QED BY <1>4, <1>5

\* Every step of an API call keeps BoundInv.
LEMMA ApiBoundInv ==
    ASSUME FullInv, NEW t \in Thread, CallStart(t) \/ CallStep(t)
    PROVE  BoundInv'
<1>1. /\ IInv /\ FlowInv /\ BoundInv /\ MsgqTypeOK /\ PlaceInv
      /\ \A s \in Service : Bounded(s)
  BY DEF FullInv, FlowInv, IInv, TypeOK, BoundInv
<1>2. ASSUME NEW s \in Service
      PROVE  Bounded(s)'
  <2>1. CASE PushQueue(t)
    BY <2>1, QueueBound
  <2>2. CASE PushAlloc(t) /\ ~SendFails(t, 1)
    BY <2>2, AllocBound
  <2>3. CASE ~PushQueue(t) /\ ~(PushAlloc(t) /\ ~SendFails(t, 1))
    <3>1. RequestsAt(s)' \subseteq RequestsAt(s)
      BY <1>1, <2>3, ApiFrame, RequestsShrink
    <3>2. call'[t] # "push"
      <4>1. call \in [Thread -> CallPc]
        BY <1>1 DEF IInv, TypeOK, CallTypeOK
      <4>2. CASE SendFails(t, 1)
        BY <4>1, <4>2 DEF SendFails
      <4>3. CASE ~PushAlloc(t)
        BY <1>1, <4>3, CallMoves
      <4> QED BY <2>3, <4>2, <4>3
    <3>3. Pushing(s)' \subseteq Pushing(s)
      BY <1>1, <3>2, CallMoves, ApiIsolation DEF Pushing
    <3> QED BY <1>1, <3>1, <3>3, BoundStays
  <2> QED BY <2>1, <2>2, <2>3
<1>3. \A u \in Thread : call_msg'[u] # NoMsg /\ call_msg'[u].kind = "req"
                          => u \in SenderOf(call_msg'[u].id)
  BY <1>1, OwnersKept
<1> QED BY <1>2, <1>3 DEF BoundInv, SenderOf

\* Receivers take or give up messages, and no call passes the capacity check.
LEMMA BoundKept ==
    ASSUME FullInv,
           \A s \in Service : \/ queue'[s] = queue[s] \/ queue'[s] = <<>>
                              \/ queue[s] # <<>> /\ queue'[s] = Tail(queue[s]),
           \/ UNCHANGED callVars
           \/ \E t \in Thread, r \in Request : StartSend(t, Dflt(r))
    PROVE  BoundInv'
<1>1. /\ IInv /\ MsgqTypeOK /\ PlaceInv /\ BoundInv /\ \A s \in Service : Bounded(s)
      /\ call \in [Thread -> CallPc] /\ call_msg \in [Thread -> Msg \cup {NoMsg}]
  BY DEF FullInv, FlowInv, IInv, TypeOK, BoundInv, CallTypeOK
<1>2. ASSUME NEW u \in Thread
      PROVE  /\ call'[u] = "push" => call[u] = "push" /\ call_msg'[u] = call_msg[u]
             /\ call_srv'[u] = call_srv[u]
             /\ call_msg'[u] = call_msg[u] \/ call_msg'[u].kind = "dflt"
  <2>1. CASE UNCHANGED callVars
    BY <2>1 DEF callVars
  <2>2. CASE \E t \in Thread, r \in Request : StartSend(t, Dflt(r))
    <3>1. PICK t \in Thread, r \in Request :
              /\ call' = [call EXCEPT ![t] = "check"]
              /\ call_msg' = [call_msg EXCEPT ![t] = Dflt(r)] /\ call_srv' = call_srv
      BY <2>2 DEF StartSend
    <3>2. Dflt(r).kind = "dflt"
      BY Messages
    <3> QED BY <1>1, <3>1, <3>2
  <2> QED BY <2>1, <2>2
<1>3. ASSUME NEW s \in Service
      PROVE  Bounded(s)'
  <2>1. RequestsAt(s)' \subseteq RequestsAt(s)
    BY <1>1, RequestsShrink
  <2>2. Pushing(s)' \subseteq Pushing(s)
    BY <1>2 DEF Pushing
  <2> QED BY <1>1, <2>1, <2>2, BoundStays
<1>4. \A u \in Thread : call_msg'[u] # NoMsg /\ call_msg'[u].kind = "req"
                          => u \in SenderOf(call_msg'[u].id)
  BY <1>1, <1>2 DEF BoundInv
<1> QED BY <1>3, <1>4 DEF BoundInv, SenderOf

\* Every step of a working thread keeps BoundInv.
LEMMA GroupBoundInv ==
    ASSUME FullInv, NEW g \in Group, GroupStep(g)
    PROVE  BoundInv'
<1>1. IInv /\ StateInv /\ FlowInv /\ g \in Thread /\ queue \in [Service -> Seq(Msg)]
  BY DEF FullInv, Thread, IInv, TypeOK, MsgqTypeOK
<1>2. ASSUME NEW s \in Service, Serves(s)
      PROVE  \A x \in Service : \/ queue'[x] = queue[x]
                                \/ queue[x] # <<>> /\ queue'[x] = Tail(queue[x])
  BY <1>1, <1>2 DEF Serves
<1>3. CASE UNCHANGED <<callVars, msgVars, msgqVars>>
  BY <1>3, BoundKept DEF msgqVars
<1>4. CASE /\ UNCHANGED <<callVars, msgVars>> /\ pc[g] = "dispatch"
           /\ cur_run[g] \in Service /\ GroupOf(cur_run[g]) = g /\ Serves(cur_run[g])
  BY <1>2, <1>4, BoundKept
<1>5. CASE HandleBefore(g) \/ HandlerReturn(g) \/ Drop(g)
  <2>1. UNCHANGED <<queue, callVars>>
    BY <1>5 DEF HandleBefore, HandlerReturn, Drop
  <2> QED BY <2>1, BoundKept
<1>6. CASE DrainNext(g)
  <2>1. PICK s \in Service, m \in Msg :
            /\ UNCHANGED msgqVars \/ Serves(s)
            /\ \/ UNCHANGED <<callVars, msgVars>>
               \/ StartSend(g, Dflt(m.id))
    BY <1>1, <1>6, DrainEffect
  <2>2. \A x \in Service : \/ queue'[x] = queue[x]
                           \/ queue[x] # <<>> /\ queue'[x] = Tail(queue[x])
    BY <1>2, <2>1 DEF msgqVars
  <2>3. UNCHANGED callVars \/ \E t \in Thread, r \in Request : StartSend(t, Dflt(r))
    BY <1>1, <2>1, Messages
  <2> QED BY <2>2, <2>3, BoundKept
<1> QED BY <1>1, <1>3, <1>4, <1>5, <1>6, GroupFlow

\* Every step of the main thread keeps BoundInv.
LEMMA MainBoundInv ==
    ASSUME FullInv,
           EafInit \/ LoadCall \/ CleanupCall \/ MainStep \/ \E s \in Service : Register(s)
    PROVE  BoundInv'
<1>1. CASE CleanupGroup
  BY <1>1, BoundKept DEF CleanupGroup
<1>2. CASE \/ EafInit \/ LoadCall \/ CleanupCall \/ LoadStart \/ LoadWake \/ LoadWait
           \/ CleanupFree \/ LoadFix \/ \E s \in Service : Register(s)
  <2>1. UNCHANGED <<queue, callVars>>
    BY <1>2, MainFrame, LoadFixEffect DEF FullInv, StateInv, msgqVars
  <2> QED BY <2>1, BoundKept
<1> QED BY <1>1, <1>2 DEF MainStep

\* BoundInv holds at the start: nothing is queued and nobody sends.
LEMMA InitBoundInv == Init => BoundInv
<1> SUFFICES ASSUME Init PROVE BoundInv
  OBVIOUS
<1>1. /\ \A t \in Thread : call[t] = "idle" /\ call_msg[t] = NoMsg
      /\ \A s \in Service : queue[s] = <<>>
  BY DEF Init
<1>2. \A s \in Service : RequestsAt(s) = {} /\ Pushing(s) = {}
  BY <1>1 DEF RequestsAt, Pushing, ToSet
<1> QED BY <1>1, <1>2 DEF BoundInv, Bounded

\* BoundInv is inductive, given the other invariants.
LEMMA NextBoundInv == FullInv /\ [Next]_vars => BoundInv'
<1> SUFFICES ASSUME FullInv, [Next]_vars PROVE BoundInv'
  OBVIOUS
<1>1. CASE UNCHANGED vars
  BY <1>1, BoundKept DEF vars, msgqVars
<1> QED BY <1>1, ApiBoundInv, GroupBoundInv, MainBoundInv DEF Next

-----------------------------------------------------------------------------
\* The theorem

\* The whole invariant of the service runtime holds in every reachable state:
\* lists, threads, the states of services, where messages and references are,
\* and how many requests wait (service.c and message.c from eaf_init to
\* eaf_cleanup).
THEOREM FullInvariance == Spec => []FullInv
<1>1. Init => FullInv
  BY InitIInv, InitStateInv, InitFlowInv, InitBoundInv DEF FullInv
<1>2. FullInv /\ [Next]_vars => FullInv'
  BY NextIInv, NextStateInv, NextFlowInv, NextBoundInv DEF FullInv
<1> QED BY <1>1, <1>2, PTL DEF Spec

-----------------------------------------------------------------------------
\* Conservation and the reference count

\* The places of a message at a service.
Positions(s, m) ==
    {i \in 1 .. Len(queue[s]) : queue[s][i] = m} \cup (IF cur_msg[s] = m THEN {0} ELSE {})

\* A held message has one position in one queue, any other has none.
LEMMA PositionsOfHeld ==
    ASSUME MsgqTypeOK, PlaceInv, NEW s \in Service, NEW m \in Msg
    PROVE  IF fate[m] = "queued" /\ s = Dest(m) THEN \E i : Positions(s, m) = {i}
                                                ELSE Positions(s, m) = {}
<1>1. /\ queue[s] \in Seq(Msg) /\ Distinct(queue[s]) /\ cur_msg[s] \notin ToSet(queue[s])
      /\ m \in Held(s) <=> fate[m] = "queued" /\ Dest(m) = s
  BY HeldExactly
<1>2. m # NoMsg
  BY MessageAssumption
<1>3. CASE m \notin Held(s)
  <2>1. cur_msg[s] # m /\ \A i \in 1 .. Len(queue[s]) : queue[s][i] # m
    BY <1>2, <1>3 DEF Held, ToSet
  <2> QED BY <1>1, <1>3, <2>1 DEF Positions
<1>4. CASE m \in Held(s) /\ cur_msg[s] = m
  <2>1. \A i \in 1 .. Len(queue[s]) : queue[s][i] # m
    BY <1>1, <1>4 DEF ToSet
  <2>2. Positions(s, m) = {0}
    BY <1>4, <2>1 DEF Positions
  <2> QED BY <1>1, <1>4, <2>2
<1>5. CASE m \in Held(s) /\ cur_msg[s] # m
  <2>1. PICK i \in 1 .. Len(queue[s]) : queue[s][i] = m
    BY <1>5 DEF Held, ToSet
  <2>2. \A j \in 1 .. Len(queue[s]) : queue[s][j] = m => j = i
    BY <1>1, <2>1 DEF Distinct
  <2>3. Positions(s, m) = {i}
    BY <1>5, <2>1, <2>2 DEF Positions
  <2> QED BY <1>1, <1>5, <2>3
<1> QED BY <1>3, <1>4, <1>5

\* The copies that QueuedOnce counts are the positions and the current messages.
LEMMA CopiesOfPlaces ==
    ASSUME MsgqTypeOK, PlaceInv, NEW m \in Msg
    PROVE  IF fate[m] = "queued" THEN \E i : Copies(m) = {<<Dest(m), i>>} ELSE Copies(m) = {}
<1>1. Copies(m) = UNION {{s} \X Positions(s, m) : s \in Service}
  BY DEF Copies, Positions
<1>2. CASE fate[m] # "queued"
  <2>1. \A s \in Service : {s} \X Positions(s, m) = {}
    BY <1>2, PositionsOfHeld
  <2> QED BY <1>1, <1>2, <2>1
<1>3. CASE fate[m] = "queued"
  <2> DEFINE d == Dest(m)
  <2>1. d \in Service
    BY <1>3 DEF PlaceInv
  <2>2. PICK i : Positions(d, m) = {i}
    BY <1>3, <2>1, PositionsOfHeld
  <2>3. \A s \in Service : s # d => Positions(s, m) = {}
    BY PositionsOfHeld
  <2> HIDE DEF d
  <2>4. {d} \X Positions(d, m) = {<<d, i>>}
    BY <2>2
  <2>5. \A s \in Service : s # d => {s} \X Positions(s, m) = {}
    BY <2>3
  <2>6. Copies(m) = {<<d, i>>}
    BY <1>1, <2>1, <2>4, <2>5
  <2> QED BY <1>3, <2>6 DEF d
<1> QED BY <1>2, <1>3

\* A message has as many copies as places, which are one or none.
LEMMA CopiesCount ==
    ASSUME FullInv, NEW m \in Msg
    PROVE  /\ Cardinality(Copies(m)) = Ref(fate[m] = "queued")
           /\ \A c \in Copies(m) : c[1] = Dest(m)
<1>1. MsgqTypeOK /\ PlaceInv
  BY DEF FullInv, IInv, TypeOK, FlowInv
<1>2. CASE fate[m] = "queued"
  <2>1. PICK i : Copies(m) = {<<Dest(m), i>>}
    BY <1>1, <1>2, CopiesOfPlaces
  <2>2. Cardinality(Copies(m)) = 1
    BY <2>1, FS_Singleton
  <2>3. \A c \in Copies(m) : c[1] = Dest(m)
    BY <2>1
  <2> QED BY <1>2, <2>2, <2>3 DEF Ref
<1>3. CASE fate[m] # "queued"
  <2>1. Copies(m) = {}
    BY <1>1, <1>3, CopiesOfPlaces
  <2> QED BY <1>3, <2>1, FS_EmptySet DEF Ref
<1> QED BY <1>2, <1>3

\* An accepted message is in exactly one place until it is handled, refused or
\* discarded, and in none before and after: none is lost and none is doubled
\* between _eaf_service_push_msg, the handling and _eaf_cleanup_group.
THEOREM MessagesAreConserved == Spec => []QueuedOnce
<1>1. FullInv => QueuedOnce
  BY CopiesCount DEF QueuedOnce, Ref
<1> QED BY FullInvariance, <1>1, PTL

\* A message is the message of at most one call.
LEMMA SenderCount ==
    ASSUME SendInv, NEW m \in Msg, NEW T \in SUBSET {t \in Thread : call_msg[t] = m}
    PROVE  Cardinality(T) = Ref(T # {})
<1>1. \A t, u \in T : t = u
  BY MessageAssumption DEF SendInv
<1>2. CASE T = {}
  BY <1>2, FS_EmptySet DEF Ref
<1>3. CASE T # {}
  <2>1. PICK t \in T : TRUE
    BY <1>3
  <2>2. T = {t}
    BY <1>1
  <2>3. Cardinality(T) = 1
    BY <2>2, FS_Singleton
  <2> QED BY <1>3, <2>3 DEF Ref
<1> QED BY <1>2, <1>3

\* The reference count of a message (eaf_msg_add_ref, eaf_msg_dec_ref) is the
\* number of those who hold it, so it is released once and by the last of them.
THEOREM ReferencesAreCounted == Spec => []RefCountExact
<1>1. ASSUME FullInv
      PROVE  RefCountExact
  <2>1. SUFFICES ASSUME NEW m \in Msg
                 PROVE  refcnt[m] = Cardinality(Copies(m))
                                    + Cardinality({t \in Thread : call_msg[t] = m})
                                    + Cardinality({t \in Thread : call_msg[t] = m
                                                                  /\ call[t] = "push"})
    BY DEF RefCountExact
  <2>2. SendInv /\ RefInv
    BY <1>1 DEF FullInv, FlowInv
  <2>3. Cardinality(Copies(m)) = Ref(fate[m] = "queued")
    BY <1>1, CopiesCount
  <2>4. Cardinality({t \in Thread : call_msg[t] = m})
            = Ref(\E t \in Thread : call_msg[t] = m)
    <3>1. Cardinality({t \in Thread : call_msg[t] = m})
              = Ref({t \in Thread : call_msg[t] = m} # {})
      BY <2>2, SenderCount
    <3>2. {t \in Thread : call_msg[t] = m} # {} <=> \E t \in Thread : call_msg[t] = m
      OBVIOUS
    <3> QED BY <3>1, <3>2 DEF Ref
  <2>5. Cardinality({t \in Thread : call_msg[t] = m /\ call[t] = "push"})
            = Ref(\E t \in Thread : call_msg[t] = m /\ call[t] = "push")
    <3> DEFINE T == {t \in Thread : call_msg[t] = m /\ call[t] = "push"}
    <3>1. T \in SUBSET {t \in Thread : call_msg[t] = m}
      OBVIOUS
    <3>2. T # {} <=> \E t \in Thread : call_msg[t] = m /\ call[t] = "push"
      OBVIOUS
    <3> HIDE DEF T
    <3>3. Cardinality(T) = Ref(T # {})
      BY <2>2, <3>1, SenderCount
    <3> QED BY <3>2, <3>3 DEF Ref, T
  <2> QED BY <2>2, <2>3, <2>4, <2>5 DEF RefInv
<1> QED BY FullInvariance, <1>1, PTL

\* Whatever the order in which threads read the size of a queue and push
\* (_eaf_service_push_msg), it exceeds msgq.capacity by less than the number of
\* the threads that can have a request for the service.
THEOREM CapacityIsKept == Spec => []RequestsBounded
<1>1. ASSUME FullInv, NEW s \in Service,
             {i \in 1 .. Len(queue[s]) : queue[s][i].kind = "req"} # {}
      PROVE  Cardinality({i \in 1 .. Len(queue[s]) : queue[s][i].kind = "req"})
                 <= Capacity[s] + Cardinality(Senders(s)) - 1
  <2> DEFINE places == {i \in 1 .. Len(queue[s]) : queue[s][i].kind = "req"}
             f == [i \in places |-> queue[s][i]]
  <2>1. IInv /\ Bounded(s) /\ queue[s] \in Seq(Msg) /\ Distinct(queue[s])
    BY <1>1, HeldExactly DEF FullInv, FlowInv, IInv, TypeOK, BoundInv
  <2>2. /\ IsFiniteSet(RequestsAt(s)) /\ Cardinality(RequestsAt(s)) \in Nat
        /\ IsFiniteSet(Pushing(s)) /\ Cardinality(Pushing(s)) \in Nat
        /\ Cardinality(Senders(s)) \in Nat /\ Capacity[s] \in Nat
    BY <2>1, CountsFinite
  <2>3. f \in [places -> RequestsAt(s)]
    BY <2>1 DEF RequestsAt, ToSet
  <2>4. \A i, j \in places : f[i] = f[j] => i = j
    BY <2>1 DEF Distinct
  <2> HIDE DEF f
  <2>5. f \in Injection(places, RequestsAt(s))
    BY <2>3, <2>4, Fun_IsInj
  <2>6. IsFiniteSet(places) /\ Cardinality(places) <= Cardinality(RequestsAt(s))
    BY <2>2, <2>5, FS_Injection
  <2>7. RequestsAt(s) # {}
    BY <1>1, <2>3
  <2>8. Cardinality(RequestsAt(s)) + Cardinality(Pushing(s))
            <= Capacity[s] + Cardinality(Senders(s)) - 1
    BY <2>1, <2>7 DEF Bounded
  <2>9. Cardinality(places) \in Nat
    BY <2>6, FS_CardinalityType
  <2> HIDE DEF places
  <2>10. Cardinality(places) <= Capacity[s] + Cardinality(Senders(s)) - 1
    BY <2>2, <2>6, <2>8, <2>9
  <2> QED BY <2>10 DEF places
<1>2. FullInv => RequestsBounded
  BY <1>1 DEF RequestsBounded, Senders
<1> QED BY FullInvariance, <1>2, PTL

-----------------------------------------------------------------------------
\* The runtime implements the mailbox

\* Nothing that the mailbox knows of changes.
LEMMA BoxStays ==
    ASSUME UNCHANGED <<queue, cur_msg>>,
           \A m \in Msg : /\ fate'[m] = "queued" <=> fate[m] = "queued"
                          /\ fate'[m] \in closedFates <=> fate[m] \in closedFates,
           \A g \in Group : CleanedUp(g)' <=> CleanedUp(g)
    PROVE  UNCHANGED Box!vars
<1>1. {m \in Msg : fate'[m] \in closedFates \cup {"queued"}}
          = {m \in Msg : fate[m] \in closedFates \cup {"queued"}}
  OBVIOUS
<1>2. {m \in Msg : fate'[m] \in closedFates} = {m \in Msg : fate[m] \in closedFates}
  OBVIOUS
<1>3. {s \in Service : CleanedUp(GroupOf(s))'} = {s \in Service : CleanedUp(GroupOf(s))}
  BY TableProperties
<1> QED BY <1>1, <1>2, <1>3 DEF Box!vars, CleanedUp, closedFates

\* Groups are cleaned up by Main alone.
LEMMA CleanedStays ==
    ASSUME UNCHANGED <<main_pc, main_grp>>
    PROVE  \A g \in Group : CleanedUp(g)' <=> CleanedUp(g)
BY DEF CleanedUp

\* _eaf_service_push_msg is an acceptance.
LEMMA PushAccepts ==
    ASSUME FullInv, NEW t \in Thread, PushQueue(t)
    PROVE  \E m \in Msg : Box!Accept(m)
<1>1. PICK m \in Msg : m = call_msg[t]
  BY QueueFlow DEF FullInv
<1>2. /\ fate[m] = "sending" /\ Dest(m) \in Service
      /\ queue' = [queue EXCEPT ![Dest(m)] = Append(queue[Dest(m)], m)]
      /\ \A x \in Msg : fate'[x] = IF x = m THEN "queued" ELSE fate[x]
  BY <1>1, QueueFlow DEF FullInv
<1>3. UNCHANGED <<cur_msg, main_pc, main_grp>>
  BY DEF PushQueue, ctxVars
<1>4. {x \in Msg : fate'[x] \in closedFates \cup {"queued"}}
          = {x \in Msg : fate[x] \in closedFates \cup {"queued"}} \cup {m}
  BY <1>2
<1>5. {x \in Msg : fate'[x] \in closedFates} = {x \in Msg : fate[x] \in closedFates}
  BY <1>2 DEF closedFates
<1>6. m \notin {x \in Msg : fate[x] \in closedFates \cup {"queued"}}
  BY <1>2 DEF closedFates
<1>7. {s \in Service : CleanedUp(GroupOf(s))'} = {s \in Service : CleanedUp(GroupOf(s))}
  BY <1>3 DEF CleanedUp
<1>8. Box!Accept(m)
  BY <1>2, <1>3, <1>4, <1>5, <1>6, <1>7 DEF Box!Accept, CleanedUp, closedFates
<1> QED BY <1>8

\* The step in which a working thread takes a message begins to serve it.
LEMMA TakingServes ==
    ASSUME FullInv, NEW s \in Service, Serves(s), pc[GroupOf(s)] # "end",
           UNCHANGED <<main_pc, main_grp>>,
           \A m \in Msg : /\ fate'[m] = "queued" <=> fate[m] = "queued"
                          /\ fate'[m] \in closedFates <=> fate[m] \in closedFates
    PROVE  Box!Serve(s)
<1>1. s \notin {x \in Service : CleanedUp(GroupOf(x))}
  BY TableProperties DEF FullInv, StateInv, JoinInv
<1>2. {m \in Msg : fate'[m] \in closedFates \cup {"queued"}}
          = {m \in Msg : fate[m] \in closedFates \cup {"queued"}}
  OBVIOUS
<1>3. {m \in Msg : fate'[m] \in closedFates} = {m \in Msg : fate[m] \in closedFates}
  OBVIOUS
<1>4. {x \in Service : CleanedUp(GroupOf(x))'} = {x \in Service : CleanedUp(GroupOf(x))}
  BY DEF CleanedUp
<1> QED BY <1>1, <1>2, <1>3, <1>4 DEF Box!Serve, Serves, CleanedUp, closedFates

\* _eaf_service_reset ends the service of a message.
LEMMA ResetFinishes ==
    ASSUME FullInv, NEW s \in Service, cur_msg[s] # NoMsg, NEW what \in closedFates,
           Reset(s, what), UNCHANGED <<queue, callVars, main_pc, main_grp>>
    PROVE  Box!Finish(s)
<1>1. /\ cur_msg[s] \in Msg /\ fate[cur_msg[s]] = "queued"
      /\ \A m \in Msg : fate'[m] = IF m = cur_msg[s] THEN what ELSE fate[m]
  BY ResetFlow DEF FullInv
<1>2. {m \in Msg : fate'[m] \in closedFates \cup {"queued"}}
          = {m \in Msg : fate[m] \in closedFates \cup {"queued"}}
  BY <1>1
<1>3. {m \in Msg : fate'[m] \in closedFates}
          = {m \in Msg : fate[m] \in closedFates} \cup {cur_msg[s]}
  BY <1>1
<1>4. {x \in Service : CleanedUp(GroupOf(x))'} = {x \in Service : CleanedUp(GroupOf(x))}
  BY DEF CleanedUp
<1>5. cur_msg' = [cur_msg EXCEPT ![s] = NoMsg]
  BY DEF Reset
<1> QED BY <1>2, <1>3, <1>4, <1>5 DEF Box!Finish, CleanedUp, closedFates

\* _eaf_cleanup_group discards what the services of the group still had.
LEMMA CleanupDiscards ==
    ASSUME FullInv, CleanupGroup
    PROVE  \E S \in SUBSET Service : Box!Discard(S)
<1>0. PICK mine \in SUBSET Service : mine = {s \in Service : GroupOf(s) = main_grp}
  OBVIOUS
<1> DEFINE held == UNION {ToSet(queue[s]) \cup ({cur_msg[s]} \ {NoMsg}) : s \in mine}
<1>1. /\ queue' = [s \in Service |-> IF s \in mine THEN <<>> ELSE queue[s]]
      /\ cur_msg' = [s \in Service |-> IF s \in mine THEN NoMsg ELSE cur_msg[s]]
      /\ fate' = [m \in Msg |-> IF m \in held THEN "freed" ELSE fate[m]]
      /\ main_pc = "join"
      /\ IF LastGroup(main_grp) THEN main_pc' = "free" /\ UNCHANGED main_grp
         ELSE UNCHANGED main_pc /\ main_grp' = main_grp + 1
  BY <1>0 DEF CleanupGroup, Held
<1>2. \A m \in held : m \in Msg /\ fate[m] = "queued"
  <2>1. SUFFICES ASSUME NEW s \in mine, NEW m \in Held(s)
                 PROVE  m \in Msg /\ fate[m] = "queued"
    BY DEF Held
  <2> QED BY HeldExactly DEF FullInv, IInv, TypeOK, FlowInv
<1> HIDE DEF held
<1>3. {m \in Msg : fate'[m] \in closedFates \cup {"queued"}}
          = {m \in Msg : fate[m] \in closedFates \cup {"queued"}}
  BY <1>1, <1>2 DEF closedFates
<1>4. {m \in Msg : fate'[m] \in closedFates} = {m \in Msg : fate[m] \in closedFates} \cup held
  BY <1>1, <1>2 DEF closedFates
<1>5. {s \in Service : CleanedUp(GroupOf(s))'} = {s \in Service : CleanedUp(GroupOf(s))}
          \cup mine
  <2>1. main_grp \in Group /\ \A s \in Service : GroupOf(s) \in Group
    BY <1>1, TableProperties DEF FullInv, IInv, MainInv
  <2> QED BY <1>0, <1>1, <2>1, GroupAssumption DEF CleanedUp, LastGroup, Group
<1>6. Box!Discard(mine)
  BY <1>1, <1>3, <1>4, <1>5 DEF Box!Discard, CleanedUp, closedFates, held, ToSet,
                                  Box!ToSet
<1> QED BY <1>6

\* A step of the runtime is a step of the mailbox or leaves it alone.
LEMMA GroupBox ==
    ASSUME FullInv, NEW g \in Group, GroupStep(g)
    PROVE  [Box!Next]_Box!vars
<1>1. IInv /\ StateInv /\ FlowInv /\ UNCHANGED <<main_pc, main_grp>> /\ pc[g] # "end"
  BY GroupFrame DEF FullInv
<1>2. \A h \in Group : CleanedUp(h)' <=> CleanedUp(h)
  BY <1>1, CleanedStays
<1>3. CASE UNCHANGED <<callVars, msgVars, msgqVars>>
  BY <1>2, <1>3, BoxStays DEF msgVars, msgqVars
<1>4. CASE /\ UNCHANGED <<callVars, msgVars>> /\ pc[g] = "dispatch"
           /\ cur_run[g] \in Service /\ GroupOf(cur_run[g]) = g /\ Serves(cur_run[g])
  <2>1. UNCHANGED fate
    BY <1>4 DEF msgVars
  <2>2. Box!Serve(cur_run[g])
    BY <1>1, <1>4, <2>1, TakingServes
  <2> QED BY <1>4, <2>2 DEF Box!Next
<1>5. CASE HandleBefore(g) \/ HandlerReturn(g) \/ Drop(g)
  <2>1. CASE UNCHANGED <<callVars, msgVars, msgqVars>>
    BY <1>3, <2>1
  <2>2. CASE \E s \in Service, what \in closedFates :
                 /\ cur_msg[s] # NoMsg /\ Reset(s, what) /\ UNCHANGED <<queue, callVars>>
    <3>1. PICK s \in Service : Box!Finish(s)
      BY <1>1, <2>2, ResetFinishes
    <3> QED BY <3>1 DEF Box!Next
  <2> QED BY <1>1, <1>5, <2>1, <2>2, GroupResets
<1>6. CASE DrainNext(g)
  <2>1. PICK s \in Service, m \in Msg :
            /\ GroupOf(s) = g
            /\ UNCHANGED msgqVars \/ Serves(s)
            /\ \/ UNCHANGED <<callVars, msgVars>>
               \/ /\ fate[Dflt(m.id)] = "fresh" /\ call[g] = "idle"
                  /\ StartSend(g, Dflt(m.id))
    BY <1>1, <1>6, DrainEffect
  <2>2. \A x \in Msg : \/ fate'[x] = fate[x]
                       \/ fate[x] = "fresh" /\ fate'[x] = "sending"
    <3>1. CASE UNCHANGED <<callVars, msgVars>>
      BY <3>1 DEF msgVars
    <3>2. CASE /\ fate[Dflt(m.id)] = "fresh" /\ call[g] = "idle"
               /\ StartSend(g, Dflt(m.id))
      BY <1>1, <3>2, Messages, StartFlow DEF Thread
    <3> QED BY <2>1, <3>1, <3>2
  <2>3. \A x \in Msg : /\ fate'[x] = "queued" <=> fate[x] = "queued"
                       /\ fate'[x] \in closedFates <=> fate[x] \in closedFates
    BY <2>2 DEF closedFates
  <2>4. CASE UNCHANGED msgqVars
    BY <1>2, <2>3, <2>4, BoxStays DEF msgqVars
  <2>5. CASE Serves(s)
    <3>1. Box!Serve(s)
      BY <1>1, <2>1, <2>3, <2>5, TakingServes
    <3> QED BY <3>1 DEF Box!Next
  <2> QED BY <2>1, <2>4, <2>5
<1> QED BY <1>1, <1>3, <1>4, <1>5, <1>6, GroupFlow

\* Every step of an API call is a step of Mailbox or changes nothing of it.
LEMMA ApiBox ==
    ASSUME FullInv, NEW t \in Thread, CallStart(t) \/ CallStep(t)
    PROVE  [Box!Next]_Box!vars
<1>1. IInv /\ FlowInv
  BY DEF FullInv
<1>2. CASE PushQueue(t)
  <2>1. \E m \in Msg : Box!Accept(m)
    BY <1>2, PushAccepts
  <2> QED BY <2>1 DEF Box!Next
<1>3. CASE ~PushQueue(t)
  <2>1. UNCHANGED <<queue, cur_msg, main_pc, main_grp>>
    BY <1>1, <1>3, ApiFrame
  <2>2. \A m \in Msg : /\ fate'[m] = "queued" <=> fate[m] = "queued"
                       /\ fate'[m] \in closedFates <=> fate[m] \in closedFates
    BY <1>1, <1>3, ApiFlow DEF Moves, closedFates
  <2> QED BY <2>1, <2>2, BoxStays, CleanedStays
<1> QED BY <1>2, <1>3

\* Every step of the main thread is a step of Mailbox or changes nothing of it.
LEMMA MainBox ==
    ASSUME FullInv,
           EafInit \/ LoadCall \/ CleanupCall \/ MainStep \/ \E s \in Service : Register(s)
    PROVE  [Box!Next]_Box!vars
<1>1. CASE CleanupGroup
  <2>1. \E S \in SUBSET Service : Box!Discard(S)
    BY <1>1, CleanupDiscards
  <2> QED BY <2>1 DEF Box!Next
<1>2. CASE \/ EafInit \/ LoadCall \/ CleanupCall \/ LoadStart \/ LoadWake \/ LoadWait
           \/ CleanupFree \/ LoadFix \/ \E s \in Service : Register(s)
  <2>1. UNCHANGED <<queue, cur_msg, fate>>
    BY <1>2, MainFrame, LoadFixEffect DEF FullInv, StateInv, msgqVars, msgVars
  <2>2. \A g \in Group : CleanedUp(g)' <=> CleanedUp(g)
    BY <1>2 DEF EafInit, LoadCall, CleanupCall, LoadStart, LoadWake, LoadWait, CleanupFree,
                LoadFix, Register, MainAt, CleanedUp, Group
  <2> QED BY <2>1, <2>2, BoxStays
<1> QED BY <1>1, <1>2 DEF MainStep

\* The service runtime implements Mailbox: every accepted message is served by
\* its receiver, once, in the order of acceptance and never beside another, for
\* any number of groups, threads, services and messages.
THEOREM RuntimeIsMailbox == Spec => ImplementsMailbox
<1>1. Init => Box!Init
  <2>1. Init => {m \in Msg : fate[m] \in closedFates \cup {"queued"}} = {}
    BY DEF Init, closedFates
  <2>2. Init => {m \in Msg : fate[m] \in closedFates} = {}
    BY DEF Init, closedFates
  <2>3. Init => {s \in Service : CleanedUp(GroupOf(s))} = {}
    BY DEF Init, CleanedUp
  <2> QED BY <2>1, <2>2, <2>3 DEF Init, Box!Init, closedFates, CleanedUp
<1>2. FullInv /\ [Next]_vars => [Box!Next]_Box!vars
  <2> SUFFICES ASSUME FullInv, [Next]_vars PROVE [Box!Next]_Box!vars
    OBVIOUS
  <2>1. CASE UNCHANGED vars
    <3>1. UNCHANGED <<queue, cur_msg, fate, main_pc, main_grp>>
      BY <2>1 DEF vars, msgqVars, msgVars, ctxVars
    <3> QED BY <3>1, BoxStays, CleanedStays
  <2> QED BY <2>1, GroupBox, ApiBox, MainBox DEF Next
<1> QED BY <1>1, <1>2, FullInvariance, PTL DEF Spec, ImplementsMailbox, Box!Spec
==============================================================================
