--------------------------- MODULE PowerpackProofs ---------------------------
(***************************************************************************)
(* Proofs about the loop thread and the user's thread, for every set of    *)
(* hooks, whichever of them fail, and every number of cycles; about the    *)
(* list that powerpack.c keeps its hooks in, with any number of lists and  *)
(* nodes; and about the clock arithmetic of time.c, for every width of its *)
(* fields.  The three parts share nothing but lemmas.                      *)
(***************************************************************************)
EXTENDS PowerpackProperties, ListProperties, ClockProperties, QueueLemmas,
        FiniteSetTheorems


Early == {"wait_init", "call_init"}
InExit == main = "cleanup"

\* Which call of the user's thread is possible in which state of EAF; a call that
\* waits waits for an answer, but for the dial of eaf_powerpack_exit, which finds the
\* answer that eaf_cleanup got.
CallInv ==
    /\ initialized <=> pc # "none"
    /\ injected => initialized /\ eaf # "none" /\ ~point["exit"].have_rsp
    /\ wait = "answer" <=> main \in {"load", "cleanup"}
    /\ main = "load" => eaf = "init" /\ injected
    /\ main \in {"cleanup", "exit", "join"} => eaf = "none" /\ initialized
    /\ initialized /\ ~injected /\ main # "cleanup" => point["exit"].have_rsp /\ pc = "gone"
    /\ main = "idle" /\ injected /\ eaf = "init" => pc = "wait_init"
    /\ injected /\ eaf = "busy" => pc \notin Early

\* Where the one token of each point is.
TokenInv ==
    /\ point["init"].sem_req = IF main = "load" /\ pc = "wait_init" THEN 1 ELSE 0
    /\ point["init"].sem_rsp = IF main = "load" /\ pc \notin Early THEN 1 ELSE 0
    /\ point["exit"].sem_req =
           IF InExit /\ pc # "answer_exit" /\ ~point["exit"].have_rsp THEN 1 ELSE 0
    /\ point["exit"].sem_rsp = IF InExit /\ point["exit"].have_rsp THEN 1 ELSE 0
    /\ pc \in Early => ~point["init"].have_rsp
    /\ point["exit"].have_rsp => pc \in {"gone", "none"}
    /\ pc = "call_init" => main = "load"
    /\ pc = "answer_exit" => InExit

\* Which hooks have handles, by where the loop thread is.
LoopInv ==
    /\ table \in Seq(Hook) /\ idx \in Nat
    /\ pc \in {"none", "wait_init", "wait_exit", "answer_exit", "gone"} => up = {}
    /\ pc = "none" <=> async = "none"
    /\ pc = "call_init" => up = {table[i] : i \in 1 .. idx - 1} /\ idx \in 1 .. Len(table) + 1
    /\ pc \in Early \cup {"loop"} /\ injected => async = "active" /\ ~async_sent
    /\ pc = "loop" /\ injected => ToSet(table) \subseteq up
    /\ pc \in {"wait_exit", "answer_exit"} => ~injected
    /\ pc = "gone" /\ injected => Failed

IInv == TypeOK /\ CallInv /\ TokenInv /\ LoopInv

-----------------------------------------------------------------------------
\* Taking a hook out of the table leaves a table of hooks.
LEMMA RemoveHook ==
    ASSUME NEW S, NEW l \in Seq(S), NEW i \in 1 .. Len(l)
    PROVE  RemoveAt(l, i) \in Seq(S)
<1>1. SubSeq(l, 1, i - 1) \in Seq(S)
  <2>1. \A j \in 1 .. i - 1 : l[j] \in S
    OBVIOUS
  <2> QED BY <2>1, SubSeqProperties
<1>2. SubSeq(l, i + 1, Len(l)) \in Seq(S)
  <2>1. \A j \in i + 1 .. Len(l) : l[j] \in S
    OBVIOUS
  <2> QED BY <2>1, SubSeqProperties
<1> QED BY <1>1, <1>2, ConcatProperties DEF RemoveAt

\* The initial state satisfies the invariant.
LEMMA InitIInv == Init => IInv
<1> SUFFICES ASSUME Init PROVE IInv
  OBVIOUS
<1>1. point = [p \in Point |-> FreshSync] /\ \A p \in Point : point[p] = FreshSync
  BY DEF Init
<1>2. TypeOK
  <2>1. ToSet(table) = {}
    BY DEF Init, ToSet
  <2>2. FreshSync \in [sem_req : Nat, sem_rsp : Nat, have_rsp : BOOLEAN, rsp : {0, -1}]
    BY DEF FreshSync
  <2>3. point \in [Point -> [sem_req : Nat, sem_rsp : Nat, have_rsp : BOOLEAN, rsp : {0, -1}]]
    BY <1>1, <2>2
  <2>4. cycle \in 0 .. MaxCycle
    BY PowerpackAssumption DEF Init
  <2> QED BY <2>1, <2>3, <2>4 DEF Init, TypeOK, Call
<1>3. CallInv /\ TokenInv
  BY <1>1 DEF Init, CallInv, TokenInv, FreshSync, Point, Early, InExit
<1>4. LoopInv
  BY DEF Init, LoopInv, Early
<1> QED BY <1>2, <1>3, <1>4 DEF IInv

\* Every step of both threads keeps the invariant.
LEMMA Step == IInv /\ [Next]_vars => IInv'
<1> SUFFICES ASSUME IInv, [Next]_vars PROVE IInv'
  OBVIOUS
<1> USE PowerpackAssumption
<1> USE DEF IInv, TypeOK, CallInv, TokenInv, LoopInv, Point, Call, Early, InExit,
       vars, ppVars, uvVars, threadVars, mainVars, Failed
<1>1. CASE EafInit
  BY <1>1 DEF EafInit
<1>2. CASE PpInit
  BY <1>2 DEF PpInit, FreshSync
<1>3. ASSUME NEW h \in Hook, HookRegister(h) PROVE IInv'
  BY <1>3, AppendProperties DEF HookRegister, ToSet
<1>4. ASSUME NEW h \in Hook, HookUnregister(h) PROVE IInv'
  BY <1>4, RemoveHook DEF HookUnregister, ToSet
<1>5. CASE Load
  BY <1>5 DEF Load, DialOnce
<1>6. CASE Loaded
  BY <1>6 DEF Loaded, Dialled
<1>7. CASE EafExit
  BY <1>7 DEF EafExit
<1>8. CASE Cleanup
  <2> USE <1>8 DEF Cleanup, NotifyExitThread, DialOnce
  <2>1. TypeOK'
    <3>1. point' \in [Point -> [sem_req : Nat, sem_rsp : Nat, have_rsp : BOOLEAN, rsp : {0, -1}]]
      <4>1. CASE point' = point
        BY <4>1
      <4>2. CASE point' = [point EXCEPT !["exit"].sem_req = @ + 1]
        BY <4>2
      <4> QED BY <4>1, <4>2
    <3>2. main' \in Call /\ wait' \in {"nothing", "answer"} /\ async_sent' \in BOOLEAN
      OBVIOUS
    <3> QED BY <3>1, <3>2
  <2>2. CallInv'
    OBVIOUS
  <2>3. TokenInv'
    OBVIOUS
  <2>4. LoopInv'
    OBVIOUS
  <2> QED BY <2>1, <2>2, <2>3, <2>4
<1>9. CASE CleanedUp
  BY <1>9 DEF CleanedUp, Dialled
<1>10. CASE PpExit
  BY <1>10 DEF PpExit, NotifyExitThread, DialOnce
<1>11. CASE Join
  BY <1>11 DEF Join, Dialled
<1>12. CASE Joined
  <2> USE <1>12 DEF Joined
  <2>1. TypeOK'
    <3>1. ToSet(<<>>) = {}
      BY DEF ToSet
    <3> QED BY <3>1
  <2>2. CallInv'
    OBVIOUS
  <2>3. TokenInv'
    OBVIOUS
  <2>4. LoopInv'
    OBVIOUS
  <2> QED BY <2>1, <2>2, <2>3, <2>4
<1>13. CASE WaitInit
  BY <1>13 DEF WaitInit, SyncWait
<1>14. CASE CallInit
  BY <1>14 DEF CallInit
<1>15. CASE InitFails
  BY <1>15 DEF InitFails, SyncAnswer
<1>16. CASE AnswerInit
  BY <1>16 DEF AnswerInit, SyncAnswer, ToSet
<1>17. CASE OnAsync
  BY <1>17 DEF OnAsync
<1>18. CASE LoopEnds
  BY <1>18 DEF LoopEnds
<1>19. CASE AnswerExit
  BY <1>19 DEF AnswerExit, SyncAnswer, SyncWait
<1>20. CASE UNCHANGED vars
  BY <1>20
<1> QED
  BY <1>1, <1>2, <1>3, <1>4, <1>5, <1>6, <1>7, <1>8, <1>9, <1>10, <1>11, <1>12, <1>13,
     <1>14, <1>15, <1>16, <1>17, <1>18, <1>19, <1>20 DEF Next, User, Returns, LoopThread

-----------------------------------------------------------------------------
\* Where the two threads are, what their calls wait for and which hooks are up fit
\* together in every reachable state (powerpack.c, _pp_thread and the functions of
\* the user's thread that dial it).
THEOREM Invariance == Spec => []IInv
BY InitIInv, Step, PTL DEF Spec

\* Every request that a thread posts at a point is answered once, and none is left
\* when the loop thread is joined (pp_sync_dial, pp_sync_wait and pp_sync_answer).
THEOREM PointsPairOff == Spec => []TokensPaired
<1>1. IInv => TokensPaired
  BY DEF IInv, CallInv, TokenInv, LoopInv, TokensPaired, TypeOK, Point, InExit, Early
<1> QED BY <1>1, Invariance, PTL

\* No service is initialised before the hooks of the table are, and no handle is
\* closed before all services are gone, as long as no hook failed
\* (_pp_hook_on_load_before, _pp_hook_on_exit_after and _pp_on_uv_async_mode).
THEOREM HooksStay == Spec => HooksAroundServices
<1> DEFINE Around ==
             /\ (eaf' = "busy" /\ injected' /\ ~Failed') => ToSet(table') \subseteq up'
             /\ (eaf \in {"busy", "exit"} /\ ~Failed) => up \subseteq up'
<1>1. IInv /\ IInv' /\ [Next]_vars => [Around]_vars
  <2> SUFFICES ASSUME IInv, IInv', [Next]_vars PROVE Around
    OBVIOUS
  <2>1. (eaf' = "busy" /\ injected' /\ ~Failed') => ToSet(table') \subseteq up'
    BY DEF IInv, TypeOK, CallInv, LoopInv, Early
  <2>2. ASSUME eaf \in {"busy", "exit"}, ~Failed PROVE up \subseteq up'
    <3>1. ~InitFails
      BY <2>2 DEF IInv, CallInv, TokenInv, InitFails
    <3>2. ~OnAsync
      BY <2>2 DEF IInv, CallInv, LoopInv, OnAsync, Early
    <3> QED
      BY <3>1, <3>2
         DEF Next, User, Returns, LoopThread, vars, uvVars, EafInit, PpInit, HookRegister,
             HookUnregister, Load, Loaded, EafExit, Cleanup, CleanedUp, PpExit, Join, Joined,
             WaitInit, CallInit, AnswerInit, LoopEnds, AnswerExit
  <2> QED BY <2>1, <2>2
<1> QED BY <1>1, Invariance, PTL DEF Spec, HooksAroundServices

-----------------------------------------------------------------------------
(* The linked list of list.c. *)

\* What the source means by a list: s has the n nodes of M, each once, from hd to tl,
\* and the links of each name its neighbours.
Chain(n, hd, tl, aft, bef, M, s) ==
    /\ n \in Nat /\ s \in [1 .. n -> Item]
    /\ \A i, j \in 1 .. n : s[i] = s[j] => i = j
    /\ \A x \in Item : x \in M <=> \E i \in 1 .. n : s[i] = x
    /\ n = 0 => hd = NONE /\ tl = NONE
    /\ n > 0 => hd = s[1] /\ tl = s[n] /\ bef[s[1]] = NONE /\ aft[s[n]] = NONE
    /\ \A i \in 1 .. n - 1 : aft[s[i]] = s[i + 1] /\ bef[s[i + 1]] = s[i]

\* The walk of ListProperties, for any length.
WalkOf(n, x, link) ==
    LET at[i \in 1 .. n] == IF i = 1 THEN x
                            ELSE LET prev == at[i - 1]
                                 IN  IF prev = NONE THEN NONE ELSE link[prev]
    IN  [i \in 1 .. n |-> at[i]]

\* A walk meets the nodes of a sequence whose neighbours are linked.
LEMMA WalkIs ==
    ASSUME NEW n \in Nat, NEW x, NEW link, NEW r \in [1 .. n -> Item], NONE \notin Item,
           n > 0 => r[1] = x,
           \A i \in 2 .. n : link[r[i - 1]] = r[i]
    PROVE  WalkOf(n, x, link) = r
<1> DEFINE Eq(g) == g = [i \in 1 .. n |-> IF i = 1 THEN x
                                          ELSE LET prev == g[i - 1]
                                               IN  IF prev = NONE THEN NONE ELSE link[prev]]
           at == CHOOSE g : Eq(g)
<1>1. Eq(r)
  <2>1. ASSUME NEW i \in 1 .. n
        PROVE  r[i] = IF i = 1 THEN x
                      ELSE LET prev == r[i - 1] IN IF prev = NONE THEN NONE ELSE link[prev]
    <3>1. CASE i = 1
      BY <3>1
    <3>2. CASE i # 1
      <4> i \in 2 .. n /\ i - 1 \in 1 .. n
        BY <3>2
      <4> r[i - 1] \in Item
        OBVIOUS
      <4> QED BY <3>2
    <3> QED BY <3>1, <3>2
  <2> QED BY <2>1
<1>2. Eq(at)
  <2> HIDE DEF Eq
  <2> QED BY <1>1
<1>3. ASSUME NEW i \in 1 .. n, i # 1
      PROVE  at[i] = LET prev == at[i - 1] IN IF prev = NONE THEN NONE ELSE link[prev]
  <2> HIDE DEF at
  <2> QED BY <1>2, <1>3
<1>4. n > 0 => at[1] = x
  <2> HIDE DEF at
  <2> QED BY <1>2
<1> HIDE DEF at, Eq
<1>5. Nat \subseteq {i \in Nat : i \in 1 .. n => at[i] = r[i]}
  <2> DEFINE S == {i \in Nat : i \in 1 .. n => at[i] = r[i]}
  <2>1. 0 \in S
    OBVIOUS
  <2>2. ASSUME NEW i \in Nat, i \in S PROVE i + 1 \in S
    <3> SUFFICES ASSUME i + 1 \in 1 .. n PROVE at[i + 1] = r[i + 1]
      OBVIOUS
    <3>1. CASE i = 0
      BY <3>1, <1>4
    <3>2. CASE i # 0
      <4>1. i \in 1 .. n /\ i + 1 # 1 /\ (i + 1) - 1 = i /\ i + 1 \in 2 .. n
        BY <3>2
      <4>2. at[i] = r[i] /\ r[i] \in Item
        BY <2>2, <4>1
      <4>3. at[i + 1] = LET prev == at[i] IN IF prev = NONE THEN NONE ELSE link[prev]
        BY <1>3, <4>1
      <4>4. at[i + 1] = link[r[i]]
        BY <4>2, <4>3
      <4> QED BY <4>1, <4>4
    <3> QED BY <3>1, <3>2
  <2> HIDE DEF S
  <2>3. Nat \subseteq S
    BY <2>1, <2>2, Induct
  <2> QED BY <2>3 DEF S
<1>6. WalkOf(n, x, link) = [i \in 1 .. n |-> at[i]]
  BY DEF WalkOf, at, Eq
<1>7. \A i \in 1 .. n : at[i] = r[i]
  BY <1>5
<1> QED BY <1>6, <1>7

\* The forward and the backward walk of a list.
LEMMA WalkForth ==
    ASSUME NONE \notin Item, NEW n, NEW hd, NEW tl, NEW aft, NEW bef, NEW M, NEW s,
           Chain(n, hd, tl, aft, bef, M, s)
    PROVE  WalkOf(n, hd, aft) = s
<1>1. n \in Nat /\ s \in [1 .. n -> Item] /\ (n > 0 => s[1] = hd)
  BY DEF Chain
<1>2. \A i \in 2 .. n : aft[s[i - 1]] = s[i]
  <2> TAKE i \in 2 .. n
  <2> i - 1 \in 1 .. n - 1 /\ (i - 1) + 1 = i
    BY <1>1
  <2> QED BY DEF Chain
<1> QED BY <1>1, <1>2, WalkIs

LEMMA WalkBack ==
    ASSUME NONE \notin Item, NEW n, NEW hd, NEW tl, NEW aft, NEW bef, NEW M, NEW s,
           Chain(n, hd, tl, aft, bef, M, s)
    PROVE  WalkOf(n, tl, bef) = Reverse(s)
<1>1. n \in Nat /\ s \in [1 .. n -> Item]
  BY DEF Chain
<1>2. Len(s) = n
  BY <1>1
<1> DEFINE r == [i \in 1 .. n |-> s[(n - i) + 1]]
<1>3. Reverse(s) = r
  BY <1>2 DEF Reverse
<1>4. r \in [1 .. n -> Item]
  BY <1>1
<1>5. n > 0 => r[1] = tl
  <2> SUFFICES ASSUME n > 0 PROVE r[1] = tl
    OBVIOUS
  <2> 1 \in 1 .. n /\ (n - 1) + 1 = n
    BY <1>1
  <2> QED BY DEF Chain
<1>6. \A i \in 2 .. n : bef[r[i - 1]] = r[i]
  <2> TAKE i \in 2 .. n
  <2>1. /\ i \in 1 .. n /\ i - 1 \in 1 .. n
        /\ (n - i) + 1 \in 1 .. n - 1 /\ (n - (i - 1)) + 1 = ((n - i) + 1) + 1
    BY <1>1
  <2>2. r[i - 1] = s[((n - i) + 1) + 1] /\ r[i] = s[(n - i) + 1]
    BY <2>1
  <2>3. \A j \in 1 .. n - 1 : bef[s[j + 1]] = s[j]
    BY DEF Chain
  <2> QED BY <2>1, <2>2, <2>3
<1> HIDE DEF r
<1>7. WalkOf(n, tl, bef) = r
  BY <1>1, <1>4, <1>5, <1>6, WalkIs
<1> QED BY <1>3, <1>7

\* The walks of the lists are walks for their sizes.
LEMMA WalkSized ==
    \A h, x, link : Walk(h, x, link) = WalkOf(size[h], x, link)
  BY DEF Walk, WalkOf

\* A list of n nodes owns n of them.
LEMMA ChainCounts ==
    ASSUME NEW n, NEW hd, NEW tl, NEW aft, NEW bef, NEW M, NEW s, M \subseteq Item,
           Chain(n, hd, tl, aft, bef, M, s)
    PROVE  /\ ToSet(s) = M /\ IsFiniteSet(M) /\ Cardinality(M) = n
<1>1. n \in Nat /\ s \in [1 .. n -> Item] /\ DOMAIN s = 1 .. n
  BY DEF Chain
<1>2. ToSet(s) = M
  BY <1>1 DEF ToSet, Chain
<1>3. s \in Bijection(1 .. n, M)
  <2>1. s \in [1 .. n -> M]
    BY <1>1 DEF Chain
  <2>2. s \in Injection(1 .. n, M)
    BY <2>1 DEF Chain, Injection, IsInjective
  <2>3. s \in Surjection(1 .. n, M)
    BY <2>1 DEF Chain, Surjection
  <2> QED BY <2>2, <2>3 DEF Bijection
<1>4. IsFiniteSet(1 .. n) /\ Cardinality(1 .. n) = n
  <2> 0 \in Int /\ 1 \in Int /\ n \in Int /\ 1 <= n + 1
    BY <1>1
  <2> QED BY FS_Interval
<1>5. ExistsBijection(1 .. n, M)
  BY <1>3 DEF ExistsBijection
<1>6. IsFiniteSet(M) /\ Cardinality(M) = Cardinality(1 .. n)
  BY <1>4, <1>5, FS_Bijection
<1> QED BY <1>2, <1>4, <1>6

-----------------------------------------------------------------------------
\* Sequences

\* t is s, which has n elements, with x at p and everything from p on one place later.
PutIn(n, s, p, x, t) ==
    /\ t \in [1 .. n + 1 -> Item]
    /\ \A i \in 1 .. p - 1 : t[i] = s[i]
    /\ t[p] = x
    /\ \A i \in p .. n : t[i + 1] = s[i]

\* t is s without its element p.
Erased(n, s, p, t) ==
    /\ t \in [1 .. n - 1 -> Item]
    /\ \A i \in 1 .. p - 1 : t[i] = s[i]
    /\ \A i \in p .. n - 1 : t[i] = s[i + 1]

LEMMA AppendInserts ==
    ASSUME NEW n \in Nat, NEW s \in [1 .. n -> Item], NEW x \in Item
    PROVE  PutIn(n, s, n + 1, x, Append(s, x))
<1>1. s \in Seq(Item) /\ Len(s) = n
  OBVIOUS
<1>2. PICK t : t = Append(s, x)
  OBVIOUS
<1>3. /\ t \in Seq(Item) /\ Len(t) = n + 1 /\ t[n + 1] = x
      /\ \A i \in 1 .. n : t[i] = s[i]
  BY <1>1, <1>2, AppendProperties
<1>4. t \in [1 .. n + 1 -> Item]
  BY <1>3
<1>5. \A i \in n + 1 .. n : FALSE
  OBVIOUS
<1>6. (n + 1) - 1 = n
  OBVIOUS
<1> QED BY <1>2, <1>3, <1>4, <1>5, <1>6 DEF PutIn

LEMMA ConsInserts ==
    ASSUME NEW n \in Nat, NEW s \in [1 .. n -> Item], NEW x \in Item
    PROVE  PutIn(n, s, 1, x, <<x>> \o s)
<1>1. s \in Seq(Item) /\ Len(s) = n /\ <<x>> \in Seq(Item) /\ Len(<<x>>) = 1 /\ <<x>>[1] = x
  OBVIOUS
<1>2. PICK t : t = <<x>> \o s
  OBVIOUS
<1>3. /\ t \in Seq(Item) /\ Len(t) = 1 + n
      /\ \A i \in 1 .. 1 + n : t[i] = IF i <= 1 THEN <<x>>[i] ELSE s[i - 1]
  <2>1. /\ <<x>> \o s \in Seq(Item) /\ Len(<<x>> \o s) = Len(<<x>>) + Len(s)
        /\ \A i \in 1 .. Len(<<x>>) + Len(s) :
              (<<x>> \o s)[i] = IF i <= Len(<<x>>) THEN <<x>>[i] ELSE s[i - Len(<<x>>)]
    BY <1>1, ConcatProperties, Zenon
  <2> QED BY <1>1, <1>2, <2>1, Zenon
<1>4. t \in [1 .. n + 1 -> Item]
  BY <1>3
<1>5. \A i \in 1 .. 1 - 1 : FALSE
  OBVIOUS
<1>6. t[1] = x
  BY <1>1, <1>3
<1>7. ASSUME NEW i \in 1 .. n PROVE t[i + 1] = s[i]
  <2> i + 1 \in 1 .. 1 + n /\ ~(i + 1 <= 1) /\ (i + 1) - 1 = i
    OBVIOUS
  <2> QED BY <1>3
<1> QED BY <1>2, <1>4, <1>5, <1>6, <1>7 DEF PutIn

LEMMA InsertAtInserts ==
    ASSUME NEW n \in Nat, NEW s \in [1 .. n -> Item], NEW x \in Item, NEW p \in 1 .. n + 1
    PROVE  PutIn(n, s, p, x, InsertAt(s, p, x))
<1>1. s \in Seq(Item) /\ Len(s) = n
  OBVIOUS
<1>2. PICK a : a = SubSeq(s, 1, p - 1)
  OBVIOUS
<1>3. /\ a \in Seq(Item) /\ Len(a) = p - 1
      /\ \A i \in 1 .. p - 1 : a[i] = s[i]
  <2>1. 1 \in Int /\ 1 >= 1 /\ p - 1 \in Int /\ p - 1 <= n /\ 1 <= (p - 1) + 1
    OBVIOUS
  <2>2. /\ a \in Seq(Item) /\ Len(a) = (p - 1) - 1 + 1
        /\ \A i \in 1 .. (p - 1) - 1 + 1 : a[i] = s[1 + i - 1]
    BY <1>2, <2>1, Part
  <2>3. (p - 1) - 1 + 1 = p - 1 /\ \A i \in 1 .. p - 1 : 1 + i - 1 = i
    OBVIOUS
  <2> QED BY <2>2, <2>3
<1>4. PICK b : b = SubSeq(s, p, n)
  OBVIOUS
<1>5. /\ b \in Seq(Item) /\ Len(b) = n - p + 1
      /\ \A i \in 1 .. n - p + 1 : b[i] = s[p + i - 1]
  <2>1. p \in Int /\ p >= 1 /\ n \in Int /\ n <= n /\ p <= n + 1
    OBVIOUS
  <2> QED BY <1>4, <2>1, Part
<1>6. PICK c : c = Append(a, x)
  OBVIOUS
<1>7. a \o <<x>> = c
  BY <1>3, <1>6
<1>8. /\ c \in Seq(Item) /\ Len(c) = p /\ c[p] = x
      /\ \A i \in 1 .. p - 1 : c[i] = a[i]
  <2>1. /\ c \in Seq(Item) /\ Len(c) = Len(a) + 1 /\ c[Len(a) + 1] = x
        /\ \A i \in 1 .. Len(a) : c[i] = a[i]
    BY <1>3, <1>6, AppendProperties
  <2>2. Len(a) = p - 1 /\ (p - 1) + 1 = p
    BY <1>3
  <2> QED BY <2>1, <2>2
<1>9. PICK t : t = c \o b
  OBVIOUS
<1>10. InsertAt(s, p, x) = t
  BY <1>1, <1>2, <1>4, <1>7, <1>9, Zenon DEF InsertAt
<1>11. /\ t \in Seq(Item) /\ Len(t) = p + (n - p + 1)
       /\ \A i \in 1 .. p + (n - p + 1) : t[i] = IF i <= p THEN c[i] ELSE b[i - p]
  <2>1. c \in Seq(Item) /\ b \in Seq(Item) /\ Len(c) = p /\ Len(b) = n - p + 1
    BY <1>5, <1>8
  <2>2. /\ c \o b \in Seq(Item) /\ Len(c \o b) = Len(c) + Len(b)
        /\ \A i \in 1 .. Len(c) + Len(b) :
              (c \o b)[i] = IF i <= Len(c) THEN c[i] ELSE b[i - Len(c)]
    BY <2>1, ConcatProperties, Zenon
  <2> QED BY <1>9, <2>1, <2>2, Zenon
<1>12. p + (n - p + 1) = n + 1
  OBVIOUS
<1>13. t \in [1 .. n + 1 -> Item]
  BY <1>11, <1>12
<1>14. ASSUME NEW i \in 1 .. p - 1 PROVE t[i] = s[i]
  <2> i \in 1 .. p + (n - p + 1) /\ i <= p
    OBVIOUS
  <2> QED BY <1>3, <1>8, <1>11
<1>15. t[p] = x
  <2> p \in 1 .. p + (n - p + 1) /\ p <= p
    OBVIOUS
  <2> QED BY <1>8, <1>11
<1>16. ASSUME NEW i \in p .. n PROVE t[i + 1] = s[i]
  <2>1. i + 1 \in 1 .. p + (n - p + 1) /\ ~(i + 1 <= p)
    OBVIOUS
  <2>2. (i + 1) - p \in 1 .. n - p + 1 /\ p + ((i + 1) - p) - 1 = i
    OBVIOUS
  <2>3. b[(i + 1) - p] = s[i]
    BY <1>5, <2>2
  <2> QED BY <1>11, <2>1, <2>3
<1> QED BY <1>10, <1>13, <1>14, <1>15, <1>16 DEF PutIn

LEMMA RemoveAtErases ==
    ASSUME NEW n \in Nat, NEW s \in [1 .. n -> Item], NEW p \in 1 .. n
    PROVE  Erased(n, s, p, RemoveAt(s, p))
<1>1. s \in Seq(Item) /\ Len(s) = n
  OBVIOUS
<1>2. PICK t : t = SubSeq(s, 1, p - 1) \o SubSeq(s, p + 1, n)
  OBVIOUS
<1>3. RemoveAt(s, p) = t
  BY <1>1, <1>2, Zenon DEF RemoveAt
<1>4. IsCut(t, Item, s, n, p - 1, p)
  <2> p - 1 \in 0 .. n /\ p \in p - 1 .. n
    OBVIOUS
  <2> QED BY <1>2, Cutting
<1>5. n - (p - (p - 1)) = n - 1 /\ p - (p - 1) = 1
  OBVIOUS
<1>6. /\ t \in Seq(Item) /\ Len(t) = n - 1
      /\ \A i \in 1 .. n - 1 : t[i] = IF i <= p - 1 THEN s[i] ELSE s[i + 1]
  BY <1>4, <1>5 DEF IsCut
<1>7. t \in [1 .. n - 1 -> Item]
  BY <1>6
<1>8. ASSUME NEW i \in 1 .. p - 1 PROVE t[i] = s[i]
  <2> i \in 1 .. n - 1 /\ i <= p - 1
    OBVIOUS
  <2> QED BY <1>6
<1>9. ASSUME NEW i \in p .. n - 1 PROVE t[i] = s[i + 1]
  <2> i \in 1 .. n - 1 /\ ~(i <= p - 1)
    OBVIOUS
  <2> QED BY <1>6
<1> QED BY <1>3, <1>7, <1>8, <1>9 DEF Erased

-----------------------------------------------------------------------------
\* Chains

\* Links that agree on the nodes of a chain.
LEMMA ChainStays ==
    ASSUME NEW n, NEW hd, NEW tl, NEW aft, NEW bef, NEW M, NEW s, NEW aft2, NEW bef2,
           Chain(n, hd, tl, aft, bef, M, s),
           \A y \in Item : y \in M => aft2[y] = aft[y] /\ bef2[y] = bef[y]
    PROVE  Chain(n, hd, tl, aft2, bef2, M, s)
<1>1. n \in Nat /\ s \in [1 .. n -> Item]
  BY DEF Chain
<1>2. \A i \in 1 .. n : aft2[s[i]] = aft[s[i]] /\ bef2[s[i]] = bef[s[i]]
  BY <1>1 DEF Chain
<1>3. n > 0 => hd = s[1] /\ tl = s[n] /\ bef2[s[1]] = NONE /\ aft2[s[n]] = NONE
  <2> n > 0 => 1 \in 1 .. n /\ n \in 1 .. n
    BY <1>1
  <2> QED BY <1>2 DEF Chain
<1>4. \A i \in 1 .. n - 1 : aft2[s[i]] = s[i + 1] /\ bef2[s[i + 1]] = s[i]
  <2> TAKE i \in 1 .. n - 1
  <2> i \in 1 .. n /\ i + 1 \in 1 .. n
    BY <1>1
  <2> QED BY <1>2 DEF Chain
<1> QED BY <1>1, <1>3, <1>4 DEF Chain

\* x has been linked in at p.
LinkedIn(n, s, p, x, hd, tl, aft, bef, hd2, tl2, aft2, bef2) ==
    /\ p = n + 1 => aft2[x] = NONE /\ tl2 = x
    /\ p # n + 1 => aft2[x] = s[p] /\ tl2 = tl /\ bef2[s[p]] = x
    /\ p = 1 => bef2[x] = NONE /\ hd2 = x
    /\ p # 1 => bef2[x] = s[p - 1] /\ hd2 = hd /\ aft2[s[p - 1]] = x
    /\ \A i \in 1 .. n : i # p - 1 => aft2[s[i]] = aft[s[i]]
    /\ \A i \in 1 .. n : i # p => bef2[s[i]] = bef[s[i]]

\* A chain with a node more.
LEMMA ChainGrows ==
    ASSUME NEW n, NEW hd, NEW tl, NEW aft, NEW bef, NEW M, NEW s,
           NEW hd2, NEW tl2, NEW aft2, NEW bef2, NEW M2, NEW t, NEW p \in 1 .. n + 1, NEW x \in Item,
           Chain(n, hd, tl, aft, bef, M, s), x \notin M, PutIn(n, s, p, x, t),
           LinkedIn(n, s, p, x, hd, tl, aft, bef, hd2, tl2, aft2, bef2),
           \A y \in Item : y \in M2 <=> y \in M \/ y = x
    PROVE  Chain(n + 1, hd2, tl2, aft2, bef2, M2, t)
<1>1. /\ n \in Nat /\ s \in [1 .. n -> Item] /\ p \in Int
      /\ \A i, j \in 1 .. n : s[i] = s[j] => i = j
      /\ \A y \in Item : y \in M <=> \E i \in 1 .. n : s[i] = y
  BY DEF Chain
<1>2. /\ t \in [1 .. n + 1 -> Item] /\ t[p] = x
      /\ \A i \in 1 .. p - 1 : t[i] = s[i]
      /\ \A i \in p .. n : t[i + 1] = s[i]
  BY DEF PutIn
<1>3. /\ p = n + 1 => aft2[x] = NONE /\ tl2 = x
      /\ p # n + 1 => aft2[x] = s[p] /\ tl2 = tl /\ bef2[s[p]] = x
      /\ p = 1 => bef2[x] = NONE /\ hd2 = x
      /\ p # 1 => bef2[x] = s[p - 1] /\ hd2 = hd /\ aft2[s[p - 1]] = x
      /\ \A i \in 1 .. n : i # p - 1 => aft2[s[i]] = aft[s[i]]
      /\ \A i \in 1 .. n : i # p => bef2[s[i]] = bef[s[i]]
  BY DEF LinkedIn
<1>4. ASSUME NEW i \in 1 .. n PROVE s[i] # x
  BY <1>1
<1>5. ASSUME NEW i \in 1 .. n + 1
      PROVE  \/ i = p /\ t[i] = x
             \/ i < p /\ i \in 1 .. n /\ i \in 1 .. p - 1 /\ t[i] = s[i]
             \/ i > p /\ i - 1 \in 1 .. n /\ i - 1 \in p .. n /\ t[i] = s[i - 1]
  <2>1. CASE i = p
    BY <2>1, <1>2
  <2>2. CASE i < p
    <3> i \in 1 .. p - 1 /\ i \in 1 .. n
      BY <2>2, <1>1
    <3> QED BY <2>2, <1>2
  <2>3. CASE i > p
    <3> i - 1 \in p .. n /\ i - 1 \in 1 .. n /\ (i - 1) + 1 = i
      BY <2>3, <1>1
    <3> QED BY <2>3, <1>2
  <2> QED BY <1>1, <2>1, <2>2, <2>3
<1>6. ASSUME NEW i \in 1 .. n + 1, NEW j \in 1 .. n + 1, t[i] = t[j] PROVE i = j
  <2>1. CASE i = p
    BY <2>1, <1>4, <1>5, <1>6
  <2>2. CASE i < p /\ j < p
    <3> i \in 1 .. n /\ j \in 1 .. n /\ s[i] = s[j]
      BY <2>2, <1>1, <1>5, <1>6
    <3> QED BY <1>1
  <2>3. CASE i < p /\ j > p
    <3> i \in 1 .. n /\ j - 1 \in 1 .. n /\ s[i] = s[j - 1]
      BY <2>3, <1>1, <1>5, <1>6
    <3> i = j - 1
      BY <1>1
    <3> QED BY <2>3, <1>1
  <2>4. CASE i > p /\ j < p
    <3> i - 1 \in 1 .. n /\ j \in 1 .. n /\ s[i - 1] = s[j]
      BY <2>4, <1>1, <1>5, <1>6
    <3> i - 1 = j
      BY <1>1
    <3> QED BY <2>4, <1>1
  <2>5. CASE i > p /\ j > p
    <3> i - 1 \in 1 .. n /\ j - 1 \in 1 .. n /\ s[i - 1] = s[j - 1]
      BY <2>5, <1>1, <1>5, <1>6
    <3> i - 1 = j - 1
      BY <1>1
    <3> QED BY <1>1
  <2>6. CASE j = p
    BY <2>6, <1>4, <1>5, <1>6
  <2> QED BY <1>1, <2>1, <2>2, <2>3, <2>4, <2>5, <2>6
<1>7. ASSUME NEW y \in Item PROVE y \in M2 <=> \E i \in 1 .. n + 1 : t[i] = y
  <2>1. ASSUME NEW i \in 1 .. n + 1 PROVE t[i] \in M2
    BY <1>1, <1>2, <1>5
  <2>2. ASSUME y \in M2 PROVE \E i \in 1 .. n + 1 : t[i] = y
    <3>1. CASE y = x
      BY <3>1, <1>1, <1>2
    <3>2. CASE y # x
      <4>1. PICK k \in 1 .. n : s[k] = y
        BY <3>2, <2>2, <1>1
      <4>2. CASE k < p
        <5> k \in 1 .. p - 1 /\ k \in 1 .. n + 1
          BY <4>2, <1>1
        <5> QED BY <4>1, <1>2
      <4>3. CASE ~(k < p)
        <5> k \in p .. n /\ k + 1 \in 1 .. n + 1
          BY <4>3, <1>1
        <5> QED BY <4>1, <1>2
      <4> QED BY <4>2, <4>3
    <3> QED BY <3>1, <3>2
  <2> QED BY <2>1, <2>2
<1>8. hd2 = t[1] /\ bef2[t[1]] = NONE
  <2>1. CASE p = 1
    BY <2>1, <1>2, <1>3
  <2>2. CASE p # 1
    <3>1. 1 \in 1 .. p - 1 /\ n > 0 /\ 1 \in 1 .. n /\ 1 # p
      BY <2>2, <1>1
    <3>2. t[1] = s[1] /\ hd2 = hd /\ bef2[s[1]] = bef[s[1]]
      BY <2>2, <3>1, <1>2, <1>3
    <3> QED BY <3>1, <3>2 DEF Chain
  <2> QED BY <2>1, <2>2
<1>9. tl2 = t[n + 1] /\ aft2[t[n + 1]] = NONE
  <2>1. CASE p = n + 1
    BY <2>1, <1>2, <1>3
  <2>2. CASE p # n + 1
    <3>1. n \in p .. n /\ n > 0 /\ n \in 1 .. n /\ n # p - 1
      BY <2>2, <1>1
    <3>2. t[n + 1] = s[n] /\ tl2 = tl /\ aft2[s[n]] = aft[s[n]]
      BY <2>2, <3>1, <1>2, <1>3
    <3> QED BY <3>1, <3>2 DEF Chain
  <2> QED BY <2>1, <2>2
<1>10. ASSUME NEW i \in 1 .. n PROVE aft2[t[i]] = t[i + 1] /\ bef2[t[i + 1]] = t[i]
  <2>1. CASE i < p - 1
    <3>1. /\ i \in 1 .. p - 1 /\ i + 1 \in 1 .. p - 1 /\ i \in 1 .. n - 1
          /\ i # p - 1 /\ i + 1 \in 1 .. n /\ i + 1 # p
      BY <2>1, <1>1
    <3>2. t[i] = s[i] /\ t[i + 1] = s[i + 1]
      BY <3>1, <1>2
    <3>3. aft[s[i]] = s[i + 1] /\ bef[s[i + 1]] = s[i]
      BY <3>1 DEF Chain
    <3>4. aft2[s[i]] = aft[s[i]] /\ bef2[s[i + 1]] = bef[s[i + 1]]
      BY <3>1, <1>3
    <3> QED BY <3>2, <3>3, <3>4
  <2>2. CASE i = p - 1
    <3>1. i \in 1 .. p - 1 /\ p # 1 /\ i + 1 = p
      BY <2>2, <1>1
    <3>2. t[i] = s[i] /\ t[i + 1] = x
      BY <3>1, <1>2
    <3> QED BY <2>2, <3>1, <3>2, <1>3
  <2>3. CASE i = p
    <3>1. i \in p .. n /\ p # n + 1
      BY <2>3, <1>1
    <3>2. t[i] = x /\ t[i + 1] = s[p]
      BY <2>3, <3>1, <1>2
    <3> QED BY <3>1, <3>2, <1>3
  <2>4. CASE i > p
    <3>1. /\ i - 1 \in p .. n /\ i \in p .. n /\ i - 1 \in 1 .. n - 1 /\ (i - 1) + 1 = i
          /\ i - 1 \in 1 .. n /\ i - 1 # p - 1 /\ i # p
      BY <2>4, <1>1
    <3>2. t[i] = s[i - 1] /\ t[i + 1] = s[i]
      BY <3>1, <1>2
    <3>3. aft[s[i - 1]] = s[i] /\ bef[s[i]] = s[i - 1]
      BY <3>1 DEF Chain
    <3>4. aft2[s[i - 1]] = aft[s[i - 1]] /\ bef2[s[i]] = bef[s[i]]
      BY <3>1, <1>3
    <3> QED BY <3>2, <3>3, <3>4
  <2> QED BY <1>1, <2>1, <2>2, <2>3, <2>4
<1>11. n + 1 \in Nat /\ n + 1 # 0 /\ (n + 1) - 1 = n
  BY <1>1
<1>12. \A i, j \in 1 .. n + 1 : t[i] = t[j] => i = j
  BY <1>6
<1>13. \A i \in 1 .. (n + 1) - 1 : aft2[t[i]] = t[i + 1] /\ bef2[t[i + 1]] = t[i]
  BY <1>10, <1>11
<1> QED BY <1>2, <1>7, <1>8, <1>9, <1>11, <1>12, <1>13 DEF Chain

\* The node at p has been taken out.
LinkedOut(n, s, p, hd, tl, aft, bef, hd2, tl2, aft2, bef2) ==
    /\ p # 1 /\ p # n => aft2[s[p - 1]] = s[p + 1] /\ bef2[s[p + 1]] = s[p - 1]
    /\ p # 1 /\ p = n => aft2[s[p - 1]] = NONE /\ tl2 = s[p - 1]
    /\ p = 1 /\ p # n => bef2[s[p + 1]] = NONE /\ hd2 = s[p + 1]
    /\ p = 1 /\ p = n => hd2 = NONE /\ tl2 = NONE
    /\ p # 1 => hd2 = hd
    /\ p # n => tl2 = tl
    /\ \A i \in 1 .. n : i # p - 1 => aft2[s[i]] = aft[s[i]]
    /\ \A i \in 1 .. n : i # p + 1 => bef2[s[i]] = bef[s[i]]

\* A chain with a node less.
LEMMA ChainShrinks ==
    ASSUME NEW n, NEW hd, NEW tl, NEW aft, NEW bef, NEW M, NEW s,
           NEW hd2, NEW tl2, NEW aft2, NEW bef2, NEW M2, NEW t, NEW p \in 1 .. n,
           Chain(n, hd, tl, aft, bef, M, s), Erased(n, s, p, t),
           LinkedOut(n, s, p, hd, tl, aft, bef, hd2, tl2, aft2, bef2),
           \A y \in Item : y \in M2 <=> y \in M /\ y # s[p]
    PROVE  Chain(n - 1, hd2, tl2, aft2, bef2, M2, t)
<1>1. /\ n \in Nat /\ n > 0 /\ s \in [1 .. n -> Item] /\ p \in Int
      /\ \A i, j \in 1 .. n : s[i] = s[j] => i = j
      /\ \A y \in Item : y \in M <=> \E i \in 1 .. n : s[i] = y
  BY DEF Chain
<1>2. /\ t \in [1 .. n - 1 -> Item]
      /\ \A i \in 1 .. p - 1 : t[i] = s[i]
      /\ \A i \in p .. n - 1 : t[i] = s[i + 1]
  BY DEF Erased
<1>3. /\ p # 1 /\ p # n => aft2[s[p - 1]] = s[p + 1] /\ bef2[s[p + 1]] = s[p - 1]
      /\ p # 1 /\ p = n => aft2[s[p - 1]] = NONE /\ tl2 = s[p - 1]
      /\ p = 1 /\ p # n => bef2[s[p + 1]] = NONE /\ hd2 = s[p + 1]
      /\ p = 1 /\ p = n => hd2 = NONE /\ tl2 = NONE
      /\ p # 1 => hd2 = hd
      /\ p # n => tl2 = tl
      /\ \A i \in 1 .. n : i # p - 1 => aft2[s[i]] = aft[s[i]]
      /\ \A i \in 1 .. n : i # p + 1 => bef2[s[i]] = bef[s[i]]
  BY DEF LinkedOut
<1>4. ASSUME NEW i \in 1 .. n - 1
      PROVE  \/ i < p /\ i \in 1 .. n /\ i \in 1 .. p - 1 /\ t[i] = s[i]
             \/ i >= p /\ i + 1 \in 1 .. n /\ i \in p .. n - 1 /\ t[i] = s[i + 1]
  <2>1. CASE i < p
    <3> i \in 1 .. p - 1 /\ i \in 1 .. n
      BY <2>1, <1>1
    <3> QED BY <2>1, <1>2
  <2>2. CASE i >= p
    <3> i \in p .. n - 1 /\ i + 1 \in 1 .. n
      BY <2>2, <1>1
    <3> QED BY <2>2, <1>2
  <2> QED BY <1>1, <2>1, <2>2
<1>5. ASSUME NEW i \in 1 .. n - 1, NEW j \in 1 .. n - 1, t[i] = t[j] PROVE i = j
  <2>1. CASE i < p /\ j < p
    <3> i \in 1 .. n /\ j \in 1 .. n /\ s[i] = s[j]
      BY <2>1, <1>1, <1>4, <1>5
    <3> QED BY <1>1
  <2>2. CASE i < p /\ j >= p
    <3> i \in 1 .. n /\ j + 1 \in 1 .. n /\ s[i] = s[j + 1]
      BY <2>2, <1>1, <1>4, <1>5
    <3> i = j + 1
      BY <1>1
    <3> QED BY <2>2, <1>1
  <2>3. CASE i >= p /\ j < p
    <3> i + 1 \in 1 .. n /\ j \in 1 .. n /\ s[i + 1] = s[j]
      BY <2>3, <1>1, <1>4, <1>5
    <3> i + 1 = j
      BY <1>1
    <3> QED BY <2>3, <1>1
  <2>4. CASE i >= p /\ j >= p
    <3> i + 1 \in 1 .. n /\ j + 1 \in 1 .. n /\ s[i + 1] = s[j + 1]
      BY <2>4, <1>1, <1>4, <1>5
    <3> i + 1 = j + 1
      BY <1>1
    <3> QED BY <1>1
  <2> QED BY <1>1, <2>1, <2>2, <2>3, <2>4
<1>6. ASSUME NEW y \in Item PROVE y \in M2 <=> \E i \in 1 .. n - 1 : t[i] = y
  <2>1. ASSUME NEW i \in 1 .. n - 1 PROVE t[i] \in M2
    <3>1. CASE i < p
      <4>1. i \in 1 .. n /\ t[i] = s[i] /\ i # p
        BY <3>1, <1>1, <1>4
      <4>2. s[i] \in Item /\ s[i] \in M /\ s[i] # s[p]
        BY <4>1, <1>1
      <4> QED BY <4>1, <4>2
    <3>2. CASE i >= p
      <4>1. i + 1 \in 1 .. n /\ t[i] = s[i + 1] /\ i + 1 # p
        BY <3>2, <1>1, <1>4
      <4>2. s[i + 1] \in Item /\ s[i + 1] \in M /\ s[i + 1] # s[p]
        BY <4>1, <1>1
      <4> QED BY <4>1, <4>2
    <3> QED BY <1>1, <3>1, <3>2
  <2>2. ASSUME y \in M2 PROVE \E i \in 1 .. n - 1 : t[i] = y
    <3>1. PICK k \in 1 .. n : s[k] = y /\ k # p
      BY <2>2, <1>1
    <3>2. CASE k < p
      <4> k \in 1 .. p - 1 /\ k \in 1 .. n - 1
        BY <3>2, <1>1
      <4> QED BY <3>1, <1>2
    <3>3. CASE ~(k < p)
      <4> k - 1 \in p .. n - 1 /\ k - 1 \in 1 .. n - 1 /\ (k - 1) + 1 = k
        BY <3>1, <3>3, <1>1
      <4> QED BY <3>1, <1>2
    <3> QED BY <3>2, <3>3
  <2> QED BY <2>1, <2>2
<1>7. ASSUME n - 1 > 0 PROVE hd2 = t[1] /\ bef2[t[1]] = NONE
  <2>1. CASE p = 1
    <3>1. 1 \in p .. n - 1 /\ p # n
      BY <2>1, <1>1, <1>7
    <3> QED BY <2>1, <3>1, <1>2, <1>3
  <2>2. CASE p # 1
    <3>1. 1 \in 1 .. p - 1 /\ 1 \in 1 .. n /\ 1 # p + 1
      BY <2>2, <1>1
    <3>2. t[1] = s[1] /\ hd2 = hd /\ bef2[s[1]] = bef[s[1]]
      BY <2>2, <3>1, <1>2, <1>3
    <3> QED BY <3>2, <1>1 DEF Chain
  <2> QED BY <2>1, <2>2
<1>8. ASSUME n - 1 > 0 PROVE tl2 = t[n - 1] /\ aft2[t[n - 1]] = NONE
  <2>1. CASE p = n
    <3>1. n - 1 \in 1 .. p - 1 /\ p # 1
      BY <2>1, <1>1, <1>8
    <3>2. t[n - 1] = s[p - 1]
      BY <2>1, <3>1, <1>2
    <3> QED BY <2>1, <3>1, <3>2, <1>3
  <2>2. CASE p # n
    <3>1. n - 1 \in p .. n - 1 /\ (n - 1) + 1 = n /\ n \in 1 .. n /\ n # p - 1
      BY <2>2, <1>1
    <3>2. t[n - 1] = s[n] /\ tl2 = tl /\ aft2[s[n]] = aft[s[n]]
      BY <2>2, <3>1, <1>2, <1>3
    <3> QED BY <3>2, <1>1 DEF Chain
  <2> QED BY <2>1, <2>2
<1>9. n - 1 = 0 => hd2 = NONE /\ tl2 = NONE
  <2> SUFFICES ASSUME n - 1 = 0 PROVE hd2 = NONE /\ tl2 = NONE
    OBVIOUS
  <2> p = 1 /\ p = n
    BY <1>1
  <2> QED BY <1>3
<1>10. ASSUME NEW i \in 1 .. (n - 1) - 1 PROVE aft2[t[i]] = t[i + 1] /\ bef2[t[i + 1]] = t[i]
  <2>1. CASE i < p - 1
    <3>1. /\ i \in 1 .. p - 1 /\ i + 1 \in 1 .. p - 1 /\ i \in 1 .. n - 1
          /\ i \in 1 .. n /\ i # p - 1 /\ i + 1 \in 1 .. n /\ i + 1 # p + 1
      BY <2>1, <1>1
    <3>2. t[i] = s[i] /\ t[i + 1] = s[i + 1]
      BY <3>1, <1>2
    <3>3. aft[s[i]] = s[i + 1] /\ bef[s[i + 1]] = s[i]
      BY <3>1 DEF Chain
    <3>4. aft2[s[i]] = aft[s[i]] /\ bef2[s[i + 1]] = bef[s[i + 1]]
      BY <3>1, <1>3
    <3> QED BY <3>2, <3>3, <3>4
  <2>2. CASE i = p - 1
    <3>1. i \in 1 .. p - 1 /\ p # 1 /\ p # n /\ i + 1 = p /\ i + 1 \in p .. n - 1
      BY <2>2, <1>1
    <3>2. t[i] = s[i]
      BY <3>1, <1>2
    <3>3. t[i + 1] = s[(i + 1) + 1]
      BY <3>1, <1>2
    <3> QED BY <2>2, <3>1, <3>2, <3>3, <1>3
  <2>3. CASE i >= p
    <3>1. /\ i \in p .. n - 1 /\ i + 1 \in p .. n - 1 /\ i + 1 \in 1 .. n - 1
          /\ i + 1 \in 1 .. n /\ i + 1 # p - 1 /\ (i + 1) + 1 \in 1 .. n
          /\ (i + 1) + 1 # p + 1
      BY <2>3, <1>1
    <3>2. t[i] = s[i + 1] /\ t[i + 1] = s[(i + 1) + 1]
      BY <3>1, <1>2
    <3>3. aft[s[i + 1]] = s[(i + 1) + 1] /\ bef[s[(i + 1) + 1]] = s[i + 1]
      BY <3>1 DEF Chain
    <3>4. /\ aft2[s[i + 1]] = aft[s[i + 1]]
          /\ bef2[s[(i + 1) + 1]] = bef[s[(i + 1) + 1]]
      BY <3>1, <1>3
    <3> QED BY <3>2, <3>3, <3>4
  <2> QED BY <1>1, <2>1, <2>2, <2>3
<1>11. n - 1 \in Nat
  BY <1>1
<1>12. \A i, j \in 1 .. n - 1 : t[i] = t[j] => i = j
  BY <1>5
<1>13. \A i \in 1 .. (n - 1) - 1 : aft2[t[i]] = t[i + 1] /\ bef2[t[i + 1]] = t[i]
  BY <1>10
<1> QED BY <1>2, <1>6, <1>7, <1>8, <1>9, <1>11, <1>12, <1>13 DEF Chain

-----------------------------------------------------------------------------
\* The lists

ListType ==
    /\ head \in [Handler -> Item \cup {NONE}] /\ tail \in [Handler -> Item \cup {NONE}]
    /\ size \in [Handler -> Nat]
    /\ after \in [Item -> Item \cup {NONE}] /\ before \in [Item -> Item \cup {NONE}]
    /\ owner \in [Item -> Handler \cup {NONE}]

Owned(h) == {x \in Item : owner[x] = h}

\* The list h is the chain s of the nodes that were put into it.
HasChain(h, s) == Chain(size[h], head[h], tail[h], after, before, Owned(h), s)

ListInv == ListType /\ \A h \in Handler : \E s : HasChain(h, s)

\* What a chain says of the fields of its list.
Facts(h, s) ==
    /\ size[h] \in Nat /\ s \in [1 .. size[h] -> Item]
    /\ size[h] = 0 <=> head[h] = NONE
    /\ size[h] = 0 <=> tail[h] = NONE
    /\ size[h] > 0 => head[h] = s[1] /\ tail[h] = s[size[h]]
    /\ \A x \in Item : owner[x] = h <=> \E i \in 1 .. size[h] : s[i] = x
    /\ \A i \in 1 .. size[h] : s[i] \in Item /\ owner[s[i]] = h
    /\ \A i, j \in 1 .. size[h] : s[i] = s[j] => i = j
    /\ \A i \in 1 .. size[h] - 1 : after[s[i]] = s[i + 1] /\ before[s[i + 1]] = s[i]

LEMMA ChainFacts ==
    ASSUME ListType, NEW h \in Handler, NEW s, HasChain(h, s)
    PROVE  Facts(h, s)
<1>1. /\ size[h] \in Nat /\ s \in [1 .. size[h] -> Item]
      /\ size[h] = 0 => head[h] = NONE /\ tail[h] = NONE
      /\ size[h] > 0 => head[h] = s[1] /\ tail[h] = s[size[h]]
      /\ \A i, j \in 1 .. size[h] : s[i] = s[j] => i = j
      /\ \A i \in 1 .. size[h] - 1 : after[s[i]] = s[i + 1] /\ before[s[i + 1]] = s[i]
      /\ \A x \in Item : x \in Owned(h) <=> \E i \in 1 .. size[h] : s[i] = x
  BY DEF HasChain, Chain
<1>2. \A x \in Item : x \in Owned(h) <=> owner[x] = h
  BY DEF Owned
<1>3. size[h] > 0 => head[h] # NONE /\ tail[h] # NONE
  <2> SUFFICES ASSUME size[h] > 0 PROVE head[h] # NONE /\ tail[h] # NONE
    OBVIOUS
  <2> 1 \in 1 .. size[h] /\ size[h] \in 1 .. size[h]
    BY <1>1
  <2> s[1] \in Item /\ s[size[h]] \in Item
    BY <1>1
  <2> QED BY <1>1, ListAssumption
<1>4. \A i \in 1 .. size[h] : s[i] \in Item /\ owner[s[i]] = h
  BY <1>1, <1>2
<1> QED BY <1>1, <1>2, <1>3, <1>4 DEF Facts

\* A function that was changed at one place, and at two.
LEMMA PutOne ==
    ASSUME NEW D, NEW V, NEW f \in [D -> V], NEW a \in D, NEW u \in V, NEW g,
           g = [f EXCEPT ![a] = u]
    PROVE  g \in [D -> V] /\ g[a] = u /\ \A y \in D : y # a => g[y] = f[y]
  OBVIOUS

LEMMA PutTwo ==
    ASSUME NEW D, NEW V, NEW f \in [D -> V], NEW a \in D, NEW u \in V, NEW b \in D, NEW v \in V,
           a # b, NEW g, g = [f EXCEPT ![a] = u, ![b] = v]
    PROVE  /\ g \in [D -> V] /\ g[a] = u /\ g[b] = v
           /\ \A y \in D : y # a /\ y # b => g[y] = f[y]
  OBVIOUS

\* The fields after x was linked into h at p.
NodeIn(h, s, p, x) ==
    /\ head' \in [Handler -> Item \cup {NONE}] /\ tail' \in [Handler -> Item \cup {NONE}]
    /\ size' \in [Handler -> Nat] /\ size'[h] = size[h] + 1
    /\ after' \in [Item -> Item \cup {NONE}] /\ before' \in [Item -> Item \cup {NONE}]
    /\ LinkedIn(size[h], s, p, x, head[h], tail[h], after, before,
                head'[h], tail'[h], after', before')
    /\ \A g \in Handler : g # h => head'[g] = head[g] /\ tail'[g] = tail[g] /\ size'[g] = size[g]
    /\ \A y \in Item : y # x /\ owner[y] # h => after'[y] = after[y] /\ before'[y] = before[y]

\* The first node of a list.
LEMMA OnceIn ==
    ASSUME ListType, NEW h \in Handler, NEW x \in Item, NEW s, HasChain(h, s),
           owner[x] = NONE, size[h] = 0, SetOnce(h, x)
    PROVE  NodeIn(h, s, 1, x)
<1>1. /\ head' = [head EXCEPT ![h] = x] /\ tail' = [tail EXCEPT ![h] = x]
      /\ size' = [size EXCEPT ![h] = 1]
      /\ after' = [after EXCEPT ![x] = NONE] /\ before' = [before EXCEPT ![x] = NONE]
  BY DEF SetOnce
<1>2. /\ head' \in [Handler -> Item \cup {NONE}] /\ head'[h] = x
      /\ \A g \in Handler : g # h => head'[g] = head[g]
  BY <1>1, PutOne DEF ListType
<1>3. /\ tail' \in [Handler -> Item \cup {NONE}] /\ tail'[h] = x
      /\ \A g \in Handler : g # h => tail'[g] = tail[g]
  BY <1>1, PutOne DEF ListType
<1>4. /\ size' \in [Handler -> Nat] /\ size'[h] = 1
      /\ \A g \in Handler : g # h => size'[g] = size[g]
  BY <1>1, PutOne DEF ListType
<1>5. /\ after' \in [Item -> Item \cup {NONE}] /\ after'[x] = NONE
      /\ \A y \in Item : y # x => after'[y] = after[y]
  BY <1>1, PutOne DEF ListType
<1>6. /\ before' \in [Item -> Item \cup {NONE}] /\ before'[x] = NONE
      /\ \A y \in Item : y # x => before'[y] = before[y]
  BY <1>1, PutOne DEF ListType
<1>7. LinkedIn(0, s, 1, x, head[h], tail[h], after, before, head'[h], tail'[h], after', before')
  BY <1>2, <1>3, <1>5, <1>6 DEF LinkedIn
<1> QED BY <1>2, <1>3, <1>4, <1>5, <1>6, <1>7 DEF NodeIn

\* The sizes and one end of a list that has nodes.
LEMMA SizeGrown ==
    ASSUME ListType, NEW h \in Handler, size' = [size EXCEPT ![h] = @ + 1]
    PROVE  /\ size' \in [Handler -> Nat] /\ size'[h] = size[h] + 1
           /\ \A g \in Handler : g # h => size'[g] = size[g]
  BY DEF ListType

\* A node in front (eaf_list_push_front, and eaf_list_insert_before at the head).
LEMMA FrontIn ==
    ASSUME ListType, NEW h \in Handler, NEW x \in Item, NEW s, HasChain(h, s),
           owner[x] = NONE, LinkFront(h, x)
    PROVE  NodeIn(h, s, 1, x)
<1>1. CASE head[h] = NONE
  <2> size[h] = 0 /\ SetOnce(h, x)
    BY <1>1, ChainFacts DEF LinkFront, Facts
  <2> QED BY OnceIn
<1>2. CASE head[h] # NONE
  <2> DEFINE n == size[h]
  <2>1. /\ n \in Nat /\ n # 0 /\ head[h] = s[1] /\ s \in [1 .. n -> Item]
        /\ \A i \in 1 .. n : owner[s[i]] = h
        /\ \A i, j \in 1 .. n : s[i] = s[j] => i = j
    BY <1>2, ChainFacts DEF Facts
  <2>2. 1 \in 1 .. n /\ s[1] \in Item /\ s[1] # x
    BY <2>1, ListAssumption
  <2>3. /\ before' = [before EXCEPT ![x] = NONE, ![s[1]] = x]
        /\ after' = [after EXCEPT ![x] = s[1]] /\ head' = [head EXCEPT ![h] = x]
        /\ size' = [size EXCEPT ![h] = @ + 1] /\ tail' = tail
    BY <1>2, <2>1 DEF LinkFront
  <2>4. /\ before' \in [Item -> Item \cup {NONE}] /\ before'[x] = NONE /\ before'[s[1]] = x
        /\ \A y \in Item : y # x /\ y # s[1] => before'[y] = before[y]
    BY <2>2, <2>3, PutTwo DEF ListType
  <2>5. /\ after' \in [Item -> Item \cup {NONE}] /\ after'[x] = s[1]
        /\ \A y \in Item : y # x => after'[y] = after[y]
    BY <2>2, <2>3, PutOne DEF ListType
  <2>6. /\ head' \in [Handler -> Item \cup {NONE}] /\ head'[h] = x
        /\ \A g \in Handler : g # h => head'[g] = head[g]
    BY <2>3, PutOne DEF ListType
  <2>7. tail' \in [Handler -> Item \cup {NONE}] /\ tail'[h] = tail[h]
    BY <2>3 DEF ListType
  <2>8. \A i \in 1 .. n : s[i] \in Item /\ s[i] # x /\ (i # 1 => s[i] # s[1])
    BY <2>1, <2>2, ListAssumption
  <2>9. LinkedIn(n, s, 1, x, head[h], tail[h], after, before, head'[h], tail'[h], after', before')
    <3>1. 1 # n + 1 /\ 1 = 1
      BY <2>1
    <3> HIDE DEF n
    <3> QED BY <2>4, <2>5, <2>6, <2>7, <2>8, <3>1 DEF LinkedIn
  <2>10. \A y \in Item : y # x /\ owner[y] # h => after'[y] = after[y] /\ before'[y] = before[y]
    BY <2>1, <2>2, <2>4, <2>5
  <2> QED BY <2>3, <2>4, <2>5, <2>6, <2>7, <2>9, <2>10, SizeGrown DEF NodeIn
<1> QED BY <1>1, <1>2

\* A node at the back (eaf_list_push_back, and eaf_list_insert_after at the tail).
LEMMA BackIn ==
    ASSUME ListType, NEW h \in Handler, NEW x \in Item, NEW s, HasChain(h, s),
           owner[x] = NONE, LinkBack(h, x)
    PROVE  NodeIn(h, s, size[h] + 1, x)
<1>1. CASE head[h] = NONE
  <2>1. size[h] = 0 /\ SetOnce(h, x)
    BY <1>1, ChainFacts DEF LinkBack, Facts
  <2>2. NodeIn(h, s, 1, x)
    BY <2>1, OnceIn
  <2> QED BY <2>1, <2>2
<1>2. CASE head[h] # NONE
  <2> DEFINE n == size[h]
  <2>1. /\ n \in Nat /\ n # 0 /\ tail[h] = s[n] /\ s \in [1 .. n -> Item]
        /\ \A i \in 1 .. n : owner[s[i]] = h
        /\ \A i, j \in 1 .. n : s[i] = s[j] => i = j
    BY <1>2, ChainFacts DEF Facts
  <2>2. n \in 1 .. n /\ s[n] \in Item /\ s[n] # x
    BY <2>1, ListAssumption
  <2>3. /\ after' = [after EXCEPT ![x] = NONE, ![s[n]] = x]
        /\ before' = [before EXCEPT ![x] = s[n]] /\ tail' = [tail EXCEPT ![h] = x]
        /\ size' = [size EXCEPT ![h] = @ + 1] /\ head' = head
    BY <1>2, <2>1 DEF LinkBack
  <2>4. /\ after' \in [Item -> Item \cup {NONE}] /\ after'[x] = NONE /\ after'[s[n]] = x
        /\ \A y \in Item : y # x /\ y # s[n] => after'[y] = after[y]
    BY <2>2, <2>3, PutTwo DEF ListType
  <2>5. /\ before' \in [Item -> Item \cup {NONE}] /\ before'[x] = s[n]
        /\ \A y \in Item : y # x => before'[y] = before[y]
    BY <2>2, <2>3, PutOne DEF ListType
  <2>6. /\ tail' \in [Handler -> Item \cup {NONE}] /\ tail'[h] = x
        /\ \A g \in Handler : g # h => tail'[g] = tail[g]
    BY <2>3, PutOne DEF ListType
  <2>7. head' \in [Handler -> Item \cup {NONE}] /\ head'[h] = head[h]
    BY <2>3 DEF ListType
  <2>8. \A i \in 1 .. n : s[i] \in Item /\ s[i] # x /\ (i # n => s[i] # s[n])
    BY <2>1, <2>2, ListAssumption
  <2>9. LinkedIn(n, s, n + 1, x, head[h], tail[h], after, before,
                 head'[h], tail'[h], after', before')
    <3>1. n + 1 # 1 /\ (n + 1) - 1 = n /\ n + 1 \notin 1 .. n
      BY <2>1
    <3> HIDE DEF n
    <3> QED BY <2>4, <2>5, <2>6, <2>7, <2>8, <3>1 DEF LinkedIn
  <2>10. \A y \in Item : y # x /\ owner[y] # h => after'[y] = after[y] /\ before'[y] = before[y]
    BY <2>1, <2>2, <2>4, <2>5
  <2> QED BY <2>3, <2>4, <2>5, <2>6, <2>7, <2>9, <2>10, SizeGrown DEF NodeIn
<1> QED BY <1>1, <1>2

\* A node between two: p is the place it gets.
LEMMA BetweenIn ==
    ASSUME ListType, NEW h \in Handler, NEW x \in Item, NEW s, HasChain(h, s),
           owner[x] = NONE, NEW p \in 2 .. size[h],
           after' = [after EXCEPT ![x] = s[p], ![s[p - 1]] = x],
           before' = [before EXCEPT ![x] = s[p - 1], ![s[p]] = x],
           size' = [size EXCEPT ![h] = @ + 1], UNCHANGED <<head, tail>>
    PROVE  NodeIn(h, s, p, x)
<1> DEFINE n == size[h]
<1>1. /\ n \in Nat /\ s \in [1 .. n -> Item]
      /\ \A i \in 1 .. n : owner[s[i]] = h
      /\ \A i, j \in 1 .. n : s[i] = s[j] => i = j
  <2> Facts(h, s)
    BY ChainFacts
  <2> QED BY DEF Facts
<1>2. /\ p \in 1 .. n /\ p - 1 \in 1 .. n /\ p # 1 /\ p # n + 1
  BY <1>1
<1>3. \A i \in 1 .. n : s[i] \in Item /\ s[i] # x
  BY <1>1, ListAssumption
<1> HIDE DEF n
<1>4. /\ after' \in [Item -> Item \cup {NONE}] /\ after'[x] = s[p] /\ after'[s[p - 1]] = x
      /\ \A y \in Item : y # x /\ y # s[p - 1] => after'[y] = after[y]
  <2> s[p] \in Item /\ s[p - 1] \in Item /\ s[p - 1] # x
    BY <1>2, <1>3
  <2> QED BY PutTwo DEF ListType
<1>5. /\ before' \in [Item -> Item \cup {NONE}] /\ before'[x] = s[p - 1] /\ before'[s[p]] = x
      /\ \A y \in Item : y # x /\ y # s[p] => before'[y] = before[y]
  <2> s[p] \in Item /\ s[p - 1] \in Item /\ s[p] # x
    BY <1>2, <1>3
  <2> QED BY PutTwo DEF ListType
<1>6. /\ head' \in [Handler -> Item \cup {NONE}] /\ head' = head
      /\ tail' \in [Handler -> Item \cup {NONE}] /\ tail' = tail
  BY DEF ListType
<1>7. LinkedIn(n, s, p, x, head[h], tail[h], after, before, head'[h], tail'[h], after', before')
  <2>1. \A i \in 1 .. n : i # p - 1 => s[i] # s[p - 1]
    BY <1>1, <1>2
  <2>2. \A i \in 1 .. n : i # p => s[i] # s[p]
    BY <1>1, <1>2
  <2> QED BY <1>2, <1>3, <1>4, <1>5, <1>6, <2>1, <2>2 DEF LinkedIn
<1>8. \A y \in Item : y # x /\ owner[y] # h => after'[y] = after[y] /\ before'[y] = before[y]
  BY <1>1, <1>2, <1>4, <1>5
<1> QED BY <1>4, <1>5, <1>6, <1>7, <1>8, SizeGrown DEF NodeIn, n

\* The fields after the node at p of h was taken out.
NodeOut(h, s, p) ==
    /\ head' \in [Handler -> Item \cup {NONE}] /\ tail' \in [Handler -> Item \cup {NONE}]
    /\ size' \in [Handler -> Nat] /\ size'[h] = size[h] - 1
    /\ after' \in [Item -> Item \cup {NONE}] /\ before' \in [Item -> Item \cup {NONE}]
    /\ LinkedOut(size[h], s, p, head[h], tail[h], after, before,
                 head'[h], tail'[h], after', before')
    /\ \A g \in Handler : g # h => head'[g] = head[g] /\ tail'[g] = tail[g] /\ size'[g] = size[g]
    /\ \A y \in Item : owner[y] # h => after'[y] = after[y] /\ before'[y] = before[y]

\* The four cases of eaf_list_erase.
LEMMA ItemOut ==
    ASSUME ListType, NEW h \in Handler, NEW s, HasChain(h, s), NEW p \in 1 .. size[h],
           UnlinkItem(h, s[p])
    PROVE  NodeOut(h, s, p)
<1> DEFINE n == size[h]
           x == s[p]
<1>1. /\ n \in Nat /\ n > 0 /\ s \in [1 .. n -> Item] /\ p \in Int /\ p \in 1 .. n
      /\ head[h] = s[1] /\ tail[h] = s[n] /\ 1 \in 1 .. n /\ n \in 1 .. n
      /\ \A i \in 1 .. n : s[i] \in Item /\ owner[s[i]] = h
      /\ \A i, j \in 1 .. n : s[i] = s[j] => i = j
      /\ \A i \in 1 .. n - 1 : after[s[i]] = s[i + 1] /\ before[s[i + 1]] = s[i]
  <2> Facts(h, s)
    BY ChainFacts
  <2> n \in Nat /\ n > 0 /\ p \in Int /\ p \in 1 .. n /\ 1 \in 1 .. n /\ n \in 1 .. n
    BY DEF Facts
  <2> QED BY DEF Facts
<1>2. /\ size' \in [Handler -> Nat] /\ size'[h] = n - 1
      /\ \A g \in Handler : g # h => size'[g] = size[g]
  <2> size' = [size EXCEPT ![h] = @ - 1]
    BY DEF UnlinkItem
  <2> n - 1 \in Nat
    BY <1>1
  <2> QED BY DEF ListType
<1>3. (head[h] = x <=> p = 1) /\ (tail[h] = x <=> p = n)
  BY <1>1
<1>4. p # 1 => /\ p - 1 \in 1 .. n /\ before[x] = s[p - 1] /\ s[p - 1] \in Item
               /\ owner[s[p - 1]] = h
               /\ \A i \in 1 .. n : i # p - 1 => s[i] # s[p - 1]
  <2> SUFFICES ASSUME p # 1 PROVE /\ p - 1 \in 1 .. n /\ before[x] = s[p - 1]
                                  /\ s[p - 1] \in Item /\ owner[s[p - 1]] = h
                                  /\ \A i \in 1 .. n : i # p - 1 => s[i] # s[p - 1]
    OBVIOUS
  <2> p - 1 \in 1 .. n - 1 /\ p - 1 \in 1 .. n /\ (p - 1) + 1 = p
    BY <1>1
  <2> QED BY <1>1
<1>5. p # n => /\ p + 1 \in 1 .. n /\ after[x] = s[p + 1] /\ s[p + 1] \in Item
               /\ owner[s[p + 1]] = h
               /\ \A i \in 1 .. n : i # p + 1 => s[i] # s[p + 1]
  <2> SUFFICES ASSUME p # n PROVE /\ p + 1 \in 1 .. n /\ after[x] = s[p + 1]
                                  /\ s[p + 1] \in Item /\ owner[s[p + 1]] = h
                                  /\ \A i \in 1 .. n : i # p + 1 => s[i] # s[p + 1]
    OBVIOUS
  <2> p \in 1 .. n - 1 /\ p + 1 \in 1 .. n
    BY <1>1
  <2> QED BY <1>1
<1> HIDE DEF n
<1>6. CASE p = 1 /\ p = n
  <2>1. /\ head' = [head EXCEPT ![h] = NONE] /\ tail' = [tail EXCEPT ![h] = NONE]
        /\ after' = after /\ before' = before
    BY <1>3, <1>6 DEF UnlinkItem
  <2>2. /\ head' \in [Handler -> Item \cup {NONE}] /\ head'[h] = NONE
        /\ \A g \in Handler : g # h => head'[g] = head[g]
    BY <2>1, PutOne DEF ListType
  <2>3. /\ tail' \in [Handler -> Item \cup {NONE}] /\ tail'[h] = NONE
        /\ \A g \in Handler : g # h => tail'[g] = tail[g]
    BY <2>1, PutOne DEF ListType
  <2>4. LinkedOut(n, s, p, head[h], tail[h], after, before, head'[h], tail'[h], after', before')
    BY <1>6, <2>1, <2>2, <2>3 DEF LinkedOut
  <2>5. after' \in [Item -> Item \cup {NONE}] /\ before' \in [Item -> Item \cup {NONE}]
    BY <2>1 DEF ListType
  <2> QED BY <1>2, <2>1, <2>2, <2>3, <2>4, <2>5 DEF NodeOut, n
<1>7. CASE p = 1 /\ p # n
  <2>1. /\ before' = [before EXCEPT ![s[p + 1]] = NONE] /\ head' = [head EXCEPT ![h] = s[p + 1]]
        /\ tail' = tail /\ after' = after
    BY <1>3, <1>5, <1>7 DEF UnlinkItem
  <2>2. /\ head' \in [Handler -> Item \cup {NONE}] /\ head'[h] = s[p + 1]
        /\ \A g \in Handler : g # h => head'[g] = head[g]
    BY <1>5, <1>7, <2>1, PutOne DEF ListType
  <2>3. /\ before' \in [Item -> Item \cup {NONE}] /\ before'[s[p + 1]] = NONE
        /\ \A y \in Item : y # s[p + 1] => before'[y] = before[y]
    BY <1>5, <1>7, <2>1, PutOne DEF ListType
  <2>4. LinkedOut(n, s, p, head[h], tail[h], after, before, head'[h], tail'[h], after', before')
    BY <1>1, <1>5, <1>7, <2>1, <2>2, <2>3 DEF LinkedOut
  <2>5. after' \in [Item -> Item \cup {NONE}] /\ tail' \in [Handler -> Item \cup {NONE}]
    BY <2>1 DEF ListType
  <2>6. \A y \in Item : owner[y] # h => y # s[p + 1]
    BY <1>5, <1>7
  <2> QED BY <1>2, <2>1, <2>2, <2>3, <2>4, <2>5, <2>6 DEF NodeOut, n
<1>8. CASE p # 1 /\ p = n
  <2>1. /\ after' = [after EXCEPT ![s[p - 1]] = NONE] /\ tail' = [tail EXCEPT ![h] = s[p - 1]]
        /\ head' = head /\ before' = before
    BY <1>3, <1>4, <1>8 DEF UnlinkItem
  <2>2. /\ tail' \in [Handler -> Item \cup {NONE}] /\ tail'[h] = s[p - 1]
        /\ \A g \in Handler : g # h => tail'[g] = tail[g]
    BY <1>4, <1>8, <2>1, PutOne DEF ListType
  <2>3. /\ after' \in [Item -> Item \cup {NONE}] /\ after'[s[p - 1]] = NONE
        /\ \A y \in Item : y # s[p - 1] => after'[y] = after[y]
    BY <1>4, <1>8, <2>1, PutOne DEF ListType
  <2>4. LinkedOut(n, s, p, head[h], tail[h], after, before, head'[h], tail'[h], after', before')
    BY <1>1, <1>4, <1>8, <2>1, <2>2, <2>3 DEF LinkedOut
  <2>5. before' \in [Item -> Item \cup {NONE}] /\ head' \in [Handler -> Item \cup {NONE}]
    BY <2>1 DEF ListType
  <2>6. \A y \in Item : owner[y] # h => y # s[p - 1]
    BY <1>4, <1>8
  <2> QED BY <1>2, <2>1, <2>2, <2>3, <2>4, <2>5, <2>6 DEF NodeOut, n
<1>9. CASE p # 1 /\ p # n
  <2>1. /\ after' = [after EXCEPT ![s[p - 1]] = s[p + 1]]
        /\ before' = [before EXCEPT ![s[p + 1]] = s[p - 1]]
        /\ head' = head /\ tail' = tail
    BY <1>3, <1>4, <1>5, <1>9 DEF UnlinkItem
  <2>2. /\ after' \in [Item -> Item \cup {NONE}] /\ after'[s[p - 1]] = s[p + 1]
        /\ \A y \in Item : y # s[p - 1] => after'[y] = after[y]
    BY <1>4, <1>5, <1>9, <2>1, PutOne DEF ListType
  <2>3. /\ before' \in [Item -> Item \cup {NONE}] /\ before'[s[p + 1]] = s[p - 1]
        /\ \A y \in Item : y # s[p + 1] => before'[y] = before[y]
    BY <1>4, <1>5, <1>9, <2>1, PutOne DEF ListType
  <2>4. LinkedOut(n, s, p, head[h], tail[h], after, before, head'[h], tail'[h], after', before')
    BY <1>1, <1>4, <1>5, <1>9, <2>1, <2>2, <2>3 DEF LinkedOut
  <2>5. head' \in [Handler -> Item \cup {NONE}] /\ tail' \in [Handler -> Item \cup {NONE}]
    BY <2>1 DEF ListType
  <2>6. \A y \in Item : owner[y] # h => y # s[p - 1] /\ y # s[p + 1]
    BY <1>4, <1>5, <1>9
  <2> QED BY <1>2, <2>1, <2>2, <2>3, <2>4, <2>5, <2>6 DEF NodeOut, n
<1> QED BY <1>6, <1>7, <1>8, <1>9

-----------------------------------------------------------------------------
\* The operations

\* A step that changes the chain s of h to t, and no other chain.
Turned(h, s, t) ==
    /\ ListInv'
    /\ HasChain(h, t)'
    /\ \A g \in Handler : \A r : g # h /\ HasChain(g, r) => HasChain(g, r)'

\* Another list, whose nodes and ends are those it had.
LEMMA OthersStay ==
    ASSUME ListType, NEW h \in Handler, NEW x \in Item, NEW g \in Handler, g # h, NEW r,
           HasChain(g, r), owner[x] = h \/ owner[x] = NONE,
           owner'[x] = h \/ owner'[x] = NONE,
           \A y \in Item : y # x => owner'[y] = owner[y],
           head'[g] = head[g], tail'[g] = tail[g], size'[g] = size[g],
           \A y \in Item : y # x /\ owner[y] # h => after'[y] = after[y] /\ before'[y] = before[y]
    PROVE  HasChain(g, r)'
<1>1. g # NONE
  BY ListAssumption
<1>2. \A y \in Item : owner'[y] = g <=> owner[y] = g
  BY <1>1
<1>3. {y \in Item : owner'[y] = g} = Owned(g)
  BY <1>2 DEF Owned
<1>4. \A y \in Item : y \in Owned(g) => after'[y] = after[y] /\ before'[y] = before[y]
  BY <1>1 DEF Owned
<1>5. Chain(size[g], head[g], tail[g], after, before, Owned(g), r)
  BY DEF HasChain
<1> HIDE DEF Owned
<1>6. Chain(size[g], head[g], tail[g], after', before', Owned(g), r)
  BY <1>4, <1>5, ChainStays
<1>7. Owned(g)' = Owned(g)
  BY <1>3 DEF Owned
<1> QED BY <1>6, <1>7 DEF HasChain

\* Every operation that puts a node into a list.
LEMMA GrowStep ==
    ASSUME ListInv, NEW h \in Handler, NEW x \in Item, NEW s, NEW t, NEW p \in 1 .. size[h] + 1,
           HasChain(h, s), Give(h, x), NodeIn(h, s, p, x), PutIn(size[h], s, p, x, t)
    PROVE  Turned(h, s, t)
<1>1. /\ owner[x] = NONE /\ owner' = [owner EXCEPT ![x] = h] /\ h # NONE
  BY ListAssumption DEF Give
<1>2. ListType
  BY DEF ListInv
<1>3. /\ owner' \in [Item -> Handler \cup {NONE}] /\ owner'[x] = h
      /\ \A y \in Item : y # x => owner'[y] = owner[y]
  BY <1>1, <1>2, PutOne DEF ListType
<1>4. ListType'
  BY <1>3 DEF ListType, NodeIn
<1>5. HasChain(h, t)'
  <2>1. Chain(size[h], head[h], tail[h], after, before, Owned(h), s)
    BY DEF HasChain
  <2>2. x \notin Owned(h) /\ \A y \in Item : y \in Owned(h)' <=> y \in Owned(h) \/ y = x
    BY <1>1, <1>3 DEF Owned
  <2>3. LinkedIn(size[h], s, p, x, head[h], tail[h], after, before,
                 head'[h], tail'[h], after', before')
    BY DEF NodeIn
  <2>4. Chain(size[h] + 1, head'[h], tail'[h], after', before', Owned(h)', t)
    BY <2>1, <2>2, <2>3, ChainGrows
  <2> QED BY <2>4 DEF HasChain, NodeIn
<1>6. ASSUME NEW g \in Handler, g # h, NEW r, HasChain(g, r) PROVE HasChain(g, r)'
  <2>1. head'[g] = head[g] /\ tail'[g] = tail[g] /\ size'[g] = size[g]
    BY <1>6 DEF NodeIn
  <2>2. \A y \in Item : y # x /\ owner[y] # h => after'[y] = after[y] /\ before'[y] = before[y]
    BY DEF NodeIn
  <2> QED BY <1>1, <1>2, <1>3, <1>6, <2>1, <2>2, OthersStay
<1>7. \A g \in Handler : \E r : HasChain(g, r)'
  <2> TAKE g \in Handler
  <2>1. PICK r : HasChain(g, r)
    BY DEF ListInv
  <2>2. CASE g = h
    BY <1>5, <2>2
  <2>3. CASE g # h
    BY <1>6, <2>1, <2>3
  <2> QED BY <2>2, <2>3
<1>8. ListInv'
  BY <1>4, <1>7 DEF ListInv
<1> QED BY <1>5, <1>6, <1>8 DEF Turned

\* Every operation that takes a node out of a list.
LEMMA ShrinkStep ==
    ASSUME ListInv, NEW h \in Handler, NEW s, NEW t, NEW p \in 1 .. size[h],
           HasChain(h, s), owner' = [owner EXCEPT ![s[p]] = NONE], NodeOut(h, s, p),
           Erased(size[h], s, p, t)
    PROVE  Turned(h, s, t)
<1>1. ListType
  BY DEF ListInv
<1>2. PICK x : x = s[p]
  OBVIOUS
<1>3. x \in Item /\ owner[x] = h /\ h # NONE
  BY <1>1, <1>2, ChainFacts, ListAssumption DEF Facts
<1>4. /\ owner' \in [Item -> Handler \cup {NONE}] /\ owner'[x] = NONE
      /\ \A y \in Item : y # x => owner'[y] = owner[y]
  BY <1>1, <1>2, <1>3, PutOne DEF ListType
<1>5. ListType'
  BY <1>4 DEF ListType, NodeOut
<1>6. HasChain(h, t)'
  <2>1. Chain(size[h], head[h], tail[h], after, before, Owned(h), s)
    BY DEF HasChain
  <2>2. \A y \in Item : y \in Owned(h)' <=> y \in Owned(h) /\ y # s[p]
    BY <1>2, <1>3, <1>4 DEF Owned
  <2>3. LinkedOut(size[h], s, p, head[h], tail[h], after, before,
                  head'[h], tail'[h], after', before')
    BY DEF NodeOut
  <2>4. Chain(size[h] - 1, head'[h], tail'[h], after', before', Owned(h)', t)
    BY <2>1, <2>2, <2>3, ChainShrinks
  <2> QED BY <2>4 DEF HasChain, NodeOut
<1>7. ASSUME NEW g \in Handler, g # h, NEW r, HasChain(g, r) PROVE HasChain(g, r)'
  <2>1. head'[g] = head[g] /\ tail'[g] = tail[g] /\ size'[g] = size[g]
    BY <1>7 DEF NodeOut
  <2>2. \A y \in Item : y # x /\ owner[y] # h => after'[y] = after[y] /\ before'[y] = before[y]
    BY DEF NodeOut
  <2> QED BY <1>1, <1>3, <1>4, <1>7, <2>1, <2>2, OthersStay
<1>8. \A g \in Handler : \E r : HasChain(g, r)'
  <2> TAKE g \in Handler
  <2>1. PICK r : HasChain(g, r)
    BY DEF ListInv
  <2>2. CASE g = h
    BY <1>6, <2>2
  <2>3. CASE g # h
    BY <1>7, <2>1, <2>3
  <2> QED BY <2>2, <2>3
<1>9. ListInv'
  BY <1>5, <1>8 DEF ListInv
<1> QED BY <1>6, <1>7, <1>9 DEF Turned

\* eaf_list_push_back.
LEMMA PushBackTurns ==
    ASSUME ListInv, NEW h \in Handler, NEW x \in Item, NEW s, HasChain(h, s), PushBack(h, x)
    PROVE  Turned(h, s, Append(s, x))
<1>1. ListType /\ Give(h, x) /\ LinkBack(h, x) /\ owner[x] = NONE
  BY DEF ListInv, PushBack, Give
<1>2. size[h] \in Nat /\ s \in [1 .. size[h] -> Item] /\ size[h] + 1 \in 1 .. size[h] + 1
  BY <1>1, ChainFacts DEF Facts
<1>3. NodeIn(h, s, size[h] + 1, x)
  BY <1>1, BackIn
<1>4. PutIn(size[h], s, size[h] + 1, x, Append(s, x))
  BY <1>2, AppendInserts
<1> QED BY <1>1, <1>2, <1>3, <1>4, GrowStep

\* eaf_list_push_front.
LEMMA PushFrontTurns ==
    ASSUME ListInv, NEW h \in Handler, NEW x \in Item, NEW s, HasChain(h, s), PushFront(h, x)
    PROVE  Turned(h, s, <<x>> \o s)
<1>1. ListType /\ Give(h, x) /\ LinkFront(h, x) /\ owner[x] = NONE
  BY DEF ListInv, PushFront, Give
<1>2. size[h] \in Nat /\ s \in [1 .. size[h] -> Item] /\ 1 \in 1 .. size[h] + 1
  BY <1>1, ChainFacts DEF Facts
<1>3. NodeIn(h, s, 1, x)
  BY <1>1, FrontIn
<1>4. PutIn(size[h], s, 1, x, <<x>> \o s)
  BY <1>2, ConsInserts
<1> QED BY <1>1, <1>2, <1>3, <1>4, GrowStep

\* The place of a node in the chain of its list.
LEMMA PlaceIs ==
    ASSUME ListType, NEW h \in Handler, NEW s, HasChain(h, s), NEW pos \in Item, owner[pos] = h
    PROVE  PlaceOf(s, pos) \in 1 .. size[h] /\ s[PlaceOf(s, pos)] = pos
<1>1. size[h] \in Nat /\ s \in [1 .. size[h] -> Item] /\ \E i \in 1 .. size[h] : s[i] = pos
  BY ChainFacts DEF Facts
<1>2. Len(s) = size[h]
  BY <1>1
<1>3. \E i \in 1 .. Len(s) : s[i] = pos
  BY <1>1, <1>2
<1> QED BY <1>2, <1>3, Zenon DEF PlaceOf

\* eaf_list_insert_before.
LEMMA InsertBeforeTurns ==
    ASSUME ListInv, NEW h \in Handler, NEW x \in Item, NEW pos \in Item, NEW s,
           HasChain(h, s), InsertBefore(h, pos, x)
    PROVE  Turned(h, s, InsertAt(s, PlaceOf(s, pos), x))
<1>1. ListType /\ Give(h, x) /\ owner[x] = NONE /\ owner[pos] = h
  BY DEF ListInv, InsertBefore, Give
<1>2. PICK p : p = PlaceOf(s, pos)
  OBVIOUS
<1>3. p \in 1 .. size[h] /\ s[p] = pos
  BY <1>1, <1>2, PlaceIs
<1>4. Facts(h, s)
  BY <1>1, ChainFacts
<1>5. /\ size[h] \in Nat /\ size[h] > 0 /\ s \in [1 .. size[h] -> Item] /\ 1 \in 1 .. size[h]
      /\ p \in 1 .. size[h] + 1
  BY <1>3, <1>4 DEF Facts
<1>6. NodeIn(h, s, p, x)
  <2>1. CASE p = 1
    <3>1. head[h] = pos
      BY <2>1, <1>3, <1>4, <1>5 DEF Facts
    <3>2. LinkFront(h, x)
      BY <3>1 DEF InsertBefore
    <3> QED BY <2>1, <3>2, <1>1, FrontIn
  <2>2. CASE p # 1
    <3>1. head[h] # pos
      BY <2>2, <1>3, <1>4, <1>5 DEF Facts
    <3>2. p \in 2 .. size[h] /\ p - 1 \in 1 .. size[h] - 1 /\ (p - 1) + 1 = p
      BY <2>2, <1>3, <1>5
    <3>3. before[pos] = s[p - 1]
      BY <3>2, <1>3, <1>4 DEF Facts
    <3>4. /\ after' = [after EXCEPT ![x] = s[p], ![s[p - 1]] = x]
          /\ before' = [before EXCEPT ![x] = s[p - 1], ![s[p]] = x]
          /\ size' = [size EXCEPT ![h] = @ + 1] /\ UNCHANGED <<head, tail>>
      BY <3>1, <3>3, <1>3 DEF InsertBefore
    <3> QED BY <3>2, <3>4, <1>1, BetweenIn
  <2> QED BY <2>1, <2>2
<1>7. PutIn(size[h], s, p, x, InsertAt(s, p, x))
  BY <1>5, InsertAtInserts
<1>8. Turned(h, s, InsertAt(s, p, x))
  BY <1>1, <1>5, <1>6, <1>7, GrowStep
<1> QED BY <1>2, <1>8

\* eaf_list_insert_after.
LEMMA InsertAfterTurns ==
    ASSUME ListInv, NEW h \in Handler, NEW x \in Item, NEW pos \in Item, NEW s,
           HasChain(h, s), InsertAfter(h, pos, x)
    PROVE  Turned(h, s, InsertAt(s, PlaceOf(s, pos) + 1, x))
<1>1. ListType /\ Give(h, x) /\ owner[x] = NONE /\ owner[pos] = h
  BY DEF ListInv, InsertAfter, Give
<1>2. PICK p : p = PlaceOf(s, pos)
  OBVIOUS
<1>3. p \in 1 .. size[h] /\ s[p] = pos
  BY <1>1, <1>2, PlaceIs
<1>4. Facts(h, s)
  BY <1>1, ChainFacts
<1>5. /\ size[h] \in Nat /\ size[h] > 0 /\ s \in [1 .. size[h] -> Item]
      /\ size[h] \in 1 .. size[h] /\ p + 1 \in 1 .. size[h] + 1
  BY <1>3, <1>4 DEF Facts
<1>6. NodeIn(h, s, p + 1, x)
  <2>1. CASE p = size[h]
    <3>1. tail[h] = pos
      BY <2>1, <1>3, <1>4, <1>5 DEF Facts
    <3>2. LinkBack(h, x)
      BY <3>1 DEF InsertAfter
    <3> QED BY <2>1, <3>2, <1>1, BackIn
  <2>2. CASE p # size[h]
    <3>1. tail[h] # pos
      BY <2>2, <1>3, <1>4, <1>5 DEF Facts
    <3>2. p + 1 \in 2 .. size[h] /\ p \in 1 .. size[h] - 1 /\ (p + 1) - 1 = p
      BY <2>2, <1>3, <1>5
    <3>3. after[pos] = s[p + 1]
      BY <3>2, <1>3, <1>4 DEF Facts
    <3>4. /\ after' = [after EXCEPT ![x] = s[p + 1], ![s[(p + 1) - 1]] = x]
          /\ before' = [before EXCEPT ![x] = s[(p + 1) - 1], ![s[p + 1]] = x]
          /\ size' = [size EXCEPT ![h] = @ + 1] /\ UNCHANGED <<head, tail>>
      BY <3>1, <3>2, <3>3, <1>3 DEF InsertAfter
    <3> QED BY <3>2, <3>4, <1>1, BetweenIn
  <2> QED BY <2>1, <2>2
<1>7. PutIn(size[h], s, p + 1, x, InsertAt(s, p + 1, x))
  BY <1>5, InsertAtInserts
<1>8. Turned(h, s, InsertAt(s, p + 1, x))
  BY <1>1, <1>5, <1>6, <1>7, GrowStep
<1> QED BY <1>2, <1>8

\* eaf_list_erase.
LEMMA EraseTurns ==
    ASSUME ListInv, NEW h \in Handler, NEW x \in Item, NEW s, HasChain(h, s), EraseItem(h, x)
    PROVE  Turned(h, s, RemoveAt(s, PlaceOf(s, x)))
<1>1. /\ ListType /\ owner[x] = h /\ owner' = [owner EXCEPT ![x] = NONE]
      /\ UnlinkItem(h, x)
  BY DEF ListInv, EraseItem
<1>2. PICK p : p = PlaceOf(s, x)
  OBVIOUS
<1>3. p \in 1 .. size[h] /\ s[p] = x
  BY <1>1, <1>2, PlaceIs
<1>4. size[h] \in Nat /\ s \in [1 .. size[h] -> Item]
  BY <1>1, ChainFacts DEF Facts
<1>5. NodeOut(h, s, p)
  BY <1>1, <1>3, ItemOut
<1>6. Erased(size[h], s, p, RemoveAt(s, p))
  BY <1>3, <1>4, RemoveAtErases
<1>7. Turned(h, s, RemoveAt(s, p))
  BY <1>1, <1>3, <1>5, <1>6, ShrinkStep
<1> QED BY <1>2, <1>7

\* Every step is one of these, of a node that enters or leaves the list.
Shifts(h, x) ==
    /\ \E s, t : HasChain(h, s) /\ Turned(h, s, t)
    /\ h \in {owner[x], owner'[x]} /\ owner[x] # owner'[x]

LEMMA NextTurns ==
    ASSUME ListInv, ListNext
    PROVE  \E h \in Handler, x \in Item : Shifts(h, x)
<1>1. ListType /\ owner \in [Item -> Handler \cup {NONE}]
  BY DEF ListInv, ListType
<1>2. ASSUME NEW h \in Handler, NEW x \in Item, Give(h, x)
      PROVE  h \in {owner[x], owner'[x]} /\ owner[x] # owner'[x]
  BY <1>1, <1>2, ListAssumption DEF Give
<1>3. ASSUME NEW h \in Handler, NEW x \in Item, EraseItem(h, x) PROVE Shifts(h, x)
  <2>1. h \in {owner[x], owner'[x]} /\ owner[x] # owner'[x]
    BY <1>1, <1>3, ListAssumption DEF EraseItem
  <2>2. PICK s : HasChain(h, s)
    BY DEF ListInv
  <2> QED BY <2>1, <2>2, <1>3, EraseTurns DEF Shifts
<1>4. PICK h \in Handler :
         \/ PopFront(h) \/ PopBack(h)
         \/ \E x \in Item :
               \/ PushBack(h, x) \/ PushFront(h, x) \/ EraseItem(h, x)
               \/ \E pos \in Item : InsertBefore(h, pos, x) \/ InsertAfter(h, pos, x)
  BY DEF ListNext
<1>5. PICK s : HasChain(h, s)
  BY DEF ListInv
<1>6. CASE PopFront(h)
  <2> head[h] \in Item /\ EraseItem(h, head[h])
    BY <1>1, <1>6 DEF PopFront, ListType
  <2> QED BY <1>3
<1>7. CASE PopBack(h)
  <2> tail[h] \in Item /\ EraseItem(h, tail[h])
    BY <1>1, <1>7 DEF PopBack, ListType
  <2> QED BY <1>3
<1>8. ASSUME NEW x \in Item, PushBack(h, x) PROVE Shifts(h, x)
  BY <1>2, <1>5, <1>8, PushBackTurns DEF Shifts, PushBack
<1>9. ASSUME NEW x \in Item, PushFront(h, x) PROVE Shifts(h, x)
  BY <1>2, <1>5, <1>9, PushFrontTurns DEF Shifts, PushFront
<1>10. ASSUME NEW x \in Item, NEW pos \in Item, InsertBefore(h, pos, x) PROVE Shifts(h, x)
  BY <1>2, <1>5, <1>10, InsertBeforeTurns DEF Shifts, InsertBefore
<1>11. ASSUME NEW x \in Item, NEW pos \in Item, InsertAfter(h, pos, x) PROVE Shifts(h, x)
  BY <1>2, <1>5, <1>11, InsertAfterTurns DEF Shifts, InsertAfter
<1> QED BY <1>3, <1>4, <1>6, <1>7, <1>8, <1>9, <1>10, <1>11

LEMMA ListInitInv == ListInit => ListInv
<1> SUFFICES ASSUME ListInit PROVE ListInv
  OBVIOUS
<1>1. ListType
  BY DEF ListInit, ListType
<1>2. ASSUME NEW h \in Handler PROVE HasChain(h, <<>>)
  <2>1. size[h] = 0 /\ head[h] = NONE /\ tail[h] = NONE
    BY DEF ListInit
  <2>2. \A x \in Item : x \notin Owned(h)
    BY ListAssumption DEF ListInit, Owned
  <2>3. <<>> \in [1 .. 0 -> Item]
    OBVIOUS
  <2> QED BY <2>1, <2>2, <2>3 DEF HasChain, Chain
<1> QED BY <1>1, <1>2 DEF ListInv

LEMMA ListStepInv == ListInv /\ [ListNext]_listVars => ListInv'
<1>1. ASSUME ListInv, ListNext PROVE ListInv'
  BY <1>1, NextTurns DEF Shifts, Turned
<1>2. ASSUME ListInv, UNCHANGED listVars PROVE ListInv'
  <2>1. /\ size' = size /\ head' = head /\ tail' = tail /\ after' = after /\ before' = before
        /\ owner' = owner
    BY <1>2 DEF listVars
  <2>2. ListType'
    BY <1>2, <2>1 DEF ListInv, ListType
  <2>3. \A h \in Handler : \A s : HasChain(h, s) => HasChain(h, s)'
    BY <2>1 DEF HasChain, Owned
  <2> QED BY <1>2, <2>2, <2>3 DEF ListInv
<1> QED BY <1>1, <1>2

\* What a walk from the head meets is the chain, before and after a step.
LEMMA ContentsIs ==
    ASSUME NEW h, NEW s
    PROVE  /\ HasChain(h, s) => Contents(h) = s
           /\ HasChain(h, s)' => Contents(h)' = s
<1>1. HasChain(h, s) => WalkOf(size[h], head[h], after) = s
  BY WalkForth, ListAssumption DEF HasChain
<1>2. HasChain(h, s)' => WalkOf(size'[h], head'[h], after') = s
  BY WalkForth, ListAssumption DEF HasChain
<1>3. Contents(h) = WalkOf(size[h], head[h], after)
  BY DEF Contents, Walk, WalkOf
<1>4. Contents(h)' = WalkOf(size'[h], head'[h], after')
  BY DEF Contents, Walk, WalkOf
<1> QED BY <1>1, <1>2, <1>3, <1>4

LEMMA InvIsChains == ListInv => ChainsSound
<1> SUFFICES ASSUME ListInv, NEW h \in Handler, NEW c, c = Contents(h)
             PROVE  /\ size[h] = Cardinality({x \in Item : owner[x] = h})
                    /\ ToSet(c) = {x \in Item : owner[x] = h}
                    /\ Reverse(c) = Walk(h, tail[h], before)
                    /\ c = <<>> => head[h] = NONE /\ tail[h] = NONE
                    /\ c # <<>> => after[tail[h]] = NONE /\ before[head[h]] = NONE
  BY Zenon DEF ChainsSound
<1>1. PICK s : HasChain(h, s)
  BY DEF ListInv
<1>2. c = s
  BY <1>1, ContentsIs
<1>3. Chain(size[h], head[h], tail[h], after, before, Owned(h), s)
  BY <1>1 DEF HasChain
<1>4. ToSet(s) = Owned(h) /\ Cardinality(Owned(h)) = size[h]
  <2> Owned(h) \subseteq Item
    BY DEF Owned
  <2> QED BY <1>3, ChainCounts
<1>5. Reverse(s) = Walk(h, tail[h], before)
  BY <1>3, WalkBack, WalkSized, ListAssumption
<1>6. size[h] \in Nat /\ s \in [1 .. size[h] -> Item]
  BY <1>3 DEF Chain
<1>7. s = <<>> => size[h] = 0
  <2> s = <<>> => Len(s) = 0
    OBVIOUS
  <2> Len(s) = size[h]
    BY <1>6
  <2> QED OBVIOUS
<1>8. s # <<>> => size[h] > 0
  <2> SUFFICES ASSUME size[h] = 0 PROVE s = <<>>
    BY <1>6
  <2> QED BY <1>6
<1>9. s = <<>> => head[h] = NONE /\ tail[h] = NONE
  BY <1>3, <1>7 DEF Chain
<1>10. s # <<>> => after[tail[h]] = NONE /\ before[head[h]] = NONE
  BY <1>3, <1>8 DEF Chain
<1> QED BY <1>2, <1>4, <1>5, <1>9, <1>10 DEF Owned

\* Each list is one chain of exactly the nodes that were put into it, in both directions:
\* no order of pushes, insertions, erases and pops on any number of lists loses a node,
\* closes a cycle or leaves a stale end.
THEOREM ChainsAreSound == ListSpec => []ChainsSound
  BY ListInitInv, ListStepInv, InvIsChains, PTL DEF ListSpec

\* What one step does to one list.
LEMMA StepIsExact ==
    ASSUME ListInv, ListNext, NEW h \in Handler, NEW x \in Item, NEW s, s = Contents(h),
           NEW t, t = Contents(h)'
    PROVE  /\ PushBack(h, x) => t = Append(s, x)
           /\ PushFront(h, x) => t = <<x>> \o s
           /\ \A pos \in Item :
                 /\ InsertBefore(h, pos, x) => t = InsertAt(s, PlaceOf(s, pos), x)
                 /\ InsertAfter(h, pos, x) => t = InsertAt(s, PlaceOf(s, pos) + 1, x)
           /\ EraseItem(h, x) => t = RemoveAt(s, PlaceOf(s, x))
           /\ owner[x] # h /\ owner[x]' # h /\ t # s =>
                 \E y \in Item : h \in {owner[y], owner[y]'} /\ owner[y] # owner[y]'
<1>1. HasChain(h, s)
  <2>1. PICK r : HasChain(h, r)
    BY DEF ListInv
  <2> QED BY <2>1, ContentsIs
<1>2. ASSUME NEW r, Turned(h, s, r) PROVE t = r
  BY <1>2, ContentsIs DEF Turned
<1>3. ASSUME NEW g \in Handler, g # h, NEW r, NEW u, Turned(g, r, u) PROVE t = s
  BY <1>1, <1>3, ContentsIs DEF Turned
<1>4. PushBack(h, x) => t = Append(s, x)
  BY <1>1, <1>2, PushBackTurns
<1>5. PushFront(h, x) => t = <<x>> \o s
  BY <1>1, <1>2, PushFrontTurns
<1>6. ASSUME NEW pos \in Item
      PROVE  /\ InsertBefore(h, pos, x) => t = InsertAt(s, PlaceOf(s, pos), x)
             /\ InsertAfter(h, pos, x) => t = InsertAt(s, PlaceOf(s, pos) + 1, x)
  BY <1>1, <1>2, InsertBeforeTurns, InsertAfterTurns
<1>7. EraseItem(h, x) => t = RemoveAt(s, PlaceOf(s, x))
  BY <1>1, <1>2, EraseTurns
<1>8. ASSUME t # s
      PROVE  \E y \in Item : h \in {owner[y], owner'[y]} /\ owner[y] # owner'[y]
  <2>1. PICK g \in Handler, y \in Item : Shifts(g, y)
    BY NextTurns
  <2>2. g = h
    BY <2>1, <1>3, <1>8 DEF Shifts
  <2> QED BY <2>1, <2>2 DEF Shifts
<1> QED BY <1>4, <1>5, <1>6, <1>7, <1>8

\* Each operation of the lists does to the sequence of its list what its name says, and
\* leaves every other list alone, whatever came before it.
THEOREM OperationsAreExact == ListSpec => OperationsExact
<1>1. ASSUME ListInv, ListNext, NEW h \in Handler, NEW x \in Item
      PROVE  LET s == Contents(h)
                 t == Contents(h)'
             IN  /\ PushBack(h, x) => t = Append(s, x)
                 /\ PushFront(h, x) => t = <<x>> \o s
                 /\ \A pos \in Item :
                       /\ InsertBefore(h, pos, x) => t = InsertAt(s, PlaceOf(s, pos), x)
                       /\ InsertAfter(h, pos, x) => t = InsertAt(s, PlaceOf(s, pos) + 1, x)
                 /\ EraseItem(h, x) => t = RemoveAt(s, PlaceOf(s, x))
                 /\ owner[x] # h /\ owner[x]' # h /\ t # s =>
                       \E y \in Item : h \in {owner[y], owner[y]'} /\ owner[y] # owner[y]'
  BY <1>1, StepIsExact, ZenonT(60)
<1>2. ListInv /\ [ListNext]_listVars =>
        [\A h \in Handler, x \in Item :
          LET s == Contents(h)
              t == Contents(h)'
          IN  /\ PushBack(h, x) => t = Append(s, x)
              /\ PushFront(h, x) => t = <<x>> \o s
              /\ \A pos \in Item :
                    /\ InsertBefore(h, pos, x) => t = InsertAt(s, PlaceOf(s, pos), x)
                    /\ InsertAfter(h, pos, x) => t = InsertAt(s, PlaceOf(s, pos) + 1, x)
              /\ EraseItem(h, x) => t = RemoveAt(s, PlaceOf(s, x))
              /\ owner[x] # h /\ owner[x]' # h /\ t # s =>
                    \E y \in Item : h \in {owner[y], owner[y]'} /\ owner[y] # owner[y]'
        ]_listVars
  BY <1>1
<1> QED BY <1>2, ListInitInv, ListStepInv, PTL DEF ListSpec, OperationsExact

-----------------------------------------------------------------------------
(* The clock arithmetic of time.c. *)

\* The division of the code's loops: quotient and remainder.
LEMMA Division ==
    ASSUME NEW n \in Nat, NEW d \in Nat \ {0}
    PROVE  /\ n \div d \in Nat /\ n % d \in 0 .. d - 1
           /\ n = (n \div d) * d + (n % d)
  BY SMT

\* A field that is increased by less than it can hold wraps at most once, and the wrap
\* is told by a smaller value.
LEMMA WrapOnce ==
    ASSUME NEW s \in Nat \ {0}, NEW a \in 0 .. s - 1, NEW b \in 0 .. s - 1
    PROVE  \E w \in {0, 1} : /\ (a + b) % s \in 0 .. s - 1
                             /\ a + b = ((a + b) % s) + w * s
                             /\ (a + b) % s < a <=> w = 1
<1>1. CASE a + b < s
  <2>1. (a + b) % s = a + b
    BY <1>1
  <2> WITNESS 0 \in {0, 1}
  <2> QED BY <1>1, <2>1
<1>2. CASE a + b >= s
  <2>1. (a + b) % s = a + b - s
    BY <1>2
  <2> WITNESS 1 \in {0, 1}
  <2> QED BY <1>2, <2>1
<1> QED BY <1>1, <1>2

\* A remainder is unique.
LEMMA Remainder ==
    ASSUME NEW r \in Nat, NEW q \in Nat, NEW d \in Nat \ {0}, r < d
    PROVE  (r + q * d) % d = r
  BY SMT

\* Products by a positive number keep the order.
LEMMA Scaled ==
    ASSUME NEW a \in Int, NEW b \in Int, NEW n \in Nat \ {0}
    PROVE  /\ a <= b => a * n <= b * n
           /\ a < b => a * n + n <= b * n
           /\ (a + b) * n = a * n + b * n
           /\ (a - b) * n = a * n - b * n
           /\ a * n \in Int
  BY SMT

\* A number of nanoseconds below five seconds has at most four whole seconds.
LEMMA FourSeconds ==
    ASSUME NEW n \in Nat, NEW d \in Nat \ {0}, n < 5 * d
    PROVE  n \div d \in 0 .. 4
  BY SMT

\* A step that adds whole seconds and sets the nanoseconds keeps the number of
\* nanoseconds but for the wraps.
LEMMA Seconds ==
    ASSUME NEW a \in 0 .. SecRange - 1, NEW q \in 0 .. SecRange - 1, NEW n \in Int
    PROVE  \E w \in {0, 1} :
              /\ WrapSec(a + q) \in 0 .. SecRange - 1
              /\ (a + q) * NsecInSec + n = WrapSec(a + q) * NsecInSec + n + w * Full
              /\ WrapSec(a + q) < a <=> w = 1
<1>1. PICK w \in {0, 1} : /\ (a + q) % SecRange \in 0 .. SecRange - 1
                          /\ a + q = ((a + q) % SecRange) + w * SecRange
                          /\ (a + q) % SecRange < a <=> w = 1
  <2> SecRange \in Nat \ {0}
    BY ClockAssumption
  <2> QED BY WrapOnce
<1>2. /\ NsecInSec \in Nat /\ SecRange \in Nat
  BY ClockAssumption
<1> DEFINE s == (a + q) % SecRange
<1>3. (a + q) * NsecInSec = s * NsecInSec + w * (SecRange * NsecInSec)
  <2> s \in Int /\ a + q = s + w * SecRange
    BY <1>1
  <2> HIDE DEF s
  <2>1. CASE w = 0
    BY <2>1, <1>2
  <2>2. CASE w = 1
    BY <2>2, <1>2
  <2> QED BY <1>1, <2>1, <2>2
<1> WITNESS w \in {0, 1}
<1> QED
  <2>1. s * NsecInSec \in Int /\ w * (SecRange * NsecInSec) \in Int
    BY <1>1, <1>2
  <2> QED BY <1>1, <1>3, <2>1 DEF WrapSec, Full

\* The carry of whole seconds: the same number, normal, but for a wrap, which is told.
LEMMA CarryExact ==
    ASSUME NEW t \in Time
    PROVE  \E w \in {0, 1} : /\ Carry(t) \in Time /\ Normal(Carry(t))
                             /\ Nanos(t) = Nanos(Carry(t)) + w * Full
                             /\ Carry(t).sec < t.sec <=> w = 1
<1> DEFINE q == t.nsec \div NsecInSec
           r == t.nsec % NsecInSec
<1>1. t.sec \in 0 .. SecRange - 1 /\ t.nsec \in 0 .. NsecRange - 1
  BY DEF Time
<1>2. /\ NsecInSec \in Nat \ {0} /\ SecRange \in Nat /\ SecRange > 5
      /\ NsecRange \in Nat /\ NsecRange <= 5 * NsecInSec /\ NsecInSec <= NsecRange
  BY ClockAssumption
<1>3. /\ q \in 0 .. 4 /\ r \in 0 .. NsecInSec - 1
      /\ t.nsec = q * NsecInSec + r
  <2> t.nsec \in Nat /\ t.nsec < 5 * NsecInSec
    BY <1>1, <1>2
  <2> QED BY <1>2, Division, FourSeconds
<1> HIDE DEF q, r
<1>4. q \in 0 .. SecRange - 1 /\ r \in Int
  BY <1>2, <1>3
<1>5. PICK w \in {0, 1} :
         /\ WrapSec(t.sec + q) \in 0 .. SecRange - 1
         /\ (t.sec + q) * NsecInSec + r = WrapSec(t.sec + q) * NsecInSec + r + w * Full
         /\ WrapSec(t.sec + q) < t.sec <=> w = 1
  BY <1>1, <1>4, Seconds
<1>6. Carry(t).sec = WrapSec(t.sec + q) /\ Carry(t).nsec = r
  BY DEF Carry, q, r
<1>7. Carry(t) \in Time /\ Normal(Carry(t))
  <2> r \in 0 .. NsecRange - 1 /\ r < NsecInSec
    BY <1>2, <1>3
  <2> Carry(t) = [sec |-> WrapSec(t.sec + q), nsec |-> r]
    BY DEF Carry, q, r
  <2> QED BY <1>5 DEF Time, Normal
<1>8. Nanos(t) = (t.sec + q) * NsecInSec + r
  BY <1>1, <1>2, <1>3 DEF Nanos
<1>9. Nanos(t) = Nanos(Carry(t)) + w * Full
  BY <1>5, <1>6, <1>8 DEF Nanos
<1> QED BY <1>5, <1>6, <1>7, <1>9

\* The addition of the seconds.
LEMMA AddSecExact ==
    ASSUME NEW t \in Time, NEW d \in Time
    PROVE  \E w \in {0, 1} : /\ AddSec(t, d) \in Time /\ AddSec(t, d).nsec = t.nsec
                             /\ Nanos(t) + d.sec * NsecInSec = Nanos(AddSec(t, d)) + w * Full
                             /\ Wrapped(t, AddSec(t, d)) = w
<1>1. /\ t.sec \in 0 .. SecRange - 1 /\ t.nsec \in 0 .. NsecRange - 1
      /\ d.sec \in 0 .. SecRange - 1
  BY DEF Time
<1>2. /\ NsecInSec \in Nat \ {0} /\ SecRange \in Nat /\ NsecRange \in Nat
  BY ClockAssumption
<1>3. PICK w \in {0, 1} :
         /\ WrapSec(t.sec + d.sec) \in 0 .. SecRange - 1
         /\ (t.sec + d.sec) * NsecInSec + t.nsec
              = WrapSec(t.sec + d.sec) * NsecInSec + t.nsec + w * Full
         /\ WrapSec(t.sec + d.sec) < t.sec <=> w = 1
  <2> t.nsec \in Int
    BY <1>1, <1>2
  <2> QED BY <1>1, Seconds
<1>4. /\ AddSec(t, d).sec = WrapSec(t.sec + d.sec) /\ AddSec(t, d).nsec = t.nsec
      /\ AddSec(t, d) \in Time
  BY <1>3 DEF AddSec, Time
<1>5. Nanos(t) + d.sec * NsecInSec = (t.sec + d.sec) * NsecInSec + t.nsec
  BY <1>1, <1>2 DEF Nanos
<1>6. Nanos(t) + d.sec * NsecInSec = Nanos(AddSec(t, d)) + w * Full
  BY <1>3, <1>4, <1>5 DEF Nanos
<1>7. Wrapped(t, AddSec(t, d)) = w
  BY <1>3, <1>4 DEF Wrapped
<1> QED BY <1>4, <1>6, <1>7

\* The addition of the nanoseconds to a time whose seconds have been carried: their
\* sum has at most one second, which the 32 bits hold.
LEMMA AddNsecExact ==
    ASSUME NEW t \in Time, Normal(t), NEW d \in Time
    PROVE  \E w \in {0, 1} : /\ AddNsec(t, d) \in Time
                             /\ Nanos(t) + d.nsec = Nanos(AddNsec(t, d)) + w * Full
                             /\ Wrapped(t, AddNsec(t, d)) = w
<1> DEFINE q == d.nsec \div NsecInSec
           r == d.nsec % NsecInSec
<1>1. /\ t.sec \in 0 .. SecRange - 1 /\ t.nsec \in 0 .. NsecRange - 1
      /\ d.nsec \in 0 .. NsecRange - 1 /\ t.nsec < NsecInSec
  BY DEF Time, Normal
<1>2. /\ NsecInSec \in Nat \ {0} /\ SecRange \in Nat /\ SecRange > 5
      /\ NsecRange \in Nat /\ NsecRange <= 5 * NsecInSec /\ 4 * NsecInSec <= NsecRange
  BY ClockAssumption
<1>3. /\ q \in 0 .. 4 /\ r \in 0 .. NsecInSec - 1
      /\ d.nsec = q * NsecInSec + r
  <2> d.nsec \in Nat /\ d.nsec < 5 * NsecInSec
    BY <1>1, <1>2
  <2> QED BY <1>2, Division, FourSeconds
<1> HIDE DEF q, r
<1>4. q \in 0 .. SecRange - 1 /\ t.nsec + r \in 0 .. NsecRange - 1
  BY <1>1, <1>2, <1>3
<1>5. PICK w \in {0, 1} :
         /\ WrapSec(t.sec + q) \in 0 .. SecRange - 1
         /\ (t.sec + q) * NsecInSec + (t.nsec + r)
              = WrapSec(t.sec + q) * NsecInSec + (t.nsec + r) + w * Full
         /\ WrapSec(t.sec + q) < t.sec <=> w = 1
  <2> t.nsec + r \in Int
    BY <1>1, <1>2, <1>3
  <2> QED BY <1>1, <1>4, Seconds
<1>6. WrapNsec(t.nsec + r) = t.nsec + r
  BY <1>2, <1>4 DEF WrapNsec
<1>7. AddNsec(t, d) = [sec |-> WrapSec(t.sec + q), nsec |-> t.nsec + r]
  BY <1>6 DEF AddNsec, q, r
<1>8. AddNsec(t, d) \in Time
  BY <1>4, <1>5, <1>7 DEF Time
<1>9. Nanos(t) + d.nsec = (t.sec + q) * NsecInSec + (t.nsec + r)
  BY <1>1, <1>2, <1>3 DEF Nanos
<1>10. Nanos(t) + d.nsec = Nanos(AddNsec(t, d)) + w * Full
  BY <1>5, <1>7, <1>9 DEF Nanos
<1>11. Wrapped(t, AddNsec(t, d)) = w
  BY <1>5, <1>7 DEF Wrapped
<1> QED BY <1>8, <1>10, <1>11

\* A normal time as a number.
LEMMA NormalIsLess ==
    ASSUME NEW t \in Time, Normal(t)
    PROVE  Nanos(t) \in 0 .. Full - 1
<1>1. /\ t.sec \in 0 .. SecRange - 1 /\ t.nsec \in 0 .. NsecInSec - 1
      /\ NsecInSec \in Nat \ {0} /\ SecRange \in Nat
  BY ClockAssumption DEF Time, Normal
<1>2. /\ t.sec * NsecInSec \in Int /\ SecRange * NsecInSec \in Int
      /\ t.sec * NsecInSec + NsecInSec <= SecRange * NsecInSec
      /\ 0 * NsecInSec <= t.sec * NsecInSec
  BY <1>1, Scaled
<1> QED BY <1>1, <1>2 DEF Nanos, Full

\* What the wraps that were counted say about a sum.
LEMMA Wraps ==
    ASSUME NEW m \in Int, NEW f \in Nat \ {0}, m \in 0 .. f - 1, NEW w \in 0 .. 4
    PROVE  /\ m + w * f < f <=> w = 0
           /\ m + w * f \in f .. 2 * f - 1 <=> w = 1
           /\ (m + w * f) % f = m
<1>1. m + w * f < f <=> w = 0
  BY SMT
<1>2. m + w * f \in f .. 2 * f - 1 <=> w = 1
  BY SMT
<1>3. (m + w * f) % f = m
  BY Remainder
<1> QED BY <1>1, <1>2, <1>3

\* What an addition of dif to old has to do, with the time it leaves and its result.
Adds(old, dif, flag, new, ret) ==
    LET total == Nanos(old) + Nanos(dif)
    IN  /\ total < Full => ret = 0 /\ Nanos(new) = total
        /\ total >= Full /\ flag = "none" => ret = -1 /\ new = old
        /\ total >= Full /\ flag # "none" => Nanos(new) = total % Full
        /\ total \in Full .. 2 * Full - 1 /\ Fmt(old).ret = 0 => ret = -1
        /\ Normal(new) \/ ret = -1

LEMMA FullSize == Full \in Nat \ {0}
<1>1. NsecInSec \in Nat \ {0} /\ SecRange \in Nat \ {0}
  BY ClockAssumption
<1> QED BY <1>1 DEF Full

\* eaf_time_addclock_ext, eaf_time_addclock: the sum, at every carry of both fields.
LEMMA AddClockExact ==
    ASSUME NEW c \in Time, NEW d \in Time, NEW flag \in Flag
    PROVE  LET r == AddClockExt(c, c, d, flag)
           IN  r.time \in Time /\ Adds(c, d, flag, r.time, r.ret)
<1> DEFINE t0 == Carry(c)
           t1 == AddSec(t0, d)
           t2 == AddNsec(t1, d)
           t3 == Carry(t2)
<1>1. PICK w1 \in {0, 1} : /\ t0 \in Time /\ Normal(t0)
                           /\ Nanos(c) = Nanos(t0) + w1 * Full
                           /\ t0.sec < c.sec <=> w1 = 1
  BY CarryExact
<1>2. PICK w2 \in {0, 1} : /\ t1 \in Time /\ t1.nsec = t0.nsec
                           /\ Nanos(t0) + d.sec * NsecInSec = Nanos(t1) + w2 * Full
                           /\ Wrapped(t0, t1) = w2
  BY <1>1, AddSecExact
<1>3. Normal(t1)
  BY <1>1, <1>2 DEF Normal
<1>4. PICK w3 \in {0, 1} : /\ t2 \in Time
                           /\ Nanos(t1) + d.nsec = Nanos(t2) + w3 * Full
                           /\ Wrapped(t1, t2) = w3
  BY <1>2, <1>3, AddNsecExact
<1>5. PICK w4 \in {0, 1} : /\ t3 \in Time /\ Normal(t3)
                           /\ Nanos(t2) = Nanos(t3) + w4 * Full
                           /\ t3.sec < t2.sec <=> w4 = 1
  BY <1>4, CarryExact
<1>6. AddClockExt(c, c, d, flag)
        = IF flag = "none" /\ (-w1 # 0 \/ w2 # 0 \/ w3 # 0 \/ w4 # 0)
          THEN [time |-> c, ret |-> -1]
          ELSE [time |-> t3, ret |-> IF -w1 + w2 + w3 + w4 = 0 THEN 0 ELSE -1]
  <2>1. Fmt(c).time = t0
    BY DEF Fmt
  <2>2. Fmt(c).ret = -w1
    BY <1>1 DEF Fmt
  <2>3. Wrapped(t2, t3) = w4
    BY <1>5 DEF Wrapped
  <2> DEFINE o == <<-w1, w2, w3, w4>>
  <2>4. AddClockExt(c, c, d, flag)
          = IF flag = "none" /\ \E i \in 1 .. 4 : o[i] # 0
            THEN [time |-> c, ret |-> -1]
            ELSE [time |-> t3, ret |-> IF o[1] + o[2] + o[3] + o[4] = 0 THEN 0 ELSE -1]
    <3> HIDE DEF t3, o
    <3> QED BY <2>1, <2>2, <2>3, <1>2, <1>4, Zenon DEF AddClockExt, o, t3
  <2>5. (\E i \in 1 .. 4 : o[i] # 0) <=> (-w1 # 0 \/ w2 # 0 \/ w3 # 0 \/ w4 # 0)
    <3>1. o[1] = -w1 /\ o[2] = w2 /\ o[3] = w3 /\ o[4] = w4
      OBVIOUS
    <3>2. 1 \in 1 .. 4 /\ 2 \in 1 .. 4 /\ 3 \in 1 .. 4 /\ 4 \in 1 .. 4
      OBVIOUS
    <3>3. ASSUME NEW i \in 1 .. 4 PROVE i = 1 \/ i = 2 \/ i = 3 \/ i = 4
      OBVIOUS
    <3> HIDE DEF o
    <3> QED BY <3>1, <3>2, <3>3
  <2>6. o[1] = -w1 /\ o[2] = w2 /\ o[3] = w3 /\ o[4] = w4
    OBVIOUS
  <2> HIDE DEF o, t3
  <2> QED BY <2>4, <2>5, <2>6
<1> DEFINE w == w1 + w2 + w3 + w4
           m == Nanos(t3)
<1>7. Nanos(c) + Nanos(d) = m + w * Full
  <2>1. /\ Full \in Int /\ d.sec * NsecInSec \in Int /\ d.nsec \in Int
        /\ Nanos(t0) \in Int /\ Nanos(t1) \in Int /\ Nanos(t2) \in Int /\ m \in Int
        /\ Nanos(d) = d.sec * NsecInSec + d.nsec
    <3>1. ASSUME NEW t \in Time PROVE /\ t.sec * NsecInSec \in Int /\ t.nsec \in Int
                                      /\ Nanos(t) \in Int
      <4> t.sec \in Int /\ t.nsec \in Int /\ NsecInSec \in Int
        BY ClockAssumption DEF Time
      <4> QED BY DEF Nanos
    <3>2. Full \in Int
      BY FullSize
    <3> HIDE DEF t0, t1, t2, t3
    <3> QED BY <3>1, <3>2, <1>1, <1>2, <1>4, <1>5 DEF Nanos
  <2> HIDE DEF t0, t1, t2, t3
  <2>2. Nanos(c) + Nanos(d)
          = Nanos(t3) + w1 * Full + w2 * Full + w3 * Full + w4 * Full
    <3>1. ASSUME NEW a \in Int, NEW a0 \in Int, NEW a1 \in Int, NEW a2 \in Int, NEW a3 \in Int,
                 NEW b \in Int, NEW b1 \in Int, NEW b2 \in Int,
                 NEW p1 \in Int, NEW p2 \in Int, NEW p3 \in Int, NEW p4 \in Int,
                 a = a0 + p1, a0 + b1 = a1 + p2, a1 + b2 = a2 + p3, a2 = a3 + p4, b = b1 + b2
          PROVE  a + b = a3 + p1 + p2 + p3 + p4
      BY <3>1
    <3>2. /\ w1 * Full \in Int /\ w2 * Full \in Int /\ w3 * Full \in Int /\ w4 * Full \in Int
      BY <2>1
    <3>3. Nanos(c) \in Int /\ Nanos(d) \in Int
      BY <2>1, <3>2, <1>1
    <3> QED BY <1>1, <1>2, <1>4, <1>5, <2>1, <3>1, <3>2, <3>3
  <2> QED BY <2>1, <2>2
<1>8. m \in 0 .. Full - 1
  BY <1>5, NormalIsLess
<1>9. w \in 0 .. 4 /\ m \in Int
  BY <1>8, FullSize
<1>10. /\ m + w * Full < Full <=> w = 0
       /\ m + w * Full \in Full .. 2 * Full - 1 <=> w = 1
       /\ (m + w * Full) % Full = m
  <2> HIDE DEF m, w
  <2> QED BY <1>8, <1>9, FullSize, Wraps
<1>11. Fmt(c).ret = 0 <=> w1 = 0
  BY <1>1 DEF Fmt
<1> DEFINE total == Nanos(c) + Nanos(d)
<1>12. /\ total < Full <=> w = 0
       /\ total >= Full <=> w # 0
       /\ total \in Full .. 2 * Full - 1 <=> w = 1
       /\ total % Full = m
       /\ w = 0 => total = m
  <2> m + w * Full \in Int
    BY <1>9, FullSize
  <2> w = 0 => m + w * Full = m
    BY <1>9, FullSize
  <2> HIDE DEF m, w
  <2> QED BY <1>7, <1>10, FullSize
<1> DEFINE r == AddClockExt(c, c, d, flag)
<1> SUFFICES r.time \in Time /\ Adds(c, d, flag, r.time, r.ret)
  OBVIOUS
<1>13. CASE flag = "none" /\ w # 0
  <2>1. r = [time |-> c, ret |-> -1]
    <3> HIDE DEF t3
    <3> QED BY <1>6, <1>13
  <2> HIDE DEF r, w, m
  <2> QED BY <2>1, <1>12, <1>13 DEF Adds
<1>14. CASE flag # "none" \/ w = 0
  <2>1. r = [time |-> t3, ret |-> IF -w1 + w2 + w3 + w4 = 0 THEN 0 ELSE -1]
    <3> HIDE DEF t3
    <3> QED BY <1>6, <1>14
  <2>2. r.time = t3 /\ r.ret = IF -w1 + w2 + w3 + w4 = 0 THEN 0 ELSE -1
    BY <2>1
  <2>3. w = 0 => r.ret = 0
    BY <2>2
  <2>4. w = 1 /\ w1 = 0 => r.ret = -1
    BY <2>2
  <2> HIDE DEF r, w, t3
  <2> QED BY <2>2, <2>3, <2>4, <1>5, <1>11, <1>12, <1>14 DEF Adds
<1> QED BY <1>13, <1>14

\* eaf_time_fmtclock_ext: the same number in normal form, or a wrap that is told.
LEMMA FormatExact ==
    ASSUME NEW c \in Time, NEW flag \in Flag
    PROVE  LET r == Fmt(c)
               new == IF r.ret = 0 \/ flag = "ignore_overflow" THEN r.time ELSE c
           IN  new \in Time /\ Adds(c, Zero, flag, new, r.ret)
<1> DEFINE t == Carry(c)
           ret == Fmt(c).ret
           new == IF ret = 0 \/ flag = "ignore_overflow" THEN t ELSE c
<1>1. PICK w \in {0, 1} : /\ t \in Time /\ Normal(t)
                          /\ Nanos(c) = Nanos(t) + w * Full
                          /\ t.sec < c.sec <=> w = 1
  BY CarryExact
<1>2. ret = -w /\ Fmt(c).time = t
  BY <1>1 DEF Fmt
<1>3. Nanos(t) \in 0 .. Full - 1
  BY <1>1, NormalIsLess
<1>4. Nanos(Zero) = 0
  <2> NsecInSec \in Nat
    BY ClockAssumption
  <2> QED BY DEF Nanos, Zero
<1> DEFINE total == Nanos(c) + Nanos(Zero)
<1>5. /\ total < Full <=> w = 0
      /\ total >= Full <=> w # 0
      /\ total % Full = Nanos(t)
      /\ w = 0 => total = Nanos(t)
  <2>1. /\ Nanos(t) + w * Full < Full <=> w = 0
        /\ (Nanos(t) + w * Full) % Full = Nanos(t)
        /\ Nanos(t) \in Int /\ w * Full \in Int
    <3> w \in 0 .. 4 /\ Nanos(t) \in Int
      BY <1>3, FullSize
    <3> HIDE DEF t
    <3> QED BY <1>3, FullSize, Wraps
  <2> HIDE DEF t
  <2>2. total = Nanos(t) + w * Full
    BY <2>1, <1>1, <1>4
  <2>3. w = 0 => total = Nanos(t)
    <3>1. w = 0 => w * Full = 0
      BY FullSize
    <3> QED BY <2>1, <2>2, <3>1
  <2> QED BY <2>1, <2>2, <2>3, FullSize
<1> SUFFICES new \in Time /\ Adds(c, Zero, flag, new, ret)
  BY <1>2
<1>6. flag = "none" \/ flag = "ignore_overflow"
  BY DEF Flag
<1>7. /\ w = 0 \/ flag = "ignore_overflow" => new = t
      /\ w # 0 /\ flag = "none" => new = c
  BY <1>2, <1>6
<1> HIDE DEF new, ret, t
<1>8. new \in Time
  BY <1>1, <1>6, <1>7
<1>9. /\ total < Full => ret = 0 /\ Nanos(new) = total
      /\ total >= Full /\ flag = "none" => ret = -1 /\ new = c
      /\ total >= Full /\ flag # "none" => Nanos(new) = total % Full
  BY <1>2, <1>5, <1>6, <1>7
<1>10. total \in Full .. 2 * Full - 1 /\ Fmt(c).ret = 0 => ret = -1
  <2>1. total \in Full .. 2 * Full - 1 => total >= Full
    BY FullSize
  <2> QED BY <2>1, <1>2, <1>5 DEF ret
<1>11. Normal(new) \/ ret = -1
  BY <1>1, <1>2, <1>7
<1> QED BY <1>8, <1>9, <1>10, <1>11 DEF Adds

\* The order of two normal times is that of their numbers.
LEMMA Larger ==
    ASSUME NEW t \in Time, Normal(t), NEW u \in Time, Normal(u)
    PROVE  /\ FirstIsLarger(t, u) => Nanos(u) < Nanos(t)
           /\ ~FirstIsLarger(t, u) => Nanos(t) <= Nanos(u)
           /\ ~FirstIsLarger(t, u) /\ t # u =>
                 u.sec > t.sec \/ (u.sec = t.sec /\ u.nsec > t.nsec)
<1>1. /\ t.sec \in 0 .. SecRange - 1 /\ t.nsec \in 0 .. NsecInSec - 1
      /\ u.sec \in 0 .. SecRange - 1 /\ u.nsec \in 0 .. NsecInSec - 1
      /\ NsecInSec \in Nat \ {0} /\ SecRange \in Nat
  BY ClockAssumption DEF Time, Normal
<1>2. /\ t.sec < u.sec => t.sec * NsecInSec + NsecInSec <= u.sec * NsecInSec
      /\ u.sec < t.sec => u.sec * NsecInSec + NsecInSec <= t.sec * NsecInSec
      /\ t.sec * NsecInSec \in Int /\ u.sec * NsecInSec \in Int
  BY <1>1, Scaled
<1>3. t # u => t.sec # u.sec \/ t.nsec # u.nsec
  <2> t = [sec |-> t.sec, nsec |-> t.nsec] /\ u = [sec |-> u.sec, nsec |-> u.nsec]
    BY DEF Time
  <2> QED BY Zenon
<1>4. t.sec = u.sec => t.sec * NsecInSec = u.sec * NsecInSec
  OBVIOUS
<1>5. CASE FirstIsLarger(t, u)
  BY <1>1, <1>2, <1>4, <1>5 DEF FirstIsLarger, Nanos
<1>6. CASE ~FirstIsLarger(t, u)
  BY <1>1, <1>2, <1>3, <1>4, <1>6 DEF FirstIsLarger, Nanos
<1> QED BY <1>5, <1>6

\* The whole seconds of the difference are right.
SecsRight(large, little, d) ==
    Nanos(large) - Nanos(little) - d.sec * NsecInSec \in 0 .. NsecInSec - 1

\* The difference of two times: its seconds and nanoseconds are in range, it is zero
\* for equal ones only, and it is the difference when there is nothing to borrow.
LEMMA SubtractExact ==
    ASSUME NEW large \in Time, Normal(large), NEW little \in Time, Normal(little),
           \/ large.sec > little.sec
           \/ large.sec = little.sec /\ large.nsec >= little.nsec
    PROVE  LET d == Subtract(large, little)
           IN  /\ Normal(d)
               /\ d = Zero => large.sec = little.sec /\ large.nsec = little.nsec
               /\ SecsRight(large, little, d)
               /\ large.nsec >= little.nsec => Nanos(d) = Nanos(large) - Nanos(little)
<1>1. /\ large.sec \in 0 .. SecRange - 1 /\ large.nsec \in 0 .. NsecInSec - 1
      /\ little.sec \in 0 .. SecRange - 1 /\ little.nsec \in 0 .. NsecInSec - 1
      /\ NsecInSec \in Nat \ {0} /\ SecRange \in Nat
  BY ClockAssumption DEF Time, Normal
<1> DEFINE d == Subtract(large, little)
<1> SUFFICES /\ Normal(d)
             /\ d = Zero => large.sec = little.sec /\ large.nsec = little.nsec
             /\ SecsRight(large, little, d)
             /\ large.nsec >= little.nsec => Nanos(d) = Nanos(large) - Nanos(little)
  OBVIOUS
<1>2. CASE large.nsec < little.nsec
  <2>0. d.sec = large.sec - little.sec - 1
    <3>1. large.sec - little.sec - 1 \in 0 .. SecRange - 1
      BY <1>1, <1>2
    <3>2. WrapSec(large.sec - little.sec - 1) = large.sec - little.sec - 1
      BY <1>1, <3>1 DEF WrapSec
    <3> QED BY <1>2, <3>2 DEF Subtract
  <2>1. d.nsec = little.nsec - large.nsec
    BY <1>2 DEF Subtract
  <2>2. d = Zero => d.nsec = 0
    BY DEF Zero
  <2> HIDE DEF d
  <2>3. SecsRight(large, little, d)
    <3>1. /\ (large.sec - little.sec) * NsecInSec
               = large.sec * NsecInSec - little.sec * NsecInSec
          /\ (large.sec - little.sec - 1) * NsecInSec
               = (large.sec - little.sec) * NsecInSec - 1 * NsecInSec
      BY <1>1, Scaled
    <3>2. large.sec * NsecInSec \in Int /\ little.sec * NsecInSec \in Int
      BY <1>1, Scaled
    <3> QED BY <1>1, <1>2, <2>0, <3>1, <3>2 DEF Nanos, SecsRight
  <2> QED BY <1>1, <1>2, <2>1, <2>2, <2>3 DEF Normal
<1>3. CASE ~(large.nsec < little.nsec)
  <2>1. d.sec = large.sec - little.sec /\ d.nsec = large.nsec - little.nsec
    BY <1>3 DEF Subtract
  <2>2. d = Zero => d.sec = 0 /\ d.nsec = 0
    BY DEF Zero
  <2> HIDE DEF d
  <2>3. Nanos(d) = Nanos(large) - Nanos(little) /\ SecsRight(large, little, d)
    <3>1. (large.sec - little.sec) * NsecInSec
            = large.sec * NsecInSec - little.sec * NsecInSec
      BY <1>1, Scaled
    <3>2. large.sec * NsecInSec \in Int /\ little.sec * NsecInSec \in Int
      BY <1>1, Scaled
    <3> QED BY <1>1, <1>3, <2>1, <3>1, <3>2 DEF Nanos, SecsRight
  <2> QED BY <1>1, <1>3, <2>1, <2>2, <2>3 DEF Normal
<1> QED BY <1>2, <1>3

\* eaf_time_diffclock of two normal times.
Differs(old, dif, d, ret) ==
    LET large == IF ret = 1 THEN old ELSE dif
        little == IF ret = 1 THEN dif ELSE old
    IN  /\ ret = 0 <=> old = dif
        /\ Nanos(little) <= Nanos(large)
        /\ SecsRight(large, little, d)
        /\ large.nsec >= little.nsec => Nanos(d) = Nanos(large) - Nanos(little)
        /\ Normal(d)

LEMMA DiffClockExact ==
    ASSUME NEW t \in Time, Normal(t), NEW u \in Time, Normal(u)
    PROVE  LET r == DiffClock(t, u)
           IN  Differs(t, u, r.time, r.ret)
<1> DEFINE r == DiffClock(t, u)
<1> SUFFICES Differs(t, u, r.time, r.ret)
  OBVIOUS
<1>1. /\ t = u => t.sec = u.sec /\ t.nsec = u.nsec
      /\ t.sec = u.sec /\ t.nsec = u.nsec => t = u
      /\ t.sec \in Int /\ t.nsec \in Int /\ u.sec \in Int /\ u.nsec \in Int
      /\ Nanos(t) \in Int /\ Nanos(u) \in Int
  <2>1. t.sec \in Int /\ t.nsec \in Int /\ u.sec \in Int /\ u.nsec \in Int
    BY ClockAssumption DEF Time
  <2>2. t = [sec |-> t.sec, nsec |-> t.nsec] /\ u = [sec |-> u.sec, nsec |-> u.nsec]
    BY DEF Time
  <2>3. t.sec = u.sec /\ t.nsec = u.nsec => t = u
    BY <2>2, Zenon
  <2>4. Nanos(t) \in Int /\ Nanos(u) \in Int
    BY NormalIsLess, FullSize
  <2> QED BY <2>1, <2>3, <2>4
<1>2. CASE FirstIsLarger(t, u)
  <2> DEFINE d == Subtract(t, u)
  <2>1. r.time = d /\ r.ret = IF d = Zero THEN 0 ELSE 1
    BY <1>2 DEF DiffClock, Zero
  <2>2. t.sec > u.sec \/ (t.sec = u.sec /\ t.nsec > u.nsec)
    BY <1>2 DEF FirstIsLarger
  <2>3. t.sec > u.sec \/ (t.sec = u.sec /\ t.nsec >= u.nsec)
    BY <1>1, <2>2
  <2>4. /\ Normal(d)
        /\ d = Zero => t.sec = u.sec /\ t.nsec = u.nsec
        /\ SecsRight(t, u, d)
        /\ t.nsec >= u.nsec => Nanos(d) = Nanos(t) - Nanos(u)
    BY <2>3, SubtractExact
  <2>5. d # Zero /\ t # u
    BY <1>1, <2>2, <2>4
  <2>6. Nanos(u) <= Nanos(t)
    BY <1>1, <1>2, Larger
  <2> HIDE DEF d, r
  <2>7. r.ret = 1
    BY <2>1, <2>5
  <2> QED BY <2>1, <2>4, <2>5, <2>6, <2>7 DEF Differs
<1>3. CASE ~FirstIsLarger(t, u)
  <2> DEFINE d == Subtract(u, t)
  <2>1. r.time = d /\ r.ret = IF d = Zero THEN 0 ELSE -1
    BY <1>3 DEF DiffClock, Zero
  <2>2. u.sec > t.sec \/ (u.sec = t.sec /\ u.nsec >= t.nsec)
    BY <1>1, <1>3 DEF FirstIsLarger
  <2>4. /\ Normal(d)
        /\ d = Zero => u.sec = t.sec /\ u.nsec = t.nsec
        /\ SecsRight(u, t, d)
        /\ u.nsec >= t.nsec => Nanos(d) = Nanos(u) - Nanos(t)
    BY <2>2, SubtractExact
  <2>5. d = Zero <=> t = u
    <3>1. ASSUME t = u PROVE d = Zero
      <4>1. d = [sec |-> u.sec - u.sec, nsec |-> u.nsec - u.nsec]
        BY <1>1, <3>1 DEF Subtract
      <4>2. u.sec - u.sec = 0 /\ u.nsec - u.nsec = 0
        BY <1>1
      <4> QED BY <4>1, <4>2 DEF Zero
    <3> QED BY <1>1, <2>4, <3>1
  <2>6. Nanos(t) <= Nanos(u)
    BY <1>1, <1>3, Larger
  <2> HIDE DEF d, r
  <2>7. r.ret # 1 /\ (r.ret = 0 <=> d = Zero)
    BY <2>1
  <2> QED BY <2>1, <2>4, <2>5, <2>6, <2>7 DEF Differs
<1> QED BY <1>2, <1>3

-----------------------------------------------------------------------------
\* The milliseconds to add are a time: their seconds wrap, the rest is less than a
\* second.
LEMMA OfMsecIsTime ==
    ASSUME NEW m \in MsecInput
    PROVE  OfMsec(m) \in Time
<1>1. /\ m \in Nat /\ MsecInSec \in Nat \ {0} /\ NsecInSec \in Nat \ {0}
      /\ NsecInSec % MsecInSec = 0 /\ SecRange \in Nat \ {0}
      /\ NsecRange \in Nat /\ NsecInSec <= NsecRange
  BY ClockAssumption
<1> DEFINE k == NsecInSec \div MsecInSec
           r == m % MsecInSec
<1>2. r \in 0 .. MsecInSec - 1 /\ m \div MsecInSec \in Nat
  BY <1>1, Division
<1>3. k \in Nat /\ k \in Nat \ {0} /\ NsecInSec = k * MsecInSec
  <2>1. k \in Nat /\ NsecInSec = k * MsecInSec + (NsecInSec % MsecInSec)
    BY <1>1, Division
  <2> HIDE DEF k
  <2>2. NsecInSec = k * MsecInSec
    BY <1>1, <2>1
  <2>3. k # 0
    BY <1>1, <2>2
  <2> QED BY <2>1, <2>2, <2>3
<1>4. r * k \in 0 .. NsecRange - 1
  <2> HIDE DEF k, r
  <2>1. r * k + k <= MsecInSec * k /\ 0 * k <= r * k /\ r * k \in Int
    BY <1>1, <1>2, <1>3, Scaled
  <2>2. MsecInSec * k = NsecInSec
    BY <1>1, <1>3
  <2> QED BY <1>1, <1>3, <2>1, <2>2
<1>5. WrapSec(m \div MsecInSec) \in 0 .. SecRange - 1
  <2> DEFINE q == m \div MsecInSec
  <2> HIDE DEF q
  <2> q \in Nat
    BY <1>2 DEF q
  <2> q % SecRange \in 0 .. SecRange - 1
    BY <1>1, Division
  <2> QED BY DEF WrapSec, q
<1> QED BY <1>4, <1>5 DEF OfMsec, Time

LEMMA ZeroIsTime == Zero \in Time
  BY ClockAssumption DEF Zero, Time

\* The clock is a time its fields hold and, once a call has been made, the call was
\* exact.
ClockInv ==
    /\ clock \in Time
    /\ called.op # "none" => ClockExact

\* eaf_time_addclock_ext, eaf_time_addclock, eaf_time_addclock_msec.
LEMMA AddStep ==
    ASSUME clock \in Time, NEW op \in {"add", "msec"}, NEW d \in Time, NEW flag \in Flag,
           ClockAdd(op, d, flag)
    PROVE  ClockInv'
<1> DEFINE r == AddClockExt(clock, clock, d, flag)
<1>1. /\ called' = [op |-> op, old |-> clock, dif |-> d, flag |-> flag]
      /\ clock' = r.time /\ result' = r.ret
  BY DEF ClockAdd, ClockCall
<1>2. r.time \in Time /\ Adds(clock, d, flag, r.time, r.ret)
  BY AddClockExact
<1>3. /\ called'.op = op /\ called'.old = clock /\ called'.dif = d /\ called'.flag = flag
      /\ op # "diff" /\ op # "none"
  BY <1>1
<1> HIDE DEF r
<1>4. AddExact'
  BY <1>1, <1>2, <1>3 DEF AddExact, Adds
<1>5. DiffExact'
  BY <1>3 DEF DiffExact
<1> QED BY <1>1, <1>2, <1>3, <1>4, <1>5 DEF ClockInv, ClockExact

\* eaf_time_fmtclock_ext.
LEMMA FormatStep ==
    ASSUME clock \in Time, NEW flag \in Flag, ClockFormat(flag)
    PROVE  ClockInv'
<1> DEFINE r == Fmt(clock)
           new == IF r.ret = 0 \/ flag = "ignore_overflow" THEN r.time ELSE clock
<1>1. /\ called' = [op |-> "format", old |-> clock, dif |-> Zero, flag |-> flag]
      /\ clock' = new /\ result' = r.ret
  BY DEF ClockFormat, ClockCall
<1>2. new \in Time /\ Adds(clock, Zero, flag, new, r.ret)
  BY FormatExact
<1>3. /\ called'.op = "format" /\ called'.old = clock /\ called'.dif = Zero
      /\ called'.flag = flag
  BY <1>1
<1> HIDE DEF new, r
<1>4. AddExact'
  BY <1>1, <1>2, <1>3 DEF AddExact, Adds
<1>5. DiffExact'
  BY <1>3 DEF DiffExact
<1> QED BY <1>1, <1>2, <1>3, <1>4, <1>5 DEF ClockInv, ClockExact

\* eaf_time_diffclock.
LEMMA DiffStep ==
    ASSUME clock \in Time, NEW t \in Time, ClockDiff(t)
    PROVE  ClockInv'
<1> DEFINE r == DiffClock(clock, t)
<1>1. /\ called' = [op |-> "diff", old |-> clock, dif |-> t, flag |-> "none"]
      /\ diff' = r.time /\ result' = r.ret /\ clock' = clock
  BY DEF ClockDiff, ClockCall
<1>2. Normal(clock) /\ Normal(t) => Differs(clock, t, r.time, r.ret)
  BY DiffClockExact
<1>3. called'.op = "diff" /\ called'.old = clock /\ called'.dif = t
  BY <1>1
<1> HIDE DEF r
<1>4. AddExact'
  BY <1>3 DEF AddExact
<1>5. DiffExact'
  BY <1>1, <1>2, <1>3 DEF DiffExact, Differs, SecsRight
<1> QED BY <1>1, <1>3, <1>4, <1>5 DEF ClockInv, ClockExact

\* Sums and differences of clocks are as exact as ClockExact says, for every width of the fields and every
\* unit that ClockAssumption admits: eaf_time_addclock_ext, eaf_time_addclock,
\* eaf_time_addclock_msec, eaf_time_fmtclock_ext, eaf_time_diffclock.
THEOREM ClockIsExact == ClockSpec => []ClockExact
<1>1. ClockInit => ClockInv
  <2> SUFFICES ASSUME ClockInit PROVE ClockInv
    OBVIOUS
  <2> called.op = "none"
    BY DEF ClockInit
  <2> QED BY DEF ClockInit, ClockInv
<1>2. ClockInv /\ [ClockNext]_clockVars => ClockInv'
  <2> SUFFICES ASSUME ClockInv, [ClockNext]_clockVars PROVE ClockInv'
    OBVIOUS
  <2> clock \in Time
    BY DEF ClockInv
  <2>1. ASSUME NEW t \in Time, ClockDiff(t) PROVE ClockInv'
    BY <2>1, DiffStep
  <2>2. ASSUME NEW t \in Time, NEW flag \in Flag, ClockAdd("add", t, flag) PROVE ClockInv'
    BY <2>2, AddStep
  <2>3. ASSUME NEW flag \in Flag, ClockFormat(flag) PROVE ClockInv'
    BY <2>3, FormatStep
  <2>4. ASSUME NEW m \in MsecInput, ClockAddMsec(m) PROVE ClockInv'
    <3> ClockAdd("msec", OfMsec(m), "none") /\ OfMsec(m) \in Time /\ "none" \in Flag
      BY <2>4, OfMsecIsTime DEF ClockAddMsec, Flag
    <3> QED BY AddStep
  <2>5. CASE UNCHANGED clockVars
    BY <2>5 DEF ClockInv, ClockExact, AddExact, DiffExact, clockVars
  <2> QED BY <2>1, <2>2, <2>3, <2>4, <2>5 DEF ClockNext
<1>3. ClockInv => ClockExact
  BY DEF ClockInv, ClockExact, AddExact, DiffExact
<1> QED BY <1>1, <1>2, <1>3, PTL DEF ClockSpec
=============================================================================
