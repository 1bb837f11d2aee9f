---------------------------- MODULE MonitorProofs ----------------------------
(***************************************************************************)
(* Proofs about the counters of the monitor, for every number of services, *)
(* groups and threads, whoever sends to whom, and however often.  A count  *)
(* that belongs to one thread is what that thread has read of it, and the  *)
(* totals that the properties compare are sums over a finite set.          *)
(***************************************************************************)
EXTENDS MonitorProperties, QueueLemmas, FiniteSetTheorems

-----------------------------------------------------------------------------
\* Sums over a finite set

\* The element with which the sum over T begins.
Some(T) == CHOOSE x \in T : TRUE

\* It is one.
LEMMA SomeIs ==
    ASSUME NEW T, T # {}
    PROVE  Some(T) \in T
  BY DEF Some

\* Induction over the parts of a finite set, for a set of parts.
LEMMA PartsInduct ==
    ASSUME NEW U, IsFiniteSet(U), NEW Q, {} \in Q,
           \A T \in SUBSET U : T # {} /\ T \ {Some(T)} \in Q => T \in Q
    PROVE  \A T \in SUBSET U : T \in Q
<1> DEFINE N == {n \in Nat : \A T \in SUBSET U : Cardinality(T) = n => T \in Q}
<1>1. 0 \in N
  <2> SUFFICES ASSUME NEW T \in SUBSET U, Cardinality(T) = 0 PROVE T \in Q
    OBVIOUS
  <2>1. IsFiniteSet(T)
    BY FS_Subset
  <2>2. T = {}
    BY <2>1, FS_EmptySet
  <2> QED BY <2>2
<1>2. ASSUME NEW n \in Nat, n \in N PROVE n + 1 \in N
  <2> SUFFICES ASSUME NEW T \in SUBSET U, Cardinality(T) = n + 1 PROVE T \in Q
    OBVIOUS
  <2>1. IsFiniteSet(T)
    BY FS_Subset
  <2>2. T # {}
    BY <2>1, FS_EmptySet
  <2>3. Some(T) \in T
    BY <2>2, SomeIs
  <2>4. Cardinality(T \ {Some(T)}) = Cardinality(T) - 1
    BY <2>1, <2>3, FS_RemoveElement
  <2>5. Cardinality(T \ {Some(T)}) = n /\ T \ {Some(T)} \in SUBSET U
    BY <2>4
  <2>6. T \ {Some(T)} \in Q
    BY <1>2, <2>5
  <2> QED BY <2>2, <2>6
<1>3. Nat \subseteq N
  <2> HIDE DEF N
  <2> QED BY <1>1, <1>2, Induct
<1>4. ASSUME NEW T \in SUBSET U PROVE T \in Q
  <2>1. Cardinality(T) \in Nat
    BY FS_Subset, FS_CardinalityType
  <2> QED BY <2>1, <1>3
<1> QED BY <1>4

\* h has, for every part of U, the sum of f over it.
SumOver(f, U, h) ==
    h = [T \in SUBSET U |-> IF T = {} THEN 0 ELSE f[Some(T)] + h[T \ {Some(T)}]]

Sums(f, U, h) ==
    /\ h[{}] = 0
    /\ \A T \in SUBSET U : T # {} => h[T] = f[Some(T)] + h[T \ {Some(T)}]

\* The sum of the library is one of them.
LEMMA SumIs ==
    ASSUME NEW f, NEW U
    PROVE  SumFunctionOnSet(f, U) = (CHOOSE h : SumOver(f, U, h))[U]
BY DEF SumFunctionOnSet, FoldFunctionOnSet, MapThenFoldSet, SumOver, Some

\* There is one: the equation is solved for the parts of at most n elements, for one
\* n after the other.
LEMMA SumExists ==
    ASSUME NEW f, NEW U, IsFiniteSet(U)
    PROVE  \E h : SumOver(f, U, h)
<1> DEFINE Val(T, h) == IF T = {} THEN 0 ELSE f[Some(T)] + h[T \ {Some(T)}]
           Upto(n, h) == \A T \in SUBSET U : Cardinality(T) <= n => h[T] = Val(T, h)
           N == {n \in Nat : \E h : Upto(n, h)}
<1>0. \A T \in SUBSET U : IsFiniteSet(T) /\ Cardinality(T) \in Nat /\ Cardinality(T) <= Cardinality(U)
  BY FS_Subset, FS_CardinalityType
<1>1. 0 \in N
  <2>1. ASSUME NEW T \in SUBSET U, Cardinality(T) <= 0 PROVE T = {}
    BY <1>0, <2>1, FS_EmptySet
  <2> DEFINE z == [T \in SUBSET U |-> 0]
  <2>2. Upto(0, z)
    BY <2>1
  <2> HIDE DEF z, Upto
  <2> QED BY <2>2
<1>2. ASSUME NEW n \in Nat, n \in N PROVE n + 1 \in N
  <2>1. PICK h : Upto(n, h)
    BY <1>2
  <2> DEFINE g == [T \in SUBSET U |-> Val(T, h)]
  <2>2. ASSUME NEW T \in SUBSET U, Cardinality(T) <= n + 1, T # {}
        PROVE  g[T \ {Some(T)}] = h[T \ {Some(T)}]
    <3>1. Some(T) \in T
      BY <2>2, SomeIs
    <3>2. Cardinality(T \ {Some(T)}) = Cardinality(T) - 1
      BY <3>1, <1>0, FS_RemoveElement
    <3>3. T \ {Some(T)} \in SUBSET U /\ Cardinality(T \ {Some(T)}) <= n
      BY <3>2, <1>0, <2>2
    <3>4. h[T \ {Some(T)}] = Val(T \ {Some(T)}, h)
      BY <3>3, <2>1
    <3> HIDE DEF Val
    <3> QED BY <3>3, <3>4
  <2>3. \A T \in SUBSET U : g[T] = Val(T, h)
    <3> HIDE DEF Val
    <3> QED OBVIOUS
  <2> HIDE DEF g
  <2>4. Upto(n + 1, g)
    <3> TAKE T \in SUBSET U
    <3> HAVE Cardinality(T) <= n + 1
    <3>1. CASE T = {}
      BY <3>1, <2>3
    <3>2. CASE T # {}
      BY <3>2, <2>2, <2>3
    <3> QED BY <3>1, <3>2
  <2> HIDE DEF Upto
  <2> QED BY <2>4
<1>3. Nat \subseteq N
  <2> HIDE DEF N
  <2> QED BY <1>1, <1>2, Induct
<1>4. PICK h : Upto(Cardinality(U), h)
  <2> U \in SUBSET U
    OBVIOUS
  <2> QED BY <1>3, <1>0
<1> DEFINE g == [T \in SUBSET U |-> h[T]]
<1>5. ASSUME NEW T \in SUBSET U PROVE g[T] = Val(T, g)
  <2>1. T \ {Some(T)} \in SUBSET U
    OBVIOUS
  <2> QED BY <1>4, <1>0, <2>1
<1>6. g = [T \in SUBSET U |-> Val(T, g)]
  <2> HIDE DEF Val
  <2> QED BY <1>5
<1> HIDE DEF g
<1>7. SumOver(f, U, g)
  BY <1>6, Zenon DEF SumOver
<1> QED BY <1>7

\* The sum, and how it goes on.
LEMMA SumOf ==
    ASSUME NEW f, NEW U, IsFiniteSet(U)
    PROVE  \E h : SumFunctionOnSet(f, U) = h[U] /\ Sums(f, U, h)
<1>1. PICK h : SumFunctionOnSet(f, U) = h[U] /\ SumOver(f, U, h)
  BY SumIs, SumExists, Zenon
<1>2. \A T \in SUBSET U : h[T] = IF T = {} THEN 0 ELSE f[Some(T)] + h[T \ {Some(T)}]
  BY <1>1 DEF SumOver
<1>3. {} \in SUBSET U
  OBVIOUS
<1>4. Sums(f, U, h)
  BY <1>2, <1>3 DEF Sums
<1> QED BY <1>1, <1>4

\* The sum of natural numbers is one.
LEMMA SumNat ==
    ASSUME NEW U, IsFiniteSet(U), NEW f, \A y \in U : f[y] \in Nat
    PROVE  SumFunctionOnSet(f, U) \in Nat
<1>1. PICK h : SumFunctionOnSet(f, U) = h[U] /\ Sums(f, U, h)
  BY SumOf, Zenon
<1> DEFINE Q == {T \in SUBSET U : h[T] \in Nat}
<1>2. {} \in Q
  BY <1>1 DEF Sums
<1>3. ASSUME NEW T \in SUBSET U, T # {}, T \ {Some(T)} \in Q
      PROVE  T \in Q
  <2>1. Some(T) \in T
    BY <1>3, SomeIs
  <2>2. h[T] = f[Some(T)] + h[T \ {Some(T)}]
    BY <1>1, <1>3 DEF Sums
  <2>3. h[T \ {Some(T)}] \in Nat
    BY <1>3
  <2> QED BY <2>1, <2>2, <2>3
<1>4. \A T \in SUBSET U : T \in Q
  <2> HIDE DEF Q
  <2> QED BY <1>2, <1>3, PartsInduct
<1>5. U \in Q
  BY <1>4
<1> QED BY <1>1, <1>5

\* The sum of nothing.
LEMMA SumZero ==
    ASSUME NEW U, IsFiniteSet(U), NEW f, \A y \in U : f[y] = 0
    PROVE  SumFunctionOnSet(f, U) = 0
<1>1. PICK h : SumFunctionOnSet(f, U) = h[U] /\ Sums(f, U, h)
  BY SumOf, Zenon
<1> DEFINE Q == {T \in SUBSET U : h[T] = 0}
<1>2. {} \in Q
  BY <1>1 DEF Sums
<1>3. ASSUME NEW T \in SUBSET U, T # {}, T \ {Some(T)} \in Q
      PROVE  T \in Q
  <2>1. Some(T) \in T
    BY <1>3, SomeIs
  <2>2. h[T] = f[Some(T)] + h[T \ {Some(T)}]
    BY <1>1, <1>3 DEF Sums
  <2>3. h[T \ {Some(T)}] = 0
    BY <1>3
  <2> QED BY <2>1, <2>2, <2>3
<1>4. \A T \in SUBSET U : T \in Q
  <2> HIDE DEF Q
  <2> QED BY <1>2, <1>3, PartsInduct
<1>5. U \in Q
  BY <1>4
<1> QED BY <1>1, <1>5

\* One summand that is one greater makes the sum one greater.
LEMMA SumAdds ==
    ASSUME NEW U, IsFiniteSet(U), NEW f, NEW g, NEW x,
           \A y \in U : f[y] \in Nat /\ g[y] = f[y] + (IF y = x THEN 1 ELSE 0)
    PROVE  SumFunctionOnSet(g, U) = SumFunctionOnSet(f, U) + (IF x \in U THEN 1 ELSE 0)
<1>1. PICK h : SumFunctionOnSet(f, U) = h[U] /\ Sums(f, U, h)
  BY SumOf, Zenon
<1>2. PICK k : SumFunctionOnSet(g, U) = k[U] /\ Sums(g, U, k)
  BY SumOf, Zenon
<1> DEFINE Q == {T \in SUBSET U : h[T] \in Nat /\ k[T] = h[T] + (IF x \in T THEN 1 ELSE 0)}
<1>3. {} \in Q
  BY <1>1, <1>2 DEF Sums
<1>4. ASSUME NEW T \in SUBSET U, T # {}, T \ {Some(T)} \in Q
      PROVE  T \in Q
  <2>1. Some(T) \in T
    BY <1>4, SomeIs
  <2>2. h[T] = f[Some(T)] + h[T \ {Some(T)}] /\ k[T] = g[Some(T)] + k[T \ {Some(T)}]
    BY <1>1, <1>2, <1>4 DEF Sums
  <2>3. /\ h[T \ {Some(T)}] \in Nat
        /\ k[T \ {Some(T)}] = h[T \ {Some(T)}] + (IF x \in T \ {Some(T)} THEN 1 ELSE 0)
    BY <1>4
  <2> QED BY <2>1, <2>2, <2>3
<1>5. \A T \in SUBSET U : T \in Q
  <2> HIDE DEF Q
  <2> QED BY <1>3, <1>4, PartsInduct
<1>6. U \in Q
  BY <1>5
<1> QED BY <1>1, <1>2, <1>6

\* Greater summands make a greater sum.
LEMMA SumGrows ==
    ASSUME NEW U, IsFiniteSet(U), NEW f, NEW g,
           \A y \in U : f[y] \in Nat /\ g[y] \in Nat /\ f[y] <= g[y]
    PROVE  SumFunctionOnSet(f, U) <= SumFunctionOnSet(g, U)
<1>1. PICK h : SumFunctionOnSet(f, U) = h[U] /\ Sums(f, U, h)
  BY SumOf, Zenon
<1>2. PICK k : SumFunctionOnSet(g, U) = k[U] /\ Sums(g, U, k)
  BY SumOf, Zenon
<1> DEFINE Q == {T \in SUBSET U : h[T] \in Nat /\ k[T] \in Nat /\ h[T] <= k[T]}
<1>3. {} \in Q
  BY <1>1, <1>2 DEF Sums
<1>4. ASSUME NEW T \in SUBSET U, T # {}, T \ {Some(T)} \in Q
      PROVE  T \in Q
  <2>1. Some(T) \in T
    BY <1>4, SomeIs
  <2>2. h[T] = f[Some(T)] + h[T \ {Some(T)}] /\ k[T] = g[Some(T)] + k[T \ {Some(T)}]
    BY <1>1, <1>2, <1>4 DEF Sums
  <2>3. h[T \ {Some(T)}] \in Nat /\ k[T \ {Some(T)}] \in Nat /\ h[T \ {Some(T)}] <= k[T \ {Some(T)}]
    BY <1>4
  <2> QED BY <2>1, <2>2, <2>3
<1>5. \A T \in SUBSET U : T \in Q
  <2> HIDE DEF Q
  <2> QED BY <1>3, <1>4, PartsInduct
<1>6. U \in Q
  BY <1>5
<1> QED BY <1>1, <1>2, <1>6

-----------------------------------------------------------------------------
\* The invariant

OneOf(S) == IF S THEN 1 ELSE 0

\* The paths on which s sends, and its messages that were accepted.
Out(s) == {p \in Path : p[1] = s}
Sent(s) == SumFunctionOnSet(sent, Out(s))

\* What the services of a group have handled, in all and when the reset began.
Total(g) == SumFunctionOnSet(total_recv, Members(g))
Earlier(g) == SumFunctionOnSet(before, Members(g))

Uncounted == {"find", "count", "insert"}
InSend == {"push", "find", "count", "insert", "send", "total"}

TypeOK ==
    /\ phase \in {"down", "registered", "loaded", "exiting"}
    /\ flush_send \in [Service -> Nat] /\ flush_recv \in [Service -> Nat]
    /\ flush_time \in [Service -> Nat] /\ total_send \in [Service -> Nat]
    /\ total_recv \in [Service -> Nat] /\ received \in [Service -> Nat]
    /\ before \in [Service -> Nat]
    /\ group_time \in [Group -> Nat]
    /\ dataflow \in [Path -> Nat] /\ sent \in [Path -> Nat]
    /\ pc \in [Thread -> InSend \cup {"idle", "group"}] /\ DOMAIN path = Thread
    /\ seen \in [Thread -> Nat] /\ reset \in Nat

\* A thread sends as it may, and handles what its services get; where nothing runs
\* no path has a record.
ThreadInv ==
    /\ \A t \in Thread : /\ pc[t] \in InSend => path[t] \in Sends[t]
                         /\ pc[t] = "group" => \E s \in Runs[t] : path[t] = <<s, s>>
    /\ ~Running => dataflow = NoPaths /\ reset = 0 /\ \A t \in Thread : pc[t] = "idle"

\* A path on which t alone sends: its record is what t has read of it.
PathOK(p, t) ==
    LET on(places) == pc[t] \in places /\ path[t] = p
    IN  /\ sent[p] = dataflow[p] + OneOf(on(Uncounted))
        /\ on({"count"}) => seen[t] = dataflow[p]
        /\ on({"insert"}) => dataflow[p] = 0
PathInv == \A p \in Path, t \in Thread : Along(p) = {t} => PathOK(p, t)

\* The same of a service as which t alone sends.
SendOK(s, t) ==
    LET on(places) == pc[t] \in places /\ From(t) = s
    IN  /\ Sent(s) = total_send[s] + OneOf(on(Uncounted \cup {"send", "total"}))
        /\ flush_send[s] <= total_send[s] + OneOf(on({"total"}))
        /\ on({"total"}) => seen[t] = total_send[s]
SendInv == \A s \in Service, t \in Thread : As(s) = {t} => SendOK(s, t)

\* The messages of a service are handled by one thread.
Handled(s) == \E t \in Thread : pc[t] = "group" /\ path[t] = <<s, s>>
RecvOK(s) ==
    /\ received[s] = total_recv[s] + OneOf(Handled(s))
    /\ flush_recv[s] <= received[s] /\ flush_time[s] = flush_recv[s]
RecvInv == \A s \in Service : RecvOK(s)

\* While a reset is on its way, the records and the groups it has been to hold nothing
\* from before it.
FreshInv ==
    reset # 0 =>
        /\ \A s \in Service : before[s] <= total_recv[s]
        /\ \A i \in DOMAIN Order :
              i < reset => flush_recv[Order[i]] <= received[Order[i]] - before[Order[i]]
        /\ \A g \in Group : Len(Order) + g < reset => group_time[g] <= Total(g) - Earlier(g)

IInv == TypeOK /\ ThreadInv /\ PathInv /\ SendInv /\ RecvInv /\ FreshInv

\* The services, paths and groups are finitely many, and the groups are numbered.
LEMMA Constants ==
    /\ Len(Order) \in Nat /\ DOMAIN Order = 1 .. Len(Order)
    /\ \A i \in DOMAIN Order : Order[i] \in Service
    /\ \A s \in Service : \E i \in DOMAIN Order : Order[i] = s
    /\ IsFiniteSet(Service) /\ IsFiniteSet(Path)
    /\ \A s \in Service : GroupOf[s] \in Group
    /\ Cardinality(Group) \in Nat
    /\ \A g \in Group : g \in Nat /\ 1 <= g /\ g <= Cardinality(Group)
<1>1. Len(Order) \in Nat /\ DOMAIN Order = 1 .. Len(Order)
  BY MonitorAssumption
<1>2. /\ \A i \in DOMAIN Order : Order[i] \in Service
      /\ \A s \in Service : \E i \in DOMAIN Order : Order[i] = s
  BY DEF Service
<1>3. IsFiniteSet(DOMAIN Order)
  BY <1>1, FS_Interval
<1>4. IsFiniteSet(Service)
  <2> DEFINE f == [i \in DOMAIN Order |-> Order[i]]
  <2>1. f \in Surjection(DOMAIN Order, Service)
    BY <1>2 DEF Surjection
  <2> HIDE DEF f
  <2> QED BY <2>1, <1>3, FS_Surjection
<1>5. IsFiniteSet(Path)
  <2>1. IsFiniteSet(Service \X Service)
    BY <1>4, FS_Product
  <2> QED BY <2>1, FS_Subset, MonitorAssumption
<1>6. \A s \in Service : GroupOf[s] \in Group
  BY DEF Group
<1>7. IsFiniteSet(Group)
  <2> DEFINE f == [s \in Service |-> GroupOf[s]]
  <2>1. f \in Surjection(Service, Group)
    <3>1. f \in [Service -> Group]
      BY <1>6
    <3>2. \A g \in Group : \E s \in Service : f[s] = g
      BY DEF Group
    <3> HIDE DEF f
    <3> QED BY <3>1, <3>2 DEF Surjection
  <2> HIDE DEF f
  <2> QED BY <2>1, <1>4, FS_Surjection
<1>8. Cardinality(Group) \in Nat
  BY <1>7, FS_CardinalityType
<1>9. \A g \in Group : g \in 1 .. Cardinality(Group)
  BY MonitorAssumption DEF Group
<1> QED BY <1>1, <1>2, <1>4, <1>5, <1>6, <1>8, <1>9

\* What a thread that sends, or has handled a message, has in its hands.
LEMMA Hands ==
    ASSUME ThreadInv, NEW t \in Thread
    PROVE  /\ pc[t] \in InSend =>
                 /\ path[t] \in Path /\ path[t] \in Out(From(t))
                 /\ From(t) \in Service /\ To(t) \in Service
                 /\ t \in Along(path[t]) /\ t \in As(From(t))
           /\ pc[t] = "group" =>
                 \E s \in Service : path[t] = <<s, s>> /\ s \in Runs[t] /\ To(t) = s /\ From(t) = s
<1>1. ASSUME pc[t] \in InSend
      PROVE  /\ path[t] \in Path /\ path[t] \in Out(From(t))
             /\ From(t) \in Service /\ To(t) \in Service
             /\ t \in Along(path[t]) /\ t \in As(From(t))
  <2>1. path[t] \in Sends[t]
    BY <1>1 DEF ThreadInv
  <2>2. path[t] \in Path
    BY <2>1 DEF Path
  <2>3. From(t) \in Service /\ To(t) \in Service
    BY <2>2, MonitorAssumption DEF From, To
  <2> QED BY <2>1, <2>2, <2>3 DEF Along, As, Out, From
<1>2. pc[t] = "group" =>
         \E s \in Service : path[t] = <<s, s>> /\ s \in Runs[t] /\ To(t) = s /\ From(t) = s
  BY MonitorAssumption DEF ThreadInv, To, From
<1> QED BY <1>1, <1>2

\* Init: nothing has been counted.
LEMMA InitIInv == Init => IInv
<1> SUFFICES ASSUME Init PROVE IInv
  OBVIOUS
<1>1. TypeOK
  BY DEF Init, TypeOK, NoCounts, NoPaths, InSend
<1>2. ThreadInv
  BY DEF Init, ThreadInv, InSend
<1>3. PathInv
  <2> SUFFICES ASSUME NEW p \in Path, NEW t \in Thread PROVE PathOK(p, t)
    BY DEF PathInv
  <2> QED BY DEF Init, PathOK, OneOf, Uncounted, NoPaths
<1>4. SendInv
  <2> SUFFICES ASSUME NEW s \in Service, NEW t \in Thread PROVE SendOK(s, t)
    BY DEF SendInv
  <2>1. Sent(s) = 0
    BY SumZero, Constants, FS_Subset DEF Sent, Out, Init, NoPaths
  <2> QED BY <2>1 DEF Init, SendOK, OneOf, Uncounted, NoCounts
<1>5. RecvInv
  BY DEF Init, RecvInv, RecvOK, Handled, OneOf, NoCounts
<1>6. FreshInv
  BY DEF Init, FreshInv
<1> QED BY <1>1, <1>2, <1>3, <1>4, <1>5, <1>6 DEF IInv

\* Every value is of its type.
LEMMA StepTyped ==
    ASSUME TypeOK, ThreadInv, [Next]_vars
    PROVE  TypeOK'
<1> USE DEF TypeOK
<1>1. ASSUME MonitorInit \/ EafExit \/ TimerFires \/ FlushRequest \/ EndReset \/ UNCHANGED vars
      PROVE  TypeOK'
  <2>1. CASE MonitorInit
    BY <2>1 DEF MonitorInit, flushVars, countVars, threadVars, resetVars
  <2>2. CASE EafExit
    BY <2>2 DEF EafExit, flushVars, countVars, threadVars
  <2>3. CASE TimerFires
    BY <2>3 DEF TimerFires, flushVars, countVars, threadVars
  <2>4. CASE FlushRequest
    BY <2>4 DEF FlushRequest, flushVars, countVars, threadVars
  <2>5. CASE EndReset
    <3>1. reset' = 0 /\ before' = [s \in Service |-> 0]
      BY <2>5 DEF EndReset, NoCounts
    <3>2. UNCHANGED <<phase, flushVars, countVars, threadVars, sent, received>>
      BY <2>5, Zenon DEF EndReset
    <3> QED BY <3>1, <3>2 DEF flushVars, countVars, threadVars
  <2>6. CASE UNCHANGED vars
    BY <2>6 DEF vars, flushVars, countVars, threadVars, resetVars
  <2> QED BY <1>1, <2>1, <2>2, <2>3, <2>4, <2>5, <2>6
<1>2. ASSUME LoadBefore \/ MonitorExit PROVE TypeOK'
  BY <1>2 DEF LoadBefore, MonitorExit, FreshRecords, NoCounts, NoPaths
<1>3. ASSUME BeginReset PROVE TypeOK'
  BY <1>3 DEF BeginReset, FirstReset, flushVars, countVars, threadVars
<1>4. ASSUME ResetRecord PROVE TypeOK'
  <2>1. PICK s \in Service : Order[reset] = s
    BY <1>4, Constants DEF ResetRecord
  <2>2. /\ flush_send' = [flush_send EXCEPT ![s] = 0]
        /\ flush_recv' = [flush_recv EXCEPT ![s] = 0]
        /\ flush_time' = [flush_time EXCEPT ![s] = 0]
        /\ reset' = reset + 1
        /\ UNCHANGED <<phase, group_time, countVars, threadVars, before, sent, received>>
    BY <1>4, <2>1 DEF ResetRecord
  <2> QED BY <2>2 DEF countVars, threadVars
<1>5. ASSUME ResetGroup PROVE TypeOK'
  BY <1>5 DEF ResetGroup, countVars, threadVars
<1>6. ASSUME NEW t \in Thread, SendBefore(t) PROVE TypeOK'
  BY <1>6 DEF SendBefore, At, Goto, InSend, flushVars, countVars, resetVars
<1>7. ASSUME NEW t \in Thread, HandleAfter(t) PROVE TypeOK'
  <2>1. PICK s \in Runs[t] :
              /\ received' = [received EXCEPT ![s] = @ + 1]
              /\ flush_recv' = [flush_recv EXCEPT ![s] = @ + 1]
              /\ flush_time' = [flush_time EXCEPT ![s] = @ + 1]
              /\ path' = [path EXCEPT ![t] = <<s, s>>]
    BY <1>7 DEF HandleAfter
  <2>2. s \in Service
    BY MonitorAssumption
  <2>3. /\ pc' = [pc EXCEPT ![t] = "group"]
        /\ UNCHANGED <<phase, flush_send, group_time, countVars, seen, resetVars, sent>>
    BY <1>7 DEF HandleAfter, Goto
  <2> QED BY <2>1, <2>2, <2>3 DEF countVars, resetVars
<1>8. ASSUME NEW t \in Thread, CountGroup(t) PROVE TypeOK'
  <2>1. PICK s \in Service : To(t) = s
    BY <1>8, Hands DEF CountGroup, At
  <2>2. PICK g \in Group : GroupOf[s] = g
    BY Constants
  <2>3. /\ total_recv' = [total_recv EXCEPT ![s] = @ + 1]
        /\ group_time' = [group_time EXCEPT ![g] = @ + 1]
        /\ Done(t)
        /\ UNCHANGED <<phase, flush_send, flush_recv, flush_time, total_send, dataflow,
                       resetVars, sent, received>>
    BY <1>8, <2>1, <2>2 DEF CountGroup
  <2>4. total_recv' \in [Service -> Nat] /\ group_time' \in [Group -> Nat]
    <3>1. total_recv[s] + 1 \in Nat /\ group_time[g] + 1 \in Nat
      OBVIOUS
    <3> QED BY <2>3, <3>1
  <2>5. pc' \in [Thread -> InSend \cup {"idle", "group"}]
    BY <2>3 DEF Goto, Done
  <2>6. DOMAIN path' = Thread /\ seen' \in [Thread -> Nat]
    BY <2>3 DEF Done
  <2> QED BY <2>3, <2>4, <2>5, <2>6 DEF resetVars
<1>9. ASSUME NEW t \in Thread, SendStep(t) PROVE TypeOK'
  <2>1. pc[t] \in InSend => path[t] \in Path /\ From(t) \in Service
    BY Hands
  <2>2. ASSUME Push(t) PROVE TypeOK'
    <3>1. path[t] \in Path
      BY <2>1, <2>2 DEF Push, At, InSend
    <3>2. UNCHANGED <<phase, flushVars, countVars, resetVars, received>>
      BY <2>2 DEF Push
    <3>3. CASE sent' = [sent EXCEPT ![path[t]] = @ + 1] /\ Goto(t, "find") /\ UNCHANGED <<path, seen>>
      BY <3>1, <3>2, <3>3 DEF Goto, InSend, flushVars, countVars, resetVars
    <3>4. CASE Done(t) /\ UNCHANGED <<inbox, sent>>
      BY <3>2, <3>4 DEF Done, Goto, flushVars, countVars, resetVars
    <3> QED BY <2>2, <3>3, <3>4 DEF Push
  <2>3. ASSUME FindPath(t) PROVE TypeOK'
    BY <2>1, <2>3 DEF FindPath, At, Goto, InSend, flushVars, countVars, resetVars
  <2>4. ASSUME CountPath(t) PROVE TypeOK'
    BY <2>1, <2>4 DEF CountPath, At, Goto, InSend, flushVars, resetVars
  <2>5. ASSUME InsertPath(t) PROVE TypeOK'
    BY <2>1, <2>5 DEF InsertPath, At, Goto, InSend, flushVars, resetVars
  <2>6. ASSUME CountFlush(t) PROVE TypeOK'
    BY <2>1, <2>6 DEF CountFlush, At, Goto, InSend, countVars, resetVars
  <2>7. ASSUME CountTotal(t) PROVE TypeOK'
    BY <2>1, <2>7 DEF CountTotal, At, Goto, Done, InSend, flushVars, resetVars
  <2> QED BY <1>9, <2>2, <2>3, <2>4, <2>5, <2>6, <2>7 DEF SendStep
<1> QED BY <1>1, <1>2, <1>3, <1>4, <1>5, <1>6, <1>7, <1>8, <1>9
        DEF Next, Main, ThreadStep, ResetStep

\* A thread does what it may, while EAF runs.
LEMMA StepThread ==
    ASSUME TypeOK, ThreadInv, [Next]_vars
    PROVE  ThreadInv'
<1> USE DEF TypeOK, ThreadInv, Running
<1>1. ASSUME MonitorInit \/ EafExit \/ TimerFires \/ FlushRequest \/ UNCHANGED vars
      PROVE  ThreadInv'
  BY <1>1 DEF MonitorInit, EafExit, TimerFires, FlushRequest, vars, flushVars, countVars,
     threadVars, resetVars
<1>2. ASSUME LoadBefore \/ MonitorExit PROVE ThreadInv'
  BY <1>2 DEF LoadBefore, MonitorExit, FreshRecords, InSend
<1>3. ASSUME ResetStep PROVE ThreadInv'
  BY <1>3, Constants DEF ResetStep, BeginReset, ResetRecord, ResetGroup, EndReset, countVars,
     flushVars, threadVars
<1>4. ASSUME NEW t \in Thread, ThreadStep(t)
      PROVE  ThreadInv'
  <2>1. Running
    BY <1>4 DEF ThreadStep, SendBefore, HandleAfter, CountGroup, SendStep, Push, FindPath,
       CountPath, InsertPath, CountFlush, CountTotal, At
  <2>2. phase' = phase /\ \A u \in Thread : u # t => pc'[u] = pc[u] /\ path'[u] = path[u]
    BY <1>4 DEF ThreadStep, SendBefore, HandleAfter, CountGroup, SendStep, Push, FindPath,
       CountPath, InsertPath, CountFlush, CountTotal, At, Goto, Done
  <2>3. /\ pc'[t] \in InSend => path'[t] \in Sends[t]
        /\ pc'[t] = "group" => \E s \in Runs[t] : path'[t] = <<s, s>>
    <3>1. ASSUME SendBefore(t) PROVE pc'[t] = "push" /\ path'[t] \in Sends[t]
      BY <3>1 DEF SendBefore, Goto
    <3>2. ASSUME HandleAfter(t) PROVE pc'[t] = "group" /\ \E s \in Runs[t] : path'[t] = <<s, s>>
      BY <3>2 DEF HandleAfter, Goto
    <3>3. ASSUME CountGroup(t) \/ CountTotal(t) PROVE pc'[t] = "idle"
      BY <3>3 DEF CountGroup, CountTotal, Goto, Done
    <3>4. ASSUME Push(t)
          PROVE  \/ pc'[t] = "idle"
                 \/ pc'[t] = "find" /\ pc[t] \in InSend /\ path'[t] = path[t]
      <4>1. pc[t] \in InSend
        BY <3>4 DEF Push, At, InSend
      <4>2. Done(t) \/ (Goto(t, "find") /\ UNCHANGED path)
        BY <3>4 DEF Push
      <4> QED BY <4>1, <4>2 DEF Goto, Done
    <3>5. ASSUME FindPath(t) \/ CountPath(t) \/ InsertPath(t) \/ CountFlush(t)
          PROVE  pc'[t] \in InSend /\ pc[t] \in InSend /\ path'[t] = path[t]
      BY <3>5 DEF FindPath, CountPath, InsertPath, CountFlush, Goto, At, InSend
    <3> QED BY <1>4, <3>1, <3>2, <3>3, <3>4, <3>5 DEF ThreadStep, SendStep, InSend
  <2> QED BY <2>1, <2>2, <2>3
<1> QED BY <1>1, <1>2, <1>3, <1>4 DEF Next, Main, ResetStep

\* What the monitor's service and the main thread do while EAF runs does not touch the
\* threads, and only sets what a report shows of a service back.
Quiet ==
    /\ UNCHANGED <<pc, path, seen, sent, dataflow, total_send, total_recv, received>>
    /\ \A s \in Service :
          \/ flush_send'[s] = flush_send[s] /\ flush_recv'[s] = flush_recv[s]
             /\ flush_time'[s] = flush_time[s]
          \/ flush_send'[s] = 0 /\ flush_recv'[s] = 0 /\ flush_time'[s] = 0

\* The steps that are not a thread's are quiet, or those that make fresh records.
LEMMA OtherSteps ==
    ASSUME TypeOK, [Next]_vars
    PROVE  \/ \E t \in Thread : ThreadStep(t)
           \/ LoadBefore \/ MonitorExit
           \/ Quiet
<1>1. ASSUME MonitorInit \/ EafExit \/ TimerFires \/ FlushRequest \/ UNCHANGED vars
      PROVE  Quiet
  BY <1>1 DEF MonitorInit, EafExit, TimerFires, FlushRequest, vars, countVars, threadVars,
     flushVars, Quiet
<1>2. ASSUME BeginReset \/ ResetGroup \/ EndReset PROVE Quiet
  BY <1>2 DEF BeginReset, ResetGroup, EndReset, countVars, threadVars, flushVars, Quiet
<1>3. ASSUME ResetRecord PROVE Quiet
  <2>1. UNCHANGED <<pc, path, seen, sent, dataflow, total_send, total_recv, received>>
    BY <1>3 DEF ResetRecord, countVars, threadVars
  <2>2. PICK x : x = Order[reset]
    OBVIOUS
  <2>3. /\ flush_send' = [flush_send EXCEPT ![x] = 0]
        /\ flush_recv' = [flush_recv EXCEPT ![x] = 0]
        /\ flush_time' = [flush_time EXCEPT ![x] = 0]
    BY <1>3, <2>2 DEF ResetRecord
  <2> QED BY <2>1, <2>3 DEF Quiet, TypeOK
<1> QED BY <1>1, <1>2, <1>3 DEF Next, Main, ResetStep

\* Fresh records are made where nothing runs.
LEMMA Fresh ==
    ASSUME TypeOK, ThreadInv, LoadBefore \/ MonitorExit
    PROVE  /\ sent' = NoPaths /\ dataflow' = NoPaths
           /\ flush_send' = NoCounts /\ flush_recv' = NoCounts /\ flush_time' = NoCounts
           /\ total_send' = NoCounts /\ total_recv' = NoCounts /\ received' = NoCounts
           /\ reset = 0 /\ reset' = 0
           /\ \A t \in Thread : pc'[t] = "idle"
<1>1. CASE LoadBefore
  BY <1>1 DEF LoadBefore, FreshRecords, ThreadInv, Running
<1>2. CASE MonitorExit
  BY <1>2 DEF MonitorExit, FreshRecords
<1> QED BY <1>1, <1>2

\* A step of u leaves alone what is another thread's.
LEMMA Others ==
    ASSUME TypeOK, ThreadInv, NEW u \in Thread, ThreadStep(u)
    PROVE  /\ \A t \in Thread : t # u => pc'[t] = pc[t] /\ path'[t] = path[t] /\ seen'[t] = seen[t]
           /\ \A p \in Path : ~(pc[u] \in InSend /\ path[u] = p) =>
                 sent'[p] = sent[p] /\ dataflow'[p] = dataflow[p]
<1>1. \A t \in Thread : t # u => pc'[t] = pc[t] /\ path'[t] = path[t] /\ seen'[t] = seen[t]
  BY DEF TypeOK, ThreadStep, SendBefore, HandleAfter, CountGroup, SendStep, Push, FindPath,
     CountPath, InsertPath, CountFlush, CountTotal, At, Goto, Done
<1>2. ASSUME NEW p \in Path, ~(pc[u] \in InSend /\ path[u] = p)
      PROVE  sent'[p] = sent[p]
  <2>1. CASE Push(u)
    BY <1>2, <2>1 DEF Push, At, InSend, TypeOK
  <2>2. CASE ~Push(u)
    BY <2>2 DEF ThreadStep, SendBefore, HandleAfter, CountGroup, SendStep, FindPath, CountPath,
       InsertPath, CountFlush, CountTotal
  <2> QED BY <2>1, <2>2
<1>3. ASSUME NEW p \in Path, ~(pc[u] \in InSend /\ path[u] = p)
      PROVE  dataflow'[p] = dataflow[p]
  <2>1. CASE CountPath(u) \/ InsertPath(u)
    BY <1>3, <2>1 DEF CountPath, InsertPath, At, InSend, TypeOK
  <2>2. CASE ~(CountPath(u) \/ InsertPath(u))
    BY <2>2 DEF ThreadStep, SendBefore, HandleAfter, CountGroup, SendStep, FindPath, Push,
       CountFlush, CountTotal, countVars
  <2> QED BY <2>1, <2>2
<1> QED BY <1>1, <1>2, <1>3

\* The record of a path follows its messages.
LEMMA StepPath ==
    ASSUME TypeOK, ThreadInv, PathInv, [Next]_vars
    PROVE  PathInv'
<1> SUFFICES ASSUME NEW p \in Path, NEW t \in Thread, Along(p) = {t}
             PROVE  PathOK(p, t)'
  BY DEF PathInv
<1>0. PathOK(p, t)
  BY DEF PathInv
<1>1. CASE Quiet
  BY <1>0, <1>1 DEF PathOK, Quiet
<1>2. CASE LoadBefore \/ MonitorExit
  <2>1. sent' = NoPaths /\ dataflow' = NoPaths /\ pc'[t] = "idle"
    BY <1>2, Fresh
  <2> QED BY <2>1 DEF PathOK, OneOf, Uncounted, NoPaths
<1>3. ASSUME NEW u \in Thread, u # t, ThreadStep(u)
      PROVE  PathOK(p, t)'
  <2>1. ~(pc[u] \in InSend /\ path[u] = p)
    BY <1>3, Hands
  <2>2. /\ sent'[p] = sent[p] /\ dataflow'[p] = dataflow[p]
        /\ pc'[t] = pc[t] /\ path'[t] = path[t] /\ seen'[t] = seen[t]
    BY <1>3, <2>1, Others
  <2> QED BY <1>0, <2>2 DEF PathOK
<1>4. ASSUME ThreadStep(t)
      PROVE  PathOK(p, t)'
  <2> sent[p] \in Nat /\ dataflow[p] \in Nat /\ seen[t] \in Nat
    BY DEF TypeOK
  <2>1. CASE pc[t] \in InSend /\ path[t] = p
    <3>1. CASE Push(t)
      BY <1>0, <2>1, <3>1 DEF PathOK, Push, At, Goto, Done, OneOf, Uncounted, countVars, TypeOK
    <3>2. CASE FindPath(t)
      BY <1>0, <2>1, <3>2 DEF PathOK, FindPath, At, Goto, OneOf, Uncounted, countVars, TypeOK
    <3>3. CASE CountPath(t)
      BY <1>0, <2>1, <3>3 DEF PathOK, CountPath, At, Goto, OneOf, Uncounted, TypeOK
    <3>4. CASE InsertPath(t)
      BY <1>0, <2>1, <3>4 DEF PathOK, InsertPath, At, Goto, OneOf, Uncounted, TypeOK
    <3>5. CASE CountFlush(t)
      BY <1>0, <2>1, <3>5 DEF PathOK, CountFlush, At, Goto, OneOf, Uncounted, countVars, TypeOK
    <3>6. CASE CountTotal(t)
      BY <1>0, <2>1, <3>6 DEF PathOK, CountTotal, At, Goto, Done, OneOf, Uncounted, TypeOK
    <3> QED BY <1>4, <2>1, <3>1, <3>2, <3>3, <3>4, <3>5, <3>6
            DEF ThreadStep, SendStep, SendBefore, HandleAfter, CountGroup, At, InSend
  <2>2. CASE ~(pc[t] \in InSend /\ path[t] = p)
    <3>1. sent'[p] = sent[p] /\ dataflow'[p] = dataflow[p]
      BY <1>4, <2>2, Others
    <3>2. ~(pc[t] \in Uncounted /\ path[t] = p)
      BY <2>2 DEF InSend, Uncounted
    <3>3. ~(pc'[t] \in Uncounted /\ path'[t] = p)
      <4>1. CASE SendStep(t)
        <5>1. pc[t] \in InSend
          BY <4>1 DEF SendStep, Push, FindPath, CountPath, InsertPath, CountFlush, CountTotal, At, InSend
        <5>2. path'[t] = path[t] \/ pc'[t] = "idle"
          BY <4>1 DEF SendStep, Push, FindPath, CountPath, InsertPath, CountFlush, CountTotal,
             Done, Goto, TypeOK
        <5> QED BY <5>1, <5>2, <2>2 DEF Uncounted
      <4>2. CASE ~SendStep(t)
        BY <1>4, <4>2 DEF ThreadStep, SendBefore, HandleAfter, CountGroup, Goto, Done, Uncounted, TypeOK
      <4> QED BY <4>1, <4>2
    <3> QED BY <1>0, <3>1, <3>2, <3>3 DEF PathOK, OneOf, Uncounted
  <2> QED BY <2>1, <2>2
<1> QED BY <1>1, <1>2, <1>3, <1>4, OtherSteps

\* A message that u has sent is one of the service it sends as.
LEMMA SentSteps ==
    ASSUME TypeOK, NEW s \in Service
    PROVE  /\ Sent(s) \in Nat
           /\ sent' = sent => Sent(s)' = Sent(s)
           /\ sent' = NoPaths => Sent(s)' = 0
           /\ \A q \in Path : sent' = [sent EXCEPT ![q] = @ + 1] =>
                 Sent(s)' = Sent(s) + (IF q[1] = s THEN 1 ELSE 0)
<1> DEFINE U == Out(s)
<1>1. U \in SUBSET Path /\ IsFiniteSet(U)
  BY Constants, FS_Subset DEF Out
<1>2. \A y \in U : sent[y] \in Nat
  BY <1>1 DEF TypeOK
<1> HIDE DEF U
<1>3. SumFunctionOnSet(sent, U) \in Nat
  BY <1>1, <1>2, SumNat
<1>4. ASSUME sent' = NoPaths PROVE SumFunctionOnSet(sent', U) = 0
  <2>1. \A y \in U : sent'[y] = 0
    BY <1>1, <1>4 DEF NoPaths
  <2> QED BY <1>1, <2>1, SumZero
<1>5. ASSUME NEW q \in Path, sent' = [sent EXCEPT ![q] = @ + 1]
      PROVE  SumFunctionOnSet(sent', U) = SumFunctionOnSet(sent, U) + (IF q \in U THEN 1 ELSE 0)
  <2>1. \A y \in U : sent[y] \in Nat /\ sent'[y] = sent[y] + (IF y = q THEN 1 ELSE 0)
    BY <1>1, <1>2, <1>5 DEF TypeOK
  <2> QED BY <1>1, <2>1, SumAdds
<1>6. \A q \in Path : q \in U <=> q[1] = s
  BY DEF U, Out
<1>7. Sent(s) = SumFunctionOnSet(sent, U) /\ Sent(s)' = SumFunctionOnSet(sent', U)
  BY DEF Sent, U, Out
<1> HIDE DEF Sent
<1> QED BY <1>3, <1>4, <1>5, <1>6, <1>7

\* The counters of a service follow what it sends.
LEMMA StepSend ==
    ASSUME TypeOK, ThreadInv, SendInv, [Next]_vars
    PROVE  SendInv'
<1> SUFFICES ASSUME NEW s \in Service, NEW t \in Thread, As(s) = {t}
             PROVE  SendOK(s, t)'
  BY DEF SendInv
<1>0. SendOK(s, t)
  BY DEF SendInv
<1> DEFINE S == Sent(s)
<1>a. /\ S \in Nat /\ total_send[s] \in Nat /\ flush_send[s] \in Nat /\ seen[t] \in Nat
      /\ sent' = sent => S' = S
      /\ sent' = NoPaths => S' = 0
      /\ \A q \in Path : sent' = [sent EXCEPT ![q] = @ + 1] =>
                 S' = S + (IF q[1] = s THEN 1 ELSE 0)
  BY SentSteps DEF TypeOK
<1> HIDE DEF S
<1>b. ASSUME NEW u \in Thread, ThreadStep(u), ~(pc[u] \in InSend /\ From(u) = s)
      PROVE  S' = S /\ total_send'[s] = total_send[s] /\ flush_send'[s] = flush_send[s]
  <2>1. CASE Push(u)
    <3>1. pc[u] \in InSend
      BY <2>1 DEF Push, At, InSend
    <3>2. sent' = sent \/ sent' = [sent EXCEPT ![path[u]] = @ + 1]
      BY <2>1 DEF Push
    <3>3. path[u] \in Path /\ path[u][1] # s
      BY <1>b, <3>1, Hands DEF From
    <3>4. total_send' = total_send /\ flush_send' = flush_send
      BY <2>1 DEF Push, countVars, flushVars
    <3> QED BY <1>a, <3>2, <3>3, <3>4
  <2>2. CASE ~Push(u)
    <3>1. sent' = sent
      BY <1>b, <2>2 DEF ThreadStep, SendBefore, HandleAfter, CountGroup, SendStep, FindPath, CountPath,
         InsertPath, CountFlush, CountTotal
    <3>2. CASE CountFlush(u) \/ CountTotal(u)
      BY <1>a, <1>b, <3>1, <3>2 DEF CountFlush, CountTotal, At, InSend, TypeOK, countVars, flushVars
    <3>3. CASE ~(CountFlush(u) \/ CountTotal(u))
      <4>1. total_send' = total_send /\ flush_send' = flush_send
        BY <1>b, <2>2, <3>3 DEF ThreadStep, SendBefore, HandleAfter, CountGroup, SendStep, FindPath,
           CountPath, InsertPath, countVars, flushVars
      <4> QED BY <1>a, <3>1, <4>1
    <3> QED BY <3>2, <3>3
  <2> QED BY <2>1, <2>2
<1>1. CASE Quiet
  <2>1. S' = S /\ UNCHANGED <<pc, path, seen, total_send>> /\ flush_send'[s] \in {flush_send[s], 0}
    BY <1>1, <1>a DEF Quiet
  <2>2. flush_send'[s] <= flush_send[s] /\ flush_send'[s] \in Nat
    BY <2>1, <1>a
  <2> QED BY <1>0, <1>a, <2>1, <2>2 DEF SendOK, S, OneOf, From
<1>2. CASE LoadBefore \/ MonitorExit
  <2>1. sent' = NoPaths /\ total_send'[s] = 0 /\ flush_send'[s] = 0 /\ pc'[t] = "idle"
    BY <1>2, Fresh DEF NoCounts
  <2>2. S' = 0
    BY <2>1, <1>a
  <2> QED BY <2>1, <2>2 DEF SendOK, OneOf, Uncounted, S
<1>3. ASSUME NEW u \in Thread, u # t, ThreadStep(u)
      PROVE  SendOK(s, t)'
  <2>1. ~(pc[u] \in InSend /\ From(u) = s)
    BY <1>3, Hands
  <2>2. S' = S /\ total_send'[s] = total_send[s] /\ flush_send'[s] = flush_send[s]
    BY <1>3, <2>1, <1>b
  <2>3. pc'[t] = pc[t] /\ path'[t] = path[t] /\ seen'[t] = seen[t]
    BY <1>3, Others
  <2> QED BY <1>0, <2>2, <2>3 DEF SendOK, S, From
<1>4. ASSUME ThreadStep(t)
      PROVE  SendOK(s, t)'
  <2>1. CASE pc[t] \in InSend /\ From(t) = s
    <3>0. /\ path[t] \in Path /\ path[t][1] = s
          /\ S = total_send[s] + OneOf(pc[t] \in Uncounted \cup {"send", "total"})
          /\ flush_send[s] <= total_send[s] + OneOf(pc[t] = "total")
          /\ pc[t] = "total" => seen[t] = total_send[s]
      BY <1>0, <2>1, Hands DEF SendOK, From, S, OneOf
    <3>a. ASSUME S' = total_send'[s] + OneOf(pc'[t] \in Uncounted \cup {"send", "total"} /\ path'[t][1] = s),
                 flush_send'[s] <= total_send'[s] + OneOf(pc'[t] = "total" /\ path'[t][1] = s),
                 pc'[t] = "total" /\ path'[t][1] = s => seen'[t] = total_send'[s]
          PROVE  SendOK(s, t)'
      BY <3>a DEF SendOK, From, S, OneOf
    <3>1. CASE Push(t)
      <4>1. \/ sent' = sent /\ pc'[t] = "idle"
            \/ sent' = [sent EXCEPT ![path[t]] = @ + 1] /\ pc'[t] = "find" /\ path'[t] = path[t]
        BY <3>1 DEF Push, Goto, Done, TypeOK
      <4>2. \/ S' = S /\ pc'[t] = "idle"
            \/ S' = S + 1 /\ pc'[t] = "find" /\ path'[t] = path[t]
        BY <4>1, <3>0, <1>a
      <4>3. pc[t] = "push" /\ total_send' = total_send /\ flush_send' = flush_send
        BY <3>1 DEF Push, At, countVars, flushVars
      <4> QED BY <4>2, <4>3, <3>0, <3>a, <1>a DEF OneOf, Uncounted
    <3>2. CASE FindPath(t) \/ CountPath(t) \/ InsertPath(t)
      <4>1. /\ pc[t] \in Uncounted /\ pc'[t] \in Uncounted \cup {"send"} /\ path'[t] = path[t]
            /\ sent' = sent /\ total_send' = total_send /\ flush_send' = flush_send
        BY <3>2 DEF FindPath, CountPath, InsertPath, At, Goto, Uncounted, TypeOK, countVars, flushVars
      <4> QED BY <4>1, <3>0, <3>a, <1>a DEF OneOf, Uncounted
    <3>3. CASE CountFlush(t)
      <4>1. /\ pc[t] = "send" /\ pc'[t] = "total" /\ path'[t] = path[t] /\ seen'[t] = total_send[s]
            /\ sent' = sent /\ total_send' = total_send /\ flush_send'[s] = flush_send[s] + 1
        BY <2>1, <3>3 DEF CountFlush, At, Goto, TypeOK, countVars
      <4> QED BY <4>1, <3>0, <3>a, <1>a DEF OneOf, Uncounted
    <3>4. CASE CountTotal(t)
      <4>1. /\ pc[t] = "total" /\ pc'[t] = "idle"
            /\ sent' = sent /\ total_send'[s] = seen[t] + 1 /\ flush_send' = flush_send
        BY <2>1, <3>4 DEF CountTotal, At, Goto, Done, TypeOK, flushVars
      <4> QED BY <4>1, <3>0, <3>a, <1>a DEF OneOf, Uncounted
    <3> QED BY <1>4, <2>1, <3>1, <3>2, <3>3, <3>4
            DEF ThreadStep, SendStep, SendBefore, HandleAfter, CountGroup, At, InSend
  <2>2. CASE ~(pc[t] \in InSend /\ From(t) = s)
    <3>1. S' = S /\ total_send'[s] = total_send[s] /\ flush_send'[s] = flush_send[s]
      BY <1>4, <2>2, <1>b
    <3>2. ~(pc[t] \in Uncounted \cup {"send", "total"} /\ From(t) = s)
      BY <2>2 DEF InSend, Uncounted
    <3>3. ~(pc'[t] \in Uncounted \cup {"send", "total"} /\ path'[t][1] = s)
      <4>1. CASE SendStep(t)
        <5>1. pc[t] \in InSend
          BY <4>1 DEF SendStep, Push, FindPath, CountPath, InsertPath, CountFlush, CountTotal, At, InSend
        <5>2. path'[t] = path[t] \/ pc'[t] = "idle"
          BY <4>1 DEF SendStep, Push, FindPath, CountPath, InsertPath, CountFlush, CountTotal,
             Done, Goto, TypeOK
        <5> QED BY <5>1, <5>2, <2>2 DEF Uncounted, From
      <4>2. CASE ~SendStep(t)
        BY <1>4, <4>2 DEF ThreadStep, SendBefore, HandleAfter, CountGroup, Goto, Done, Uncounted, TypeOK
      <4> QED BY <4>1, <4>2
    <3>4. S = total_send[s] /\ flush_send[s] <= total_send[s]
      BY <1>0, <3>2, <1>a DEF SendOK, S, OneOf
    <3> QED BY <3>1, <3>3, <3>4, <1>a DEF SendOK, S, OneOf, From
  <2> QED BY <2>1, <2>2
<1> QED BY <1>1, <1>2, <1>3, <1>4, OtherSteps

\* A message that is being handled is one of a service of the thread, and is counted once.
LEMMA StepRecv ==
    ASSUME TypeOK, ThreadInv, RecvInv, [Next]_vars
    PROVE  RecvInv'
<1> SUFFICES ASSUME NEW s \in Service
             PROVE  RecvOK(s)'
  BY DEF RecvInv
<1>0. RecvOK(s)
  BY DEF RecvInv
<1>a. /\ received[s] \in Nat /\ total_recv[s] \in Nat
      /\ flush_recv[s] \in Nat /\ flush_time[s] \in Nat
  BY DEF TypeOK
<1>1. CASE Quiet
  <2>1. /\ received'[s] = received[s] /\ total_recv'[s] = total_recv[s]
        /\ \/ flush_recv'[s] = flush_recv[s] /\ flush_time'[s] = flush_time[s]
           \/ flush_recv'[s] = 0 /\ flush_time'[s] = 0
    BY <1>1 DEF Quiet
  <2>2. Handled(s)' <=> Handled(s)
    BY <1>1 DEF Quiet, Handled
  <2> QED BY <1>0, <1>a, <2>1, <2>2 DEF RecvOK, OneOf
<1>2. CASE LoadBefore \/ MonitorExit
  <2>1. ~Handled(s)'
    BY <1>2, Fresh DEF Handled
  <2> QED BY <1>2, <2>1, Fresh DEF RecvOK, OneOf, NoCounts
<1>3. ASSUME NEW u \in Thread, SendBefore(u) \/ SendStep(u)
      PROVE  RecvOK(s)'
  <2>1. UNCHANGED <<received, total_recv, flush_recv, flush_time>>
    BY <1>3 DEF SendBefore, SendStep, Push, FindPath, CountPath, InsertPath, CountFlush, CountTotal,
       countVars, flushVars
  <2>2. pc[u] # "group"
    BY <1>3 DEF SendBefore, SendStep, Push, FindPath, CountPath, InsertPath, CountFlush, CountTotal, At
  <2>3. pc'[u] # "group"
    BY <1>3 DEF SendBefore, SendStep, Push, FindPath, CountPath, InsertPath, CountFlush, CountTotal,
       Goto, Done, TypeOK
  <2>4. \A t \in Thread : t # u => pc'[t] = pc[t] /\ path'[t] = path[t]
    BY <1>3, Others DEF ThreadStep
  <2>5. Handled(s)' <=> Handled(s)
    BY <2>2, <2>3, <2>4 DEF Handled
  <2> QED BY <1>0, <2>1, <2>5 DEF RecvOK, OneOf
<1>4. ASSUME NEW u \in Thread, HandleAfter(u)
      PROVE  RecvOK(s)'
  <2>1. PICK x \in Runs[u] :
              /\ received' = [received EXCEPT ![x] = @ + 1]
              /\ flush_recv' = [flush_recv EXCEPT ![x] = @ + 1]
              /\ flush_time' = [flush_time EXCEPT ![x] = @ + 1]
              /\ path' = [path EXCEPT ![u] = <<x, x>>]
    BY <1>4 DEF HandleAfter
  <2>2. x \in Service
    BY MonitorAssumption
  <2>3. pc[u] = "idle" /\ pc'[u] = "group" /\ path'[u] = <<x, x>> /\ total_recv' = total_recv
    BY <1>4, <2>1 DEF HandleAfter, At, Goto, TypeOK, countVars
  <2>4. \A t \in Thread : t # u => pc'[t] = pc[t] /\ path'[t] = path[t]
    BY <1>4, Others DEF ThreadStep
  <2>5. CASE s = x
    <3>1. ~Handled(s)
      <4> SUFFICES ASSUME NEW t \in Thread, pc[t] = "group", path[t] = <<s, s>> PROVE FALSE
        BY DEF Handled
      <4>1. s \in Runs[t]
        BY Hands
      <4> QED BY <4>1, <2>3, <2>5, MonitorAssumption
    <3>2. Handled(s)'
      BY <2>3, <2>5 DEF Handled
    <3>3. /\ received'[s] = received[s] + 1 /\ flush_recv'[s] = flush_recv[s] + 1
          /\ flush_time'[s] = flush_time[s] + 1 /\ total_recv'[s] = total_recv[s]
      BY <2>1, <2>3, <2>5 DEF TypeOK
    <3> QED BY <1>0, <1>a, <3>1, <3>2, <3>3 DEF RecvOK, OneOf
  <2>6. CASE s # x
    <3>1. Handled(s)' <=> Handled(s)
      BY <2>3, <2>4, <2>6 DEF Handled
    <3>2. /\ received'[s] = received[s] /\ flush_recv'[s] = flush_recv[s]
          /\ flush_time'[s] = flush_time[s] /\ total_recv'[s] = total_recv[s]
      BY <2>1, <2>3, <2>6 DEF TypeOK
    <3> QED BY <1>0, <3>1, <3>2 DEF RecvOK, OneOf
  <2> QED BY <2>5, <2>6
<1>5. ASSUME NEW u \in Thread, CountGroup(u)
      PROVE  RecvOK(s)'
  <2>1. pc[u] = "group" /\ pc'[u] = "idle" /\ UNCHANGED <<received, flush_recv, flush_time>>
    BY <1>5 DEF CountGroup, At, Done, Goto, TypeOK
  <2>2. PICK x \in Service : path[u] = <<x, x>> /\ x \in Runs[u] /\ To(u) = x
    BY <2>1, Hands
  <2>3. total_recv' = [total_recv EXCEPT ![x] = @ + 1]
    BY <1>5, <2>2 DEF CountGroup
  <2>4. \A t \in Thread : t # u => pc'[t] = pc[t] /\ path'[t] = path[t]
    BY <1>5, Others DEF ThreadStep
  <2>5. CASE s = x
    <3>1. Handled(s)
      BY <2>1, <2>2, <2>5 DEF Handled
    <3>2. ~Handled(s)'
      <4> SUFFICES ASSUME NEW t \in Thread, pc'[t] = "group", path'[t] = <<s, s>> PROVE FALSE
        BY DEF Handled
      <4>1. t # u
        BY <2>1
      <4>2. s \in Runs[t]
        BY <4>1, <2>4, Hands
      <4> QED BY <4>1, <4>2, <2>2, <2>5, MonitorAssumption
    <3>3. total_recv'[s] = total_recv[s] + 1
      BY <2>3, <2>5 DEF TypeOK
    <3> QED BY <1>0, <1>a, <2>1, <3>1, <3>2, <3>3 DEF RecvOK, OneOf
  <2>6. CASE s # x
    <3>1. Handled(s)' <=> Handled(s)
      BY <2>1, <2>2, <2>4, <2>6 DEF Handled
    <3>2. total_recv'[s] = total_recv[s]
      BY <2>3, <2>6 DEF TypeOK
    <3> QED BY <1>0, <2>1, <3>1, <3>2 DEF RecvOK, OneOf
  <2> QED BY <2>5, <2>6
<1> QED BY <1>1, <1>2, <1>3, <1>4, <1>5, OtherSteps DEF ThreadStep

\* The sums of a group: what is handled in it is handled by one of its services.
LEMMA GroupSums ==
    ASSUME TypeOK, NEW g \in Group
    PROVE  /\ Total(g) \in Nat /\ Earlier(g) \in Nat
           /\ (\A s \in Service : before[s] <= total_recv[s]) => Earlier(g) <= Total(g)
           /\ total_recv' = total_recv => Total(g)' = Total(g)
           /\ before' = before => Earlier(g)' = Earlier(g)
           /\ \A x \in Service : total_recv' = [total_recv EXCEPT ![x] = @ + 1] =>
                 Total(g)' = Total(g) + (IF GroupOf[x] = g THEN 1 ELSE 0)
<1> DEFINE U == Members(g)
<1>1. U \in SUBSET Service /\ IsFiniteSet(U)
  BY Constants, FS_Subset DEF Members
<1>2. \A y \in U : total_recv[y] \in Nat /\ before[y] \in Nat
  BY <1>1 DEF TypeOK
<1>3. \A x \in Service : x \in U <=> GroupOf[x] = g
  BY DEF Members
<1>4. /\ Total(g) = SumFunctionOnSet(total_recv, U) /\ Earlier(g) = SumFunctionOnSet(before, U)
      /\ Total(g)' = SumFunctionOnSet(total_recv', U) /\ Earlier(g)' = SumFunctionOnSet(before', U)
  BY DEF Total, Earlier, Members
<1> HIDE DEF U
<1>5. SumFunctionOnSet(total_recv, U) \in Nat /\ SumFunctionOnSet(before, U) \in Nat
  BY <1>1, <1>2, SumNat
<1>6. (\A s \in Service : before[s] <= total_recv[s]) =>
         SumFunctionOnSet(before, U) <= SumFunctionOnSet(total_recv, U)
  <2> SUFFICES ASSUME \A s \in Service : before[s] <= total_recv[s]
               PROVE  SumFunctionOnSet(before, U) <= SumFunctionOnSet(total_recv, U)
    OBVIOUS
  <2>1. \A y \in U : before[y] \in Nat /\ total_recv[y] \in Nat /\ before[y] <= total_recv[y]
    BY <1>1, <1>2
  <2> QED BY <1>1, <2>1, SumGrows
<1>7. ASSUME NEW x \in Service, total_recv' = [total_recv EXCEPT ![x] = @ + 1]
      PROVE  SumFunctionOnSet(total_recv', U)
                 = SumFunctionOnSet(total_recv, U) + (IF x \in U THEN 1 ELSE 0)
  <2>1. \A y \in U : /\ total_recv[y] \in Nat
                     /\ total_recv'[y] = total_recv[y] + (IF y = x THEN 1 ELSE 0)
    BY <1>1, <1>2, <1>7 DEF TypeOK
  <2> QED BY <1>1, <2>1, SumAdds
<1> HIDE DEF Total, Earlier
<1> QED BY <1>3, <1>4, <1>5, <1>6, <1>7

\* What a reset has been to holds what came after it began.
LEMMA StepFresh ==
    ASSUME TypeOK, ThreadInv, RecvInv, FreshInv, [Next]_vars
    PROVE  FreshInv'
<1> SUFFICES ASSUME reset' # 0
             PROVE  /\ \A s \in Service : before'[s] <= total_recv'[s]
                    /\ \A i \in DOMAIN Order :
                          i < reset' => flush_recv'[Order[i]] <= received'[Order[i]] - before'[Order[i]]
                    /\ \A g \in Group : Len(Order) + g < reset' => group_time'[g] <= Total(g)' - Earlier(g)'
  BY DEF FreshInv
<1>a. reset # 0 =>
        /\ \A s \in Service : before[s] <= total_recv[s]
        /\ \A i \in DOMAIN Order :
              i < reset => flush_recv[Order[i]] <= received[Order[i]] - before[Order[i]]
        /\ \A g \in Group : Len(Order) + g < reset => group_time[g] <= Total(g) - Earlier(g)
  BY DEF FreshInv
<1>b. /\ reset \in Nat /\ \A g \in Group : group_time[g] \in Nat
      /\ \A s \in Service : /\ before[s] \in Nat /\ total_recv[s] \in Nat /\ received[s] \in Nat
                            /\ flush_recv[s] \in Nat
  BY DEF TypeOK
<1>c. \A s \in Service : total_recv[s] <= received[s]
  <2> TAKE s \in Service
  <2>1. received[s] = total_recv[s] + OneOf(Handled(s))
    BY DEF RecvInv, RecvOK
  <2>2. OneOf(Handled(s)) \in {0, 1}
    BY DEF OneOf
  <2> QED BY <2>1, <2>2, <1>b
<1>d. \A g \in Group : Total(g) \in Nat /\ Earlier(g) \in Nat
  BY GroupSums
<1>e. ASSUME total_recv' = total_recv, before' = before
      PROVE  \A g \in Group : Total(g)' = Total(g) /\ Earlier(g)' = Earlier(g)
  BY <1>e, GroupSums
<1> DEFINE Rest == MonitorInit \/ EafExit \/ TimerFires \/ FlushRequest \/ UNCHANGED vars
                   \/ \E u \in Thread : SendBefore(u) \/ SendStep(u)
<1>1. CASE Rest
  <2>1. UNCHANGED <<reset, before, total_recv, flush_recv, received, group_time>>
    <3>1. CASE MonitorInit \/ EafExit \/ TimerFires \/ FlushRequest \/ UNCHANGED vars
      BY <3>1 DEF MonitorInit, EafExit, TimerFires, FlushRequest, vars, flushVars, countVars,
         threadVars, resetVars
    <3>2. CASE \E u \in Thread : SendBefore(u) \/ SendStep(u)
      BY <3>2 DEF SendBefore, SendStep, Push, FindPath, CountPath, InsertPath, CountFlush, CountTotal,
         countVars, flushVars, resetVars
    <3> QED BY <1>1, <3>1, <3>2
  <2>2. \A g \in Group : Total(g)' = Total(g) /\ Earlier(g)' = Earlier(g)
    BY <2>1, <1>e
  <2> QED BY <1>a, <2>1, <2>2
<1>2. CASE LoadBefore \/ MonitorExit
  BY <1>2, Fresh
<1>3. CASE EndReset
  BY <1>3 DEF EndReset
<1>4. CASE BeginReset
  <2>1. reset' = 1 /\ before' = total_recv /\ total_recv' = total_recv
    BY <1>4 DEF BeginReset, FirstReset, countVars
  <2>2. \A i \in DOMAIN Order : ~(i < 1)
    BY Constants
  <2>3. \A g \in Group : ~(Len(Order) + g < 1)
    BY Constants
  <2> QED BY <1>b, <2>1, <2>2, <2>3
<1>5. CASE ResetRecord
  <2>1. /\ reset \in DOMAIN Order /\ reset' = reset + 1 /\ reset # 0
        /\ flush_recv' = [flush_recv EXCEPT ![Order[reset]] = 0]
        /\ UNCHANGED <<before, total_recv, received, group_time>>
    BY <1>5, Constants DEF ResetRecord, countVars
  <2>2. ASSUME NEW i \in DOMAIN Order, i < reset'
        PROVE  flush_recv'[Order[i]] <= received'[Order[i]] - before'[Order[i]]
    <3> DEFINE x == Order[i]
               y == Order[reset]
    <3>1. x \in Service /\ y \in Service
      BY <2>1, Constants
    <3>2. flush_recv' = [flush_recv EXCEPT ![y] = 0]
      BY <2>1
    <3>3. before[x] <= received[x] /\ before[x] \in Nat /\ received[x] \in Nat
      BY <3>1, <1>a, <1>b, <1>c, <2>1
    <3>4. i < reset \/ i = reset
      BY <2>1, <2>2, Constants
    <3>5. i < reset => flush_recv[x] <= received[x] - before[x]
      BY <1>a, <2>1
    <3>6. i = reset => x = y
      OBVIOUS
    <3>7. DOMAIN flush_recv = Service
      BY DEF TypeOK
    <3> HIDE DEF x, y
    <3>8. flush_recv'[x] = IF x = y THEN 0 ELSE flush_recv[x]
      BY <3>1, <3>2, <3>7
    <3>9. flush_recv'[x] <= received[x] - before[x]
      BY <3>3, <3>4, <3>5, <3>6, <3>8
    <3> QED BY <3>9, <2>1 DEF x
  <2>3. \A g \in Group : ~(Len(Order) + g < reset')
    BY <2>1, Constants
  <2> QED BY <1>a, <2>1, <2>2, <2>3
<1>6. CASE ResetGroup
  <2>1. PICK k \in Group : reset = Len(Order) + k
    BY <1>6, <1>b, Constants DEF ResetGroup
  <2>2. /\ reset' = reset + 1 /\ reset # 0
        /\ UNCHANGED <<before, total_recv, received, flush_recv>>
    BY <1>6, <2>1, Constants DEF ResetGroup, countVars
  <2>3. group_time' = [group_time EXCEPT ![k] = 0]
    <3>1. reset - Len(Order) = k
      BY <2>1, Constants
    <3> QED BY <1>6, <3>1 DEF ResetGroup
  <2>4. \A g \in Group : Total(g)' = Total(g) /\ Earlier(g)' = Earlier(g)
    BY <2>2, <1>e
  <2>5. \A i \in DOMAIN Order : i < reset
    BY <2>1, Constants
  <2>6. ASSUME NEW g \in Group, Len(Order) + g < reset'
        PROVE  group_time'[g] <= Total(g)' - Earlier(g)'
    <3>1. g = k \/ Len(Order) + g < reset
      BY <2>1, <2>2, <2>6, Constants
    <3>2. CASE g = k
      <4>1. group_time'[g] = 0
        BY <3>2, <2>3 DEF TypeOK
      <4>2. Earlier(g) <= Total(g)
        BY <1>a, <2>2, GroupSums
      <4> QED BY <4>1, <4>2, <2>4, <1>d
    <3>3. CASE g # k
      <4>1. group_time'[g] = group_time[g]
        BY <3>3, <2>3 DEF TypeOK
      <4> QED BY <4>1, <3>1, <3>3, <1>a, <2>2, <2>4
    <3> QED BY <3>2, <3>3
  <2> QED BY <1>a, <2>2, <2>5, <2>6
<1>7. ASSUME NEW u \in Thread, HandleAfter(u)
      PROVE  FreshInv'
  <2>1. PICK x \in Runs[u] : /\ received' = [received EXCEPT ![x] = @ + 1]
                             /\ flush_recv' = [flush_recv EXCEPT ![x] = @ + 1]
    BY <1>7 DEF HandleAfter
  <2>2. UNCHANGED <<reset, before, total_recv, group_time>>
    BY <1>7 DEF HandleAfter, countVars, resetVars
  <2>3. \A g \in Group : Total(g)' = Total(g) /\ Earlier(g)' = Earlier(g)
    BY <2>2, <1>e
  <2>4. ASSUME NEW s \in Service
        PROVE  flush_recv[s] <= received[s] - before[s] => flush_recv'[s] <= received'[s] - before[s]
    BY <2>1, <1>b DEF TypeOK
  <2>5. \A i \in DOMAIN Order : Order[i] \in Service
    BY Constants
  <2>6. \A i \in DOMAIN Order :
           i < reset' => flush_recv'[Order[i]] <= received'[Order[i]] - before'[Order[i]]
    BY <1>a, <2>2, <2>4, <2>5
  <2> QED BY <1>a, <2>2, <2>3, <2>6 DEF FreshInv
<1>8. ASSUME NEW u \in Thread, CountGroup(u)
      PROVE  FreshInv'
  <2>1. PICK x \in Service : To(u) = x
    BY <1>8, Hands DEF CountGroup, At
  <2>2. PICK k \in Group : GroupOf[x] = k
    BY Constants
  <2>3. /\ total_recv' = [total_recv EXCEPT ![x] = @ + 1]
        /\ group_time' = [group_time EXCEPT ![k] = @ + 1]
        /\ UNCHANGED <<reset, before, flush_recv, received>>
    BY <1>8, <2>1, <2>2 DEF CountGroup, resetVars
  <2>4. \A s \in Service : before[s] <= total_recv[s] => before[s] <= total_recv'[s]
    BY <2>3, <1>b DEF TypeOK
  <2>5. ASSUME NEW g \in Group, group_time[g] <= Total(g) - Earlier(g)
        PROVE  group_time'[g] <= Total(g)' - Earlier(g)'
    <3>1. group_time'[g] = group_time[g] + (IF g = k THEN 1 ELSE 0)
      BY <2>3, <1>b DEF TypeOK
    <3>2. Total(g)' = Total(g) + (IF k = g THEN 1 ELSE 0) /\ Earlier(g)' = Earlier(g)
      BY <2>2, <2>3, GroupSums
    <3> QED BY <2>5, <3>1, <3>2, <1>b, <1>d
  <2> QED BY <1>a, <2>3, <2>4, <2>5 DEF FreshInv
<1> QED BY <1>1, <1>2, <1>3, <1>4, <1>5, <1>6, <1>7, <1>8
        DEF Next, Main, ThreadStep, ResetStep, FreshInv

\* Every step keeps the invariant.
LEMMA Step == IInv /\ [Next]_vars => IInv'
  BY StepTyped, StepThread, StepPath, StepSend, StepRecv, StepFresh DEF IInv

\* The invariant of the monitor, for all its hooks and its service.
THEOREM Invariance == Spec => []IInv
  BY InitIInv, Step, PTL DEF Spec

-----------------------------------------------------------------------------
\* The properties

\* A set of one element.
LEMMA OnlyOne ==
    ASSUME NEW A, IsFiniteSet(A), Cardinality(A) = 1
    PROVE  \E t \in A : A = {t}
  BY FS_Singleton

\* The part is the set or nothing.
LEMMA PartOfOne ==
    ASSUME NEW t, NEW B \in SUBSET {t}
    PROVE  Cardinality(B) = OneOf(t \in B)
<1>1. CASE t \in B
  <2>1. B = {t}
    BY <1>1
  <2> QED BY <1>1, <2>1, FS_Singleton DEF OneOf
<1>2. CASE t \notin B
  <2>1. B = {}
    BY <1>2
  <2> QED BY <1>2, <2>1, FS_EmptySet DEF OneOf
<1> QED BY <1>1, <1>2

\* The invariant says of counts what the property says of them.
LEMMA InvCounts == IInv => CountsExact
<1> SUFFICES ASSUME IInv PROVE CountsExact
  OBVIOUS
<1>1. PathsExact
  <2> SUFFICES ASSUME NEW p \in Path, Cardinality(Along(p)) = 1
               PROVE  sent[p] = dataflow[p] + Cardinality({t \in Along(p) :
                          path[t] = p /\ pc[t] \in {"find", "count", "insert"}})
    BY DEF PathsExact
  <2>1. IsFiniteSet(Along(p))
    BY MonitorAssumption, FS_Subset DEF Along
  <2>2. PICK t \in Thread : Along(p) = {t}
    BY <2>1, OnlyOne DEF Along
  <2> DEFINE B == {u \in Along(p) : path[u] = p /\ pc[u] \in {"find", "count", "insert"}}
  <2>3. B \in SUBSET {t} /\ (t \in B <=> pc[t] \in Uncounted /\ path[t] = p)
    BY <2>2 DEF Uncounted
  <2>4. PathOK(p, t)
    BY <2>2 DEF IInv, PathInv
  <2> HIDE DEF B
  <2>5. Cardinality(B) = OneOf(t \in B)
    BY <2>3, PartOfOne
  <2>6. sent[p] = dataflow[p] + Cardinality(B)
    BY <2>3, <2>4, <2>5 DEF PathOK, OneOf
  <2> QED BY <2>6 DEF B
<1>2. SendsExact
  <2> SUFFICES ASSUME NEW s \in Service, Cardinality(As(s)) = 1
               PROVE  LET all == SumFunctionOnSet(sent, {p \in Path : p[1] = s})
                          busy(places) == Cardinality({t \in As(s) : pc[t] \in places /\ From(t) = s})
                      IN  /\ all = total_send[s] + busy({"find", "count", "insert", "send", "total"})
                          /\ flush_send[s] <= total_send[s] + busy({"total"})
    BY DEF SendsExact
  <2>1. IsFiniteSet(As(s))
    BY MonitorAssumption, FS_Subset DEF As
  <2>2. PICK t \in Thread : As(s) = {t}
    BY <2>1, OnlyOne DEF As
  <2> DEFINE B == {u \in As(s) : pc[u] \in {"find", "count", "insert", "send", "total"} /\ From(u) = s}
             C == {u \in As(s) : pc[u] \in {"total"} /\ From(u) = s}
  <2>3. /\ B \in SUBSET {t} /\ (t \in B <=> pc[t] \in Uncounted \cup {"send", "total"} /\ From(t) = s)
        /\ C \in SUBSET {t} /\ (t \in C <=> pc[t] \in {"total"} /\ From(t) = s)
    BY <2>2 DEF Uncounted
  <2>4. SendOK(s, t)
    BY <2>2 DEF IInv, SendInv
  <2> HIDE DEF B, C
  <2>5. Cardinality(B) = OneOf(t \in B) /\ Cardinality(C) = OneOf(t \in C)
    BY <2>3, PartOfOne
  <2>6. Sent(s) = total_send[s] + Cardinality(B) /\ flush_send[s] <= total_send[s] + Cardinality(C)
    BY <2>3, <2>4, <2>5 DEF SendOK, OneOf
  <2> QED BY <2>6 DEF B, C, Sent, Out
<1>3. ReceivesExact
  <2> SUFFICES ASSUME NEW s \in Service
               PROVE  LET busy == Cardinality({t \in Thread : pc[t] = "group" /\ To(t) = s})
                      IN  /\ received[s] = total_recv[s] + busy
                          /\ flush_recv[s] <= received[s]
                          /\ flush_time[s] = flush_recv[s]
    BY DEF ReceivesExact
  <2> DEFINE B == {t \in Thread : pc[t] = "group" /\ To(t) = s}
  <2>1. RecvOK(s)
    BY DEF IInv, RecvInv
  <2>2. \A t \in Thread : pc[t] = "group" =>
           \E x \in Service : path[t] = <<x, x>> /\ x \in Runs[t] /\ To(t) = x
    BY Hands DEF IInv
  <2>3. \A t \in B : path[t] = <<s, s>> /\ s \in Runs[t]
    BY <2>2
  <2>4. Handled(s) <=> B # {}
    BY <2>2, <2>3 DEF Handled, To
  <2>5. \A t, u \in B : t = u
    BY <2>3, MonitorAssumption
  <2> HIDE DEF B
  <2>6. Cardinality(B) = OneOf(B # {})
    <3>1. CASE B = {}
      BY <3>1, FS_EmptySet DEF OneOf
    <3>2. CASE B # {}
      <4>1. PICK t : t \in B
        BY <3>2
      <4>2. B = {t}
        BY <4>1, <2>5
      <4> QED BY <4>2, <3>2, FS_Singleton DEF OneOf
    <3> QED BY <3>1, <3>2
  <2>7. received[s] = total_recv[s] + Cardinality(B)
    BY <2>1, <2>4, <2>6 DEF RecvOK, OneOf
  <2> QED BY <2>1, <2>7 DEF RecvOK, B
<1> QED BY <1>1, <1>2, <1>3 DEF CountsExact

\* A message is neither lost to the counters of its receiver, nor to those of its path
\* and its sender where one thread alone sends, nor counted twice, by whatever interleaving of sends, handlers and resets
\* (_monitor_on_message_send_after, _monitor_on_message_handle_after).
THEOREM CountsAreExact == Spec => []CountsExact
  BY Invariance, InvCounts, PTL

\* When a reset ends no reception and no group time holds a message from before it began
\* (_monitor_reset_flush_nolock, while the hooks count on).
THEOREM FlushesAreFresh == Spec => FlushIsFresh
<1> DEFINE Ends ==
             EndReset =>
               /\ \A s \in Service : flush_recv[s] <= received[s] - before[s]
               /\ \A g \in Group : group_time[g] <= SumFunctionOnSet(total_recv, Members(g))
                                                      - SumFunctionOnSet(before, Members(g))
<1>1. ASSUME IInv PROVE Ends
  <2> SUFFICES ASSUME EndReset
               PROVE  /\ \A s \in Service : flush_recv[s] <= received[s] - before[s]
                      /\ \A g \in Group : group_time[g] <= Total(g) - Earlier(g)
    BY DEF Total, Earlier
  <2>1. reset > Len(Order) + Cardinality(Group) /\ reset # 0
    BY Constants DEF EndReset
  <2>2. reset \in Nat
    BY <1>1 DEF IInv, TypeOK
  <2>3. \A i \in DOMAIN Order : i < reset
    BY <2>1, <2>2, Constants
  <2>4. \A g \in Group : Len(Order) + g < reset
    BY <2>1, <2>2, Constants
  <2>5. /\ \A i \in DOMAIN Order : flush_recv[Order[i]] <= received[Order[i]] - before[Order[i]]
        /\ \A g \in Group : group_time[g] <= Total(g) - Earlier(g)
    BY <1>1, <2>1, <2>3, <2>4 DEF IInv, FreshInv
  <2>6. \A s \in Service : \E i \in DOMAIN Order : Order[i] = s
    BY Constants
  <2>7. ASSUME NEW s \in Service PROVE flush_recv[s] <= received[s] - before[s]
    <3>1. PICK i \in DOMAIN Order : Order[i] = s
      BY <2>6
    <3> QED BY <3>1, <2>5
  <2> QED BY <2>5, <2>7
<1>2. Spec => [][Ends]_vars
  BY <1>1, Invariance, PTL
<1> QED BY <1>2 DEF FlushIsFresh
==============================================================================
