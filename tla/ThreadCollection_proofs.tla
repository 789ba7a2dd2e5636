----------------------- MODULE ThreadCollection_proofs -----------------------
(* Proofs about ThreadCollection: a thread that waits has nothing to run,    *)
(* the destructor returns only when every thread has finished, and the       *)
(* collection implements SerialExecutor.                                     *)
EXTENDS ThreadCollection, FiniteSetTheorems, FunctionTheorems, SequenceTheorems, TLAPS

\* What a thread at a point of its loop has.
ThreadOK(i) ==
  /\ rpc[i] \in {"block", "waiting"} => tasks[i] = <<>>
  /\ rpc[i] # "run" => running[i] = NoItem

\* How far the owner has come.
OwnerOK == /\ opc = "gone" => \A i \in Thread : rpc[i] = "done"
           /\ opc = "join" => \A i \in Thread : i < cur => rpc[i] = "done"

Inv == /\ rpc \in [Thread -> ThreadPoints] /\ tasks \in [Thread -> Seq(Item)]
       /\ running \in [Thread -> Item \cup {NoItem}]
       /\ cur \in Thread /\ given \in [Index -> 0..MaxTasks]
       /\ opc \in {"create", "open", "interupt", "notify", "join", "gone"}
       /\ \A i \in Thread : ThreadOK(i)
       /\ OwnerOK

\* The hash of an index is a thread.
LEMMA HashcodeThread == ASSUME NEW k \in Index  PROVE Hashcode(k) \in Thread
  BY SizeAssumption, IndexAssumption DEF Hashcode

LEMMA InvInit == Init => Inv
  BY SizeAssumption, BoundAssumption DEF Init, ThreadInit, Inv, ThreadOK, OwnerOK, ThreadPoints

\* A step of one thread on its own keeps what is known of every thread.
LEMMA RunnerStep ==
  ASSUME Inv, NEW i \in Thread, Runner(i) \/ WakeSpuriously(i), UNCHANGED <<opc, cur, given>>
  PROVE  Inv'
<1> USE DEF Inv, ThreadOK, OwnerOK, ThreadPoints, At
<1>1. CASE TestInterupt(i)
  BY <1>1 DEF TestInterupt
<1>2. CASE EvaluatePredicate(i)
  BY <1>2 DEF EvaluatePredicate
<1>3. CASE Block(i) \/ WakeSpuriously(i)
  BY <1>3 DEF Block, WakeSpuriously
<1>4. CASE TakeTask(i)
  BY <1>4 DEF TakeTask
<1>5. CASE TakeNothing(i)
  BY <1>5 DEF TakeNothing
<1>6. CASE FinishTask(i)
  BY <1>6 DEF FinishTask
<1> QED BY <1>1, <1>2, <1>3, <1>4, <1>5, <1>6 DEF Runner, ThreadStep

\* A notification moves at most the thread it is for, and only off its wait.
LEMMA WokenFacts ==
  ASSUME Inv, NEW i \in Thread
  PROVE  /\ Woken(i) \in [Thread -> ThreadPoints]
         /\ \A j \in Thread : \/ Woken(i)[j] = rpc[j]
                              \/ j = i /\ rpc[j] = "waiting" /\ Woken(i)[j] = "lock"
         /\ Woken(i)[i] # "waiting"
<1>1. rpc \in [Thread -> ThreadPoints]
  BY DEF Inv
<1>2. CASE rpc[i] = "waiting"
  <2>1. Woken(i) = [rpc EXCEPT ![i] = "lock"]
    BY <1>2 DEF Woken
  <2>2. "lock" \in ThreadPoints
    BY DEF ThreadPoints
  <2> HIDE DEF ThreadPoints
  <2>3. /\ Woken(i) \in [Thread -> ThreadPoints] /\ Woken(i)[i] = "lock"
        /\ \A j \in Thread : j # i => Woken(i)[j] = rpc[j]
    BY <1>1, <2>1, <2>2
  <2> QED BY <1>2, <2>3
<1>3. CASE rpc[i] # "waiting"
  <2>1. Woken(i) = rpc
    BY <1>3 DEF Woken
  <2> QED BY <1>1, <1>3, <2>1
<1> QED BY <1>2, <1>3

LEMMA InvStep == Inv /\ [Next]_vars => Inv'
<1> SUFFICES ASSUME Inv, [Next]_vars  PROVE Inv'
  OBVIOUS
<1> USE SizeAssumption DEF Inv, ThreadOK, OwnerOK, ThreadPoints
<1>1. CASE CreateThread
  BY <1>1 DEF CreateThread, StartThread, At
<1>2. ASSUME NEW k \in Index, Dispatch(k)  PROVE Inv'
  <2>1. Hashcode(k) \in Thread
    BY HashcodeThread
  <2>2. given'[k] \in 1..MaxTasks /\ given' \in [Index -> 0..MaxTasks]
    BY <1>2, BoundAssumption DEF Dispatch
  <2>3. <<k, given'[k]>> \in Item
    BY <2>2, TaskAssumption
  <2> DEFINE i == Hashcode(k)
  <2>4. /\ rpc[i] \notin {"block", "take"} /\ rpc' = Woken(i)
        /\ tasks' = [tasks EXCEPT ![i] = Append(@, <<k, given'[k]>>)]
        /\ running' = running /\ opc = "open" /\ opc' = opc /\ cur' = cur
    BY <1>2 DEF Dispatch, AddTask, Locked
  <2> HIDE DEF i
  <2>5. i \in Thread
    BY <2>1 DEF i
  <2>6. tasks' \in [Thread -> Seq(Item)] /\ \A j \in Thread : j # i => tasks'[j] = tasks[j]
    BY <2>3, <2>4, <2>5
  <2>woken. /\ Woken(i) \in [Thread -> ThreadPoints] /\ Woken(i)[i] # "waiting"
            /\ \A j \in Thread : \/ Woken(i)[j] = rpc[j]
                                 \/ rpc[j] = "waiting" /\ j = i /\ Woken(i)[j] = "lock"
    BY ONLY <2>5, Inv, WokenFacts
  <2>7. rpc' \in [Thread -> ThreadPoints] /\ rpc'[i] \notin {"block", "waiting"}
    BY ONLY <2>4, <2>5, <2>woken
  <2>8. \A j \in Thread : \/ rpc'[j] = rpc[j]
                          \/ rpc[j] = "waiting" /\ j = i /\ rpc'[j] = "lock"
    BY ONLY <2>4, <2>woken
  <2>9. \A j \in Thread : ThreadOK(j)'
    <3> TAKE j \in Thread
    <3>1. CASE j = i
      BY <2>4, <2>7, <2>8, <3>1
    <3>2. CASE j # i
      BY <2>4, <2>6, <2>8, <3>2
    <3> QED BY <3>1, <3>2
  <2> QED BY <2>2, <2>4, <2>6, <2>7, <2>9
<1>3. CASE Destroy
  BY <1>3 DEF Destroy, threadVars
<1>4. CASE DestroyInterupts
  BY <1>4 DEF DestroyInterupts, SetInterupt
<1>5. CASE DestroyNotifies
  <2>1. /\ rpc' = Woken(cur) /\ UNCHANGED <<tasks, running, given>>
        /\ opc' \in {"join", "interupt"} /\ cur' \in Thread /\ (opc' = "join" => cur' = 0)
    BY <1>5 DEF DestroyNotifies, Notify
  <2>2. \A j \in Thread : ThreadOK(j)'
    BY <2>1, WokenFacts
  <2> QED BY <2>1, <2>2, WokenFacts
<1>6. CASE DestroyJoins
  BY <1>6 DEF DestroyJoins, Joined, threadVars
<1>7. ASSUME NEW i \in Thread, Runner(i) \/ WakeSpuriously(i), UNCHANGED <<opc, cur, given>>
      PROVE  Inv'
  BY <1>7, RunnerStep
<1>8. CASE UNCHANGED vars
  BY <1>8 DEF vars, threadVars
<1> QED BY <1>1, <1>2, <1>3, <1>4, <1>5, <1>6, <1>7, <1>8 DEF Next, Owner

\* A thread the destructor failed to wake has nothing left to do: what can be
\* lost is the notification, never a task that was dispatched.
THEOREM MissedThreadIsIdle == Spec => []MissedIdle
<1>1. Inv => MissedIdle
  BY DEF Inv, ThreadOK, MissedIdle, Missed
<1> QED BY <1>1, InvInit, InvStep, PTL DEF Spec

\* When the destructor returns, every thread has ended its loop and the task
\* it was running.
THEOREM GoneAfterAllTasks == Spec => []GoneAfterTasks
<1>1. Inv => GoneAfterTasks
  BY DEF Inv, ThreadOK, OwnerOK, GoneAfterTasks
<1> QED BY <1>1, InvInit, InvStep, PTL DEF Spec

-----------------------------------------------------------------------------
\* The tasks of an index that wait are those after the b-th, each once and in
\* the order of the list.
Ranked(k, b) ==
  LET s == tasks[Hashcode(k)] IN
  /\ \A p \in DOMAIN s : s[p][1] = k => s[p][2] \in b + 1 .. given[k]
  /\ \A n \in b + 1 .. given[k] : \E p \in DOMAIN s : s[p] = <<k, n>>
  /\ \A p, q \in DOMAIN s : p < q /\ s[p][1] = k /\ s[q][1] = k => s[p][2] < s[q][2]

OrderInv == \A k \in Index : \E b \in 0 .. given[k] : Ranked(k, b)

LEMMA OrderInvInit == Init => OrderInv
<1> SUFFICES ASSUME Init, NEW k \in Index  PROVE Ranked(k, 0)
  BY DEF OrderInv, Init
<1>1. Hashcode(k) \in Thread
  BY HashcodeThread
<1>2. tasks[Hashcode(k)] = <<>> /\ given[k] = 0
  BY <1>1 DEF Init, ThreadInit
<1> QED BY <1>2 DEF Ranked

\* A set numbered from lo to hi has so many members.
LEMMA CountByRank ==
  ASSUME NEW Q, NEW lo \in Int, NEW hi \in Int, lo <= hi + 1, NEW r \in [Q -> lo .. hi],
         \A p, q \in Q : r[p] = r[q] => p = q,
         \A n \in lo .. hi : \E q \in Q : r[q] = n
  PROVE  Cardinality(Q) = hi - lo + 1
<1>1. IsFiniteSet(lo .. hi) /\ Cardinality(lo .. hi) = hi - lo + 1
  BY FS_Interval
<1>2. r \in Bijection(Q, lo .. hi)
  <2>1. r \in Injection(Q, lo .. hi)
    BY Zenon DEF Injection, IsInjective
  <2>2. r \in Surjection(Q, lo .. hi)
    BY Zenon DEF Surjection
  <2> QED BY <2>1, <2>2 DEF Bijection
<1>3. ExistsBijection(lo .. hi, Q)
  BY <1>2, Fun_ExistsBijSymmetric DEF ExistsBijection
<1> QED BY <1>1, <1>3, FS_Bijection

\* The tasks of an index are then known from the rank of the first.
OfIndexKnown ==
  \A k \in Index : \A b \in 0 .. given[k] :
    Ranked(k, b) => OfIndex(k) = [j \in 1 .. given[k] - b |-> <<k, b + j>>]

LEMMA OfIndexIs == Inv => OfIndexKnown
<1> SUFFICES ASSUME Inv, NEW k \in Index, NEW b \in 0 .. given[k], Ranked(k, b)
             PROVE  OfIndex(k) = [j \in 1 .. given[k] - b |-> <<k, b + j>>]
  BY DEF OfIndexKnown
<1> DEFINE s == tasks[Hashcode(k)]  g == given[k]
           Rank == [p \in Places(k) |-> s[p][2]]
<1>1. s \in Seq(Item) /\ g \in Nat /\ b \in Nat /\ b <= g
  <2>1. Hashcode(k) \in Thread
    BY HashcodeThread
  <2>2. given \in [Index -> 0 .. MaxTasks]
    BY DEF Inv
  <2> QED BY <2>1, <2>2, BoundAssumption DEF Inv
<1>2. /\ \A p \in Places(k) : p \in DOMAIN s /\ s[p] = <<k, s[p][2]>> /\ s[p][2] \in b + 1 .. g
      /\ \A n \in b + 1 .. g : \E p \in Places(k) : s[p] = <<k, n>>
      /\ \A p, q \in Places(k) : p < q => s[p][2] < s[q][2]
      /\ Places(k) \subseteq 1 .. Len(s) /\ Len(s) \in Nat
  <2>1. \A p \in DOMAIN s : s[p] = <<s[p][1], s[p][2]>>
    BY <1>1, TaskAssumption
  <2>2. Places(k) = {p \in DOMAIN s : s[p][1] = k}
    BY DEF Places
  <2>3. DOMAIN s = 1 .. Len(s) /\ Len(s) \in Nat
    BY <1>1
  <2>4. \A n \in b + 1 .. g : \E p \in DOMAIN s : s[p] = <<k, n>>
    BY DEF Ranked
  <2>5. \A n \in b + 1 .. g : \E p \in Places(k) : s[p] = <<k, n>>
    BY <2>2, <2>4
  <2>6. \A p \in DOMAIN s : s[p][1] = k => s[p][2] \in b + 1 .. g
    BY DEF Ranked
  <2>7. \A p, q \in DOMAIN s : p < q /\ s[p][1] = k /\ s[q][1] = k => s[p][2] < s[q][2]
    BY DEF Ranked
  <2> HIDE DEF s, g
  <2> QED BY <2>1, <2>2, <2>3, <2>5, <2>6, <2>7
<1> HIDE DEF s, g
<1>7. \A q, r \in Places(k) : s[q][2] = s[r][2] => q = r
  <2> TAKE q, r \in Places(k)
  <2>1. q \in Int /\ r \in Int /\ s[q][2] \in Int /\ s[r][2] \in Int
    BY <1>1, <1>2
  <2>2. (q < r => s[q][2] < s[r][2]) /\ (r < q => s[r][2] < s[q][2])
    BY <1>2
  <2> QED BY <2>1, <2>2
\* The places before one are as many as the ranks before its own.
<1>3. ASSUME NEW p \in Places(k)
      PROVE  Before(k, p) = s[p][2] - (b + 1)
  <2> DEFINE Q == {q \in Places(k) : q < p}  R == b + 1 .. s[p][2] - 1
             f == [q \in Q |-> s[q][2]]
  <2>1. s[p][2] \in b + 1 .. g
    BY <1>2
  <2>3. \A q \in Places(k) : q \in Q <=> s[q][2] \in R
    <3> TAKE q \in Places(k)
    <3>1. q \in Int /\ p \in Int /\ s[q][2] \in b + 1 .. g
      BY <1>2
    <3>2. q < p => s[q][2] < s[p][2]
      BY <1>2
    <3>3. p < q => s[p][2] < s[q][2]
      BY <1>2
    <3>4. q = p => s[q][2] = s[p][2]
      OBVIOUS
    <3> QED BY <1>1, <2>1, <3>1, <3>2, <3>3, <3>4
  <2>4. f \in [Q -> R] /\ \A q, r \in Q : f[q] = f[r] => q = r
    BY <1>7, <2>3
  <2>5. \A n \in R : \E q \in Q : f[q] = n
    <3> TAKE n \in R
    <3>1. n \in b + 1 .. g
      BY <1>1, <2>1
    <3>2. PICK q \in Places(k) : s[q] = <<k, n>>
      BY <1>2, <3>1
    <3>3. s[q][2] = n /\ q \in Q
      BY <2>3, <3>2
    <3> QED BY <3>3
  <2>6. b + 1 \in Int /\ s[p][2] - 1 \in Int /\ b + 1 <= s[p][2] - 1 + 1
    BY <1>1, <2>1
  <2> HIDE DEF Q, R, f
  <2>7. Cardinality(Q) = (s[p][2] - 1) - (b + 1) + 1
    <3>1. f \in [Q -> b + 1 .. s[p][2] - 1] /\ \A n \in b + 1 .. s[p][2] - 1 : \E q \in Q : f[q] = n
      BY <2>4, <2>5 DEF R
    <3> QED BY <2>4, <2>6, <3>1, CountByRank
  <2> QED BY <1>1, <2>1, <2>7 DEF Before, Q
<1>4. Cardinality(Places(k)) = g - b
  <2> DEFINE f == [p \in Places(k) |-> s[p][2]]
  <2>1. f \in [Places(k) -> b + 1 .. g] /\ \A q, r \in Places(k) : f[q] = f[r] => q = r
    BY <1>2, <1>7
  <2>2. \A n \in b + 1 .. g : \E q \in Places(k) : f[q] = n
    <3> TAKE n \in b + 1 .. g
    <3>1. PICK q \in Places(k) : s[q] = <<k, n>>
      BY <1>2
    <3> QED BY <3>1
  <2>3. b + 1 \in Int /\ g \in Int /\ b + 1 <= g + 1
    BY <1>1
  <2> HIDE DEF f
  <2>4. Cardinality(Places(k)) = g - (b + 1) + 1
    BY <2>1, <2>2, <2>3, CountByRank
  <2> QED BY <1>1, <2>4
<1>5. ASSUME NEW j \in 1 .. g - b
      PROVE  s[CHOOSE p \in Places(k) : Before(k, p) = j - 1] = <<k, b + j>>
  <2>1. b + j \in b + 1 .. g
    BY <1>1
  <2>2. PICK p \in Places(k) : s[p] = <<k, b + j>>
    BY <1>2, <2>1
  <2>3. Before(k, p) = j - 1
    <3>1. Before(k, p) = (b + j) - (b + 1)
      BY <1>3, <2>2
    <3> QED BY <1>1, <3>1
  <2> DEFINE c == CHOOSE q \in Places(k) : Before(k, q) = j - 1
  <2>4. c \in Places(k) /\ Before(k, c) = j - 1
    BY <2>3
  <2> HIDE DEF c
  <2>5. s[c][2] - (b + 1) = j - 1 /\ s[c][2] \in b + 1 .. g
    BY <1>2, <1>3, <2>4
  <2>6. s[c][2] = b + j
    BY <1>1, <2>5
  <2>7. s[c] = <<k, b + j>>
    BY <1>2, <2>4, <2>6
  <2> QED BY <2>7 DEF c
<1>6. OfIndex(k) = [j \in 1 .. g - b |-> s[CHOOSE p \in Places(k) : Before(k, p) = j - 1]]
  BY <1>4 DEF OfIndex, s
<1> QED BY <1>5, <1>6 DEF g

-----------------------------------------------------------------------------
\* What a list that grows at its end, or shrinks at its start, has where.
LEMMA AppendPlaces ==
  ASSUME NEW S, NEW s \in Seq(S), NEW t \in S
  PROVE  /\ Append(s, t) \in Seq(S) /\ Len(s) \in Nat /\ DOMAIN s = 1 .. Len(s)
         /\ DOMAIN Append(s, t) = 1 .. Len(s) + 1
         /\ \A p \in 1 .. Len(s) : Append(s, t)[p] = s[p]
         /\ Append(s, t)[Len(s) + 1] = t
  OBVIOUS

LEMMA FunctionIsSequence ==
  ASSUME NEW S, NEW n \in Nat, NEW s \in [1 .. n -> S]  PROVE s \in Seq(S) /\ Len(s) = n
  OBVIOUS

LEMMA TailPlaces ==
  ASSUME NEW S, NEW s \in Seq(S), s # <<>>
  PROVE  /\ Tail(s) \in Seq(S) /\ Len(s) \in Nat \ {0} /\ DOMAIN s = 1 .. Len(s)
         /\ DOMAIN Tail(s) = 1 .. Len(s) - 1
         /\ \A p \in 1 .. Len(s) - 1 : Tail(s)[p] = s[p + 1]
         /\ Head(s) = s[1]
  OBVIOUS

\* A task that is dispatched is the last of its index.
LEMMA DispatchRanked ==
  ASSUME Inv, NEW k \in Index, Dispatch(k), NEW l \in Index, NEW b \in 0 .. given[l], Ranked(l, b)
  PROVE  b \in 0 .. given'[l] /\ Ranked(l, b)'
<1> DEFINE s == tasks[Hashcode(l)]  g == given[l]
<1>1. s \in Seq(Item) /\ g \in Nat /\ b \in Nat /\ b <= g /\ given \in [Index -> 0 .. MaxTasks]
      /\ Hashcode(k) \in Thread /\ Hashcode(l) \in Thread /\ tasks \in [Thread -> Seq(Item)]
  BY HashcodeThread, BoundAssumption DEF Inv
<1>2. /\ \A p \in DOMAIN s : s[p][1] = l => s[p][2] \in b + 1 .. g
      /\ \A n \in b + 1 .. g : \E p \in DOMAIN s : s[p] = <<l, n>>
      /\ \A p, q \in DOMAIN s : p < q /\ s[p][1] = l /\ s[q][1] = l => s[p][2] < s[q][2]
  BY DEF Ranked
<1>3. /\ given' = [given EXCEPT ![k] = @ + 1] /\ given[k] < MaxTasks
      /\ tasks' = [tasks EXCEPT ![Hashcode(k)] = Append(@, <<k, given'[k]>>)]
  BY DEF Dispatch, AddTask
<1>4. given'[k] = given[k] + 1 /\ (l # k => given'[l] = g) /\ <<k, given[k] + 1>> \in Item
  <2>1. given'[k] = given[k] + 1 /\ (l # k => given'[l] = g)
    BY <1>1, <1>3
  <2>2. given[k] + 1 \in 1 .. MaxTasks
    BY <1>1, <1>3, BoundAssumption
  <2> QED BY <2>1, <2>2, TaskAssumption
<1>5. b \in 0 .. given'[l]
  BY <1>1, <1>4
<1> DEFINE t == <<k, given[k] + 1>>
<1>6. tasks'[Hashcode(l)] = IF Hashcode(l) = Hashcode(k) THEN Append(s, t) ELSE s
  BY <1>1, <1>3, <1>4
<1>7. CASE Hashcode(l) # Hashcode(k)
  <2>1. tasks'[Hashcode(l)] = s /\ given'[l] = g
    BY <1>4, <1>6, <1>7
  <2>2. Hashcode(l)' = Hashcode(l)
    BY DEF Hashcode
  <2> QED BY <1>2, <1>5, <2>1, <2>2 DEF Ranked
<1>8. CASE Hashcode(l) = Hashcode(k)
  <2> DEFINE u == Append(s, t)
  <2>1. tasks'[Hashcode(l)] = u
    BY <1>6, <1>8
  <2>2. /\ Len(s) \in Nat /\ DOMAIN s = 1 .. Len(s) /\ DOMAIN u = 1 .. Len(s) + 1
        /\ \A p \in 1 .. Len(s) : u[p] = s[p]
        /\ u[Len(s) + 1] = t
    BY <1>1, <1>4, AppendPlaces
  <2>3. given'[l] = IF l = k THEN g + 1 ELSE g
    BY <1>4
  <2>4. t[1] = k /\ t[2] = given[k] + 1 /\ (l = k => t = <<l, g + 1>>)
    OBVIOUS
  <2> HIDE DEF u, s, g, t
  <2>5. \A p \in DOMAIN u : p = Len(s) + 1 \/ (p \in DOMAIN s /\ u[p] = s[p])
    <3> TAKE p \in DOMAIN u
    <3>1. p = Len(s) + 1 \/ p \in 1 .. Len(s)
      BY <2>2
    <3> QED BY <2>2, <3>1
  <2>6. ASSUME NEW p \in DOMAIN u, u[p][1] = l  PROVE u[p][2] \in b + 1 .. given'[l]
    <3>1. CASE p = Len(s) + 1
      <4>1. u[p] = t /\ l = k
        BY <2>2, <2>4, <2>6, <3>1
      <4>2. u[p] = <<l, g + 1>> /\ given'[l] = g + 1
        BY <2>3, <2>4, <4>1
      <4>3. u[p][2] = g + 1
        BY <4>2
      <4> QED BY <1>1, <4>2, <4>3
    <3>2. CASE p \in DOMAIN s /\ u[p] = s[p]
      BY <1>1, <1>2, <2>3, <2>6, <3>2
    <3> QED BY <2>5, <3>1, <3>2
  <2>7. ASSUME NEW n \in b + 1 .. given'[l]  PROVE \E p \in DOMAIN u : u[p] = <<l, n>>
    <3>1. CASE n \in b + 1 .. g
      <4>1. PICK p \in DOMAIN s : s[p] = <<l, n>>
        BY <1>2, <3>1
      <4>2. p \in DOMAIN u /\ u[p] = s[p]
        BY <2>2
      <4> QED BY <4>1, <4>2
    <3>2. CASE n \notin b + 1 .. g
      <4>1. l = k /\ n = g + 1
        BY <1>1, <2>3, <3>2
      <4> QED BY <2>2, <2>4, <4>1
    <3> QED BY <3>1, <3>2
  <2>8. ASSUME NEW p \in DOMAIN u, NEW q \in DOMAIN u, p < q, u[p][1] = l, u[q][1] = l
        PROVE  u[p][2] < u[q][2]
    <3>1. p \in DOMAIN s /\ u[p] = s[p]
      BY <2>2, <2>5, <2>8
    <3>2. CASE q \in DOMAIN s /\ u[q] = s[q]
      BY <1>2, <2>8, <3>1, <3>2
    <3>3. CASE q = Len(s) + 1
      BY <1>1, <1>2, <2>2, <2>4, <2>8, <3>1, <3>3 DEF g
    <3> QED BY <2>5, <3>2, <3>3
  <2>9. Hashcode(l)' = Hashcode(l)
    BY DEF Hashcode
  <2> QED BY <1>5, <2>1, <2>6, <2>7, <2>8, <2>9 DEF Ranked
<1> QED BY <1>7, <1>8

\* The task that is taken is the first of its index.
LEMMA TakeRanked ==
  ASSUME Inv, NEW i \in Thread, TakeTask(i), UNCHANGED given,
         NEW l \in Index, NEW b \in 0 .. given[l], Ranked(l, b)
  PROVE  IF Hashcode(l) = i /\ Head(tasks[i])[1] = l
         THEN b < given[l] /\ Head(tasks[i]) = <<l, b + 1>> /\ Ranked(l, b + 1)'
         ELSE Ranked(l, b)'
<1> DEFINE s == tasks[Hashcode(l)]  g == given[l]  u == Tail(s)
<1>1. s \in Seq(Item) /\ g \in Nat /\ b \in Nat /\ b <= g
      /\ Hashcode(l) \in Thread /\ tasks \in [Thread -> Seq(Item)]
  BY HashcodeThread, BoundAssumption DEF Inv
<1>2. /\ \A p \in DOMAIN s : s[p][1] = l => s[p][2] \in b + 1 .. g
      /\ \A n \in b + 1 .. g : \E p \in DOMAIN s : s[p] = <<l, n>>
      /\ \A p, q \in DOMAIN s : p < q /\ s[p][1] = l /\ s[q][1] = l => s[p][2] < s[q][2]
  BY DEF Ranked
<1>3. tasks[i] # <<>> /\ tasks' = [tasks EXCEPT ![i] = Tail(@)] /\ Hashcode(l)' = Hashcode(l)
  BY DEF TakeTask, Hashcode
<1>4. CASE Hashcode(l) # i
  <2>1. tasks'[Hashcode(l)] = s
    BY <1>1, <1>3, <1>4
  <2> QED BY <1>2, <1>3, <1>4, <2>1 DEF Ranked
<1>5. CASE Hashcode(l) = i
  <2>1. tasks'[Hashcode(l)] = u
    BY <1>1, <1>3, <1>5
  <2>2. /\ Len(s) \in Nat \ {0} /\ DOMAIN s = 1 .. Len(s) /\ DOMAIN u = 1 .. Len(s) - 1
        /\ \A p \in 1 .. Len(s) - 1 : u[p] = s[p + 1]
        /\ Head(s) = s[1]
    BY <1>1, <1>3, <1>5, TailPlaces
  <2>3. s[1] \in Index \X (1 .. MaxTasks)
    BY <1>1, <2>2, TaskAssumption
  <2>4. s[1] = <<s[1][1], s[1][2]>>
    BY <2>3
  <2> HIDE DEF u, s, g
  <2>5. \A p \in DOMAIN u : p + 1 \in DOMAIN s /\ u[p] = s[p + 1]
    BY <2>2
  <2>6. \A p \in DOMAIN s : p = 1 \/ (p - 1 \in DOMAIN u /\ u[p - 1] = s[p])
    <3> TAKE p \in DOMAIN s
    <3>1. p \in Int /\ (p # 1 => p - 1 \in 1 .. Len(s) - 1 /\ (p - 1) + 1 = p)
      BY <2>2
    <3>2. \A q \in 1 .. Len(s) - 1 : q \in DOMAIN u /\ u[q] = s[q + 1]
      BY <2>2
    <3>3. CASE p # 1
      <4>1. u[p - 1] = s[(p - 1) + 1] /\ p - 1 \in DOMAIN u
        BY <3>1, <3>2, <3>3
      <4> QED BY <3>1, <3>3, <4>1
    <3> QED BY <3>3
  <2>7. \A p, q \in DOMAIN u : p < q /\ u[p][1] = l /\ u[q][1] = l => u[p][2] < u[q][2]
    <3> TAKE p, q \in DOMAIN u
    <3>1. p < q => p + 1 < q + 1
      BY <2>2
    <3> QED BY <1>2, <2>5, <3>1
  <2>8. CASE s[1][1] = l
    <3>1. s[1][2] \in b + 1 .. g
      BY <1>2, <2>2, <2>8
    <3>2. s[1][2] = b + 1
      <4>1. b + 1 \in b + 1 .. g
        BY <1>1, <3>1
      <4>2. PICK p \in DOMAIN s : s[p] = <<l, b + 1>>
        BY <1>2, <4>1
      <4>3. p # 1 => 1 < p /\ 1 \in DOMAIN s
        BY <2>2
      <4>4. p # 1 => s[1][2] < b + 1
        BY <1>2, <2>8, <4>2, <4>3
      <4> QED BY <1>1, <3>1, <4>2, <4>4
    <3>3. b < g /\ s[1] = <<l, b + 1>>
      BY <1>1, <2>4, <2>8, <3>1, <3>2
    <3>4. ASSUME NEW p \in DOMAIN u, u[p][1] = l  PROVE u[p][2] \in (b + 1) + 1 .. g
      <4>1. p + 1 \in DOMAIN s /\ u[p] = s[p + 1] /\ 1 < p + 1 /\ 1 \in DOMAIN s
        BY <2>2, <2>5
      <4>2. s[p + 1][2] \in b + 1 .. g /\ s[1][2] < s[p + 1][2]
        BY <1>2, <2>8, <3>4, <4>1
      <4> QED BY <1>1, <3>2, <4>1, <4>2
    <3>5. ASSUME NEW n \in (b + 1) + 1 .. g  PROVE \E p \in DOMAIN u : u[p] = <<l, n>>
      <4>1. n \in b + 1 .. g /\ n # b + 1
        BY <1>1
      <4>2. PICK p \in DOMAIN s : s[p] = <<l, n>>
        BY <1>2, <4>1
      <4>3. p # 1
        BY <3>2, <4>1, <4>2
      <4> QED BY <2>6, <4>2, <4>3
    <3>6. Ranked(l, b + 1)'
      BY <1>3, <2>1, <2>7, <3>4, <3>5 DEF Ranked, g
    <3> QED BY <1>5, <2>2, <2>8, <3>3, <3>6 DEF s, g
  <2>9. CASE s[1][1] # l
    <3>1. ASSUME NEW p \in DOMAIN u, u[p][1] = l  PROVE u[p][2] \in b + 1 .. g
      BY <1>2, <2>5, <3>1
    <3>2. ASSUME NEW n \in b + 1 .. g  PROVE \E p \in DOMAIN u : u[p] = <<l, n>>
      <4>1. PICK p \in DOMAIN s : s[p] = <<l, n>>
        BY <1>2
      <4>2. p # 1
        BY <2>9, <4>1
      <4> QED BY <2>6, <4>1, <4>2
    <3>3. Ranked(l, b)'
      BY <1>3, <2>1, <2>7, <3>1, <3>2 DEF Ranked, g
    <3> QED BY <1>5, <2>2, <2>9, <3>3 DEF s
  <2> QED BY <2>8, <2>9
<1> QED BY <1>4, <1>5

LEMMA OfIndexIsNext == Inv' => OfIndexKnown'
  BY OfIndexIs, PTL

\* What the abstract executor is told of.
Pending == [k \in Index |-> OfIndex(k)]
Active  == [k \in Index |-> RunningOf(k)]

\* The steps in which no task changes hands.
Idles == UNCHANGED <<tasks, running, given>>

LEMMA NextCases ==
  ASSUME [Next]_vars
  PROVE  \/ Idles
         \/ \E k \in Index : Dispatch(k)
         \/ \E i \in Thread : (TakeTask(i) \/ FinishTask(i)) /\ UNCHANGED given
<1>1. CASE Owner \/ Destroy \/ UNCHANGED vars
  BY <1>1 DEF Owner, CreateThread, StartThread, DestroyInterupts, SetInterupt, DestroyNotifies,
              Notify, DestroyJoins, Destroy, Idles, vars, threadVars
<1>2. ASSUME NEW i \in Thread, Runner(i) \/ WakeSpuriously(i), UNCHANGED <<opc, cur, given>>
      PROVE  Idles \/ TakeTask(i) \/ FinishTask(i)
  BY <1>2 DEF Runner, ThreadStep, WakeSpuriously, TestInterupt, EvaluatePredicate, Block, TakeNothing, Idles
<1> QED BY <1>1, <1>2 DEF Next

LEMMA OrderInvStep == Inv /\ OrderInv /\ [Next]_vars => OrderInv'
<1> SUFFICES ASSUME Inv, OrderInv, [Next]_vars, NEW l \in Index
             PROVE  \E b \in 0 .. given'[l] : Ranked(l, b)'
  BY DEF OrderInv
<1>1. PICK b \in 0 .. given[l] : Ranked(l, b)
  BY DEF OrderInv
<1>2. given[l] \in Nat
  BY BoundAssumption DEF Inv
<1>4. CASE UNCHANGED <<tasks, given>>
  <2>1. Ranked(l, b)'
    BY <1>1, <1>4 DEF Ranked, Hashcode
  <2> QED BY <1>4, <2>1
<1>5. ASSUME NEW k \in Index, Dispatch(k)  PROVE \E c \in 0 .. given'[l] : Ranked(l, c)'
  BY <1>1, <1>5, DispatchRanked
<1>6. ASSUME NEW i \in Thread, TakeTask(i), UNCHANGED given
      PROVE  \E c \in 0 .. given'[l] : Ranked(l, c)'
  <2>1. \/ b < given[l] /\ Ranked(l, b + 1)'
        \/ Ranked(l, b)'
    BY <1>1, <1>6, TakeRanked
  <2>2. b < given[l] => b + 1 \in 0 .. given[l]
    BY <1>2
  <2> QED BY <1>6, <2>1, <2>2
<1>7. ASSUME NEW i \in Thread, FinishTask(i), UNCHANGED given
      PROVE  UNCHANGED <<tasks, given>>
  BY <1>7 DEF FinishTask
<1> QED BY <1>4, <1>5, <1>6, <1>7, NextCases DEF Idles

LEMMA RefinesInit == Init => Serial!Init
<1> SUFFICES ASSUME Init  PROVE Serial!Init
  OBVIOUS
<1>1. Inv
  BY InvInit
<1>2. ASSUME NEW k \in Index  PROVE OfIndex(k) = <<>> /\ RunningOf(k) = NoItem
  <2>1. Hashcode(k) \in Thread
    BY HashcodeThread
  <2>2. tasks[Hashcode(k)] = <<>> /\ running[Hashcode(k)] = NoItem
    BY <2>1 DEF Init, ThreadInit
  <2>3. Places(k) = {}
    BY <2>2 DEF Places
  <2>4. Cardinality(Places(k)) = 0
    BY <2>3, FS_EmptySet
  <2>5. OfIndex(k) = <<>>
    BY <2>4 DEF OfIndex
  <2> QED BY <2>2, <2>5 DEF RunningOf
<1> QED BY <1>2 DEF Serial!Init

\* A dispatch is one of the index.
LEMMA RefinesDispatch ==
  ASSUME Inv, Inv', OrderInv, NEW k \in Index, Dispatch(k)
  PROVE  Pending' = [Pending EXCEPT ![k] = Append(@, <<k, given'[k]>>)]
         /\ UNCHANGED Active /\ <<k, given'[k]>> \in Item
<1>1. given' = [given EXCEPT ![k] = @ + 1] /\ UNCHANGED running /\ given[k] < MaxTasks
      /\ given \in [Index -> 0 .. MaxTasks]
  BY DEF Dispatch, AddTask, Inv
<1>2. given'[k] = given[k] + 1 /\ given[k] \in Nat /\ \A l \in Index \ {k} : given'[l] = given[l]
  BY <1>1, BoundAssumption
<1>3. <<k, given'[k]>> \in Item
  BY <1>1, <1>2, BoundAssumption, TaskAssumption
<1>4. UNCHANGED Active
  BY <1>1 DEF Active, RunningOf, Hashcode
<1>5. ASSUME NEW l \in Index
      PROVE  OfIndex(l)' = IF l = k THEN Append(OfIndex(l), <<k, given'[k]>>) ELSE OfIndex(l)
  <2>1. PICK b \in 0 .. given[l] : Ranked(l, b)
    BY DEF OrderInv
  <2>2. b \in 0 .. given'[l] /\ Ranked(l, b)'
    BY <2>1, DispatchRanked
  <2>3. OfIndex(l) = [j \in 1 .. given[l] - b |-> <<l, b + j>>]
    BY <2>1, OfIndexIs DEF OfIndexKnown
  <2>4. OfIndex(l)' = [j \in 1 .. given'[l] - b |-> <<l, b + j>>]
    BY <2>2, OfIndexIsNext DEF OfIndexKnown
  <2>5. CASE l # k
    BY <1>2, <2>3, <2>4, <2>5
  <2>6. CASE l = k
    <3> DEFINE n == given[k] - b
    <3>1. n \in Nat /\ given'[k] - b = n + 1 /\ b \in Nat /\ given'[k] = b + (n + 1)
      BY <1>2, <2>1, <2>6
    <3> HIDE DEF n
    <3>2. [j \in 1 .. n + 1 |-> <<k, b + j>>] = Append([j \in 1 .. n |-> <<k, b + j>>], <<k, b + (n + 1)>>)
      BY <3>1
    <3> QED BY <2>3, <2>4, <2>6, <3>1, <3>2 DEF n
  <2> QED BY <2>5, <2>6
<1>6. Pending' = [l \in Index |-> IF l = k THEN Append(OfIndex(l), <<k, given'[k]>>) ELSE OfIndex(l)]
  BY <1>5 DEF Pending
<1> QED BY <1>3, <1>4, <1>6 DEF Pending

\* A task that is taken is the first of its index, of which none was running.
LEMMA RefinesTake ==
  ASSUME Inv, Inv', OrderInv, NEW i \in Thread, TakeTask(i), UNCHANGED given
  PROVE  \/ UNCHANGED <<Pending, Active>>
         \/ \E k \in Index : /\ Pending[k] # <<>> /\ Active[k] = NoItem
                             /\ Active' = [Active EXCEPT ![k] = Head(Pending[k])]
                             /\ Pending' = [Pending EXCEPT ![k] = Tail(@)]
<1> DEFINE t == Head(tasks[i])
<1>1. /\ tasks[i] # <<>> /\ rpc[i] = "take" /\ running \in [Thread -> Item \cup {NoItem}]
      /\ running' = [running EXCEPT ![i] = t] /\ running[i] = NoItem
  BY DEF TakeTask, At, Inv, ThreadOK
<1>2. t \in Item /\ t # NoItem /\ t[1] \in Index
  <2>1. t \in Item
    BY <1>1 DEF Inv
  <2> QED BY <2>1, ItemAssumption, TaskAssumption
<1>3. ASSUME NEW l \in Index, ~(Hashcode(l) = i /\ t[1] = l)
      PROVE  OfIndex(l)' = OfIndex(l) /\ RunningOf(l)' = RunningOf(l)
  <2>1. PICK b \in 0 .. given[l] : Ranked(l, b)
    BY DEF OrderInv
  <2>2. b \in 0 .. given'[l] /\ Ranked(l, b)'
    BY <1>3, <2>1, TakeRanked
  <2>3. OfIndex(l) = [j \in 1 .. given[l] - b |-> <<l, b + j>>]
    BY <2>1, OfIndexIs DEF OfIndexKnown
  <2>4. OfIndex(l)' = [j \in 1 .. given'[l] - b |-> <<l, b + j>>]
    BY <2>2, OfIndexIsNext DEF OfIndexKnown
  <2>5. Hashcode(l) \in Thread /\ Hashcode(l)' = Hashcode(l)
    BY HashcodeThread DEF Hashcode
  <2>6. CASE Hashcode(l) # i
    <3>1. running'[Hashcode(l)] = running[Hashcode(l)]
      BY <1>1, <2>5, <2>6
    <3> QED BY <2>3, <2>4, <2>5, <3>1 DEF RunningOf
  <2>7. CASE Hashcode(l) = i
    <3>1. running'[Hashcode(l)] = t /\ running[Hashcode(l)] = NoItem /\ t[1] # l
      BY <1>1, <1>3, <2>7
    <3> QED BY <2>3, <2>4, <2>5, <3>1 DEF RunningOf
  <2> QED BY <2>6, <2>7
<1>4. CASE Hashcode(t[1]) # i
  <2>1. \A l \in Index : OfIndex(l)' = OfIndex(l) /\ RunningOf(l)' = RunningOf(l)
    BY <1>3, <1>4
  <2> QED BY <2>1 DEF Pending, Active
<1>5. CASE Hashcode(t[1]) = i
  <2>1. PICK k \in Index : k = t[1]
    BY <1>2
  <2>2. PICK b \in 0 .. given[k] : Ranked(k, b)
    BY <2>1 DEF OrderInv
  <2>3. b < given[k] /\ t = <<k, b + 1>> /\ Ranked(k, b + 1)'
    <3>1. Hashcode(k) = i /\ Head(tasks[i])[1] = k
      BY <1>5, <2>1
    <3> QED BY <2>1, <2>2, <3>1, TakeRanked
  <2>4. given[k] \in Nat /\ b \in Nat /\ b + 1 \in 0 .. given'[k]
    BY <2>1, <2>2, <2>3, BoundAssumption DEF Inv
  <2>5. OfIndex(k) = [j \in 1 .. given[k] - b |-> <<k, b + j>>]
    BY <2>1, <2>2, OfIndexIs DEF OfIndexKnown
  <2>6. OfIndex(k)' = [j \in 1 .. given[k] - (b + 1) |-> <<k, (b + 1) + j>>]
    <3>1. given'[k] = given[k]
      OBVIOUS
    <3> QED BY <2>1, <2>3, <2>4, <3>1, OfIndexIsNext DEF OfIndexKnown
  <2>7. OfIndex(k) # <<>> /\ Head(OfIndex(k)) = t /\ OfIndex(k)' = Tail(OfIndex(k))
    <3> DEFINE n == given[k] - b  s == [j \in 1 .. n |-> <<k, b + j>>]
    <3>1. n \in Nat \ {0} /\ given[k] - (b + 1) = n - 1
      BY <2>3, <2>4
    <3> HIDE DEF n
    <3> DEFINE S == {<<k, b + j>> : j \in 1 .. n}
    <3>2. s \in Seq(S) /\ Len(s) = n /\ s[1] = <<k, b + 1>>
      <4>1. s \in [1 .. n -> S] /\ 1 \in 1 .. n
        BY <3>1
      <4>2. s[1] = <<k, b + 1>>
        BY <3>1, <4>1
      <4> HIDE DEF s, S
      <4> QED BY <3>1, <4>1, <4>2, FunctionIsSequence
    <3>3. s # <<>> /\ Head(s) = <<k, b + 1>>
      <4> HIDE DEF s, S
      <4>1. s # <<>>
        BY <3>1, <3>2
      <4> QED BY <3>2, <4>1, TailPlaces
    <3>4. Tail(s) = [j \in 1 .. n - 1 |-> s[j + 1]]
      <4> HIDE DEF s, S
      <4>1. Tail(s) \in Seq(S) /\ DOMAIN Tail(s) = 1 .. n - 1 /\ \A p \in 1 .. n - 1 : Tail(s)[p] = s[p + 1]
        BY <3>2, <3>3, TailPlaces
      <4>2. Tail(s) \in [1 .. n - 1 -> S]
        BY <4>1, LenProperties
      <4> QED BY <4>1, <4>2
    <3>5. \A j \in 1 .. n - 1 : s[j + 1] = <<k, (b + 1) + j>>
      <4> TAKE j \in 1 .. n - 1
      <4>1. j + 1 \in 1 .. n /\ b + (j + 1) = (b + 1) + j
        BY <2>4, <3>1
      <4> QED BY <4>1
    <3>6. OfIndex(k) = s /\ OfIndex(k)' = [j \in 1 .. n - 1 |-> <<k, (b + 1) + j>>]
      BY <2>5, <2>6, <3>1 DEF n
    <3> HIDE DEF s
    <3> QED BY <2>3, <3>3, <3>4, <3>5, <3>6
  <2>8. RunningOf(k) = NoItem /\ RunningOf(k)' = t
    <3>1. running[Hashcode(k)] = NoItem /\ running'[Hashcode(k)] = t
      BY <1>1, <1>5, <2>1
    <3>2. Hashcode(k)' = Hashcode(k) /\ t # NoItem /\ t[1] = k
      BY <1>2, <2>1 DEF Hashcode
    <3> HIDE DEF t
    <3> QED BY <3>1, <3>2 DEF RunningOf
  <2>9. \A l \in Index \ {k} : OfIndex(l)' = OfIndex(l) /\ RunningOf(l)' = RunningOf(l)
    BY <1>3, <2>1
  <2> HIDE DEF t
  <2>10. Pending' = [Pending EXCEPT ![k] = Tail(@)] /\ Pending[k] # <<>>
    <3>1. Pending' = [l \in Index |-> IF l = k THEN Tail(OfIndex(k)) ELSE OfIndex(l)]
      BY <2>7, <2>9 DEF Pending
    <3> QED BY <2>1, <2>7, <3>1 DEF Pending
  <2>11. Active' = [Active EXCEPT ![k] = Head(Pending[k])] /\ Active[k] = NoItem
    <3>1. Active' = [l \in Index |-> IF l = k THEN t ELSE RunningOf(l)]
      BY <2>8, <2>9 DEF Active
    <3>2. Pending[k] = OfIndex(k)
      BY <2>1 DEF Pending
    <3> QED BY <2>1, <2>7, <2>8, <3>1, <3>2 DEF Active
  <2> QED BY <2>1, <2>10, <2>11
<1> QED BY <1>4, <1>5

\* A task that ends is the one of its index that was running.
LEMMA RefinesFinish ==
  ASSUME Inv, NEW i \in Thread, FinishTask(i), UNCHANGED given
  PROVE  /\ UNCHANGED Pending
         /\ \/ UNCHANGED Active
            \/ \E k \in Index : Active[k] # NoItem /\ Active' = [Active EXCEPT ![k] = NoItem]
<1>1. UNCHANGED tasks /\ running' = [running EXCEPT ![i] = NoItem]
      /\ running \in [Thread -> Item \cup {NoItem}]
  BY DEF FinishTask, Inv
<1>2. UNCHANGED Pending
  BY <1>1 DEF Pending, OfIndex, Places, Before, Hashcode
<1>3. ASSUME NEW l \in Index
      PROVE  RunningOf(l)' = IF Hashcode(l) = i THEN NoItem ELSE RunningOf(l)
  <2>1. Hashcode(l) \in Thread /\ Hashcode(l)' = Hashcode(l)
    BY HashcodeThread DEF Hashcode
  <2>2. running'[Hashcode(l)] = IF Hashcode(l) = i THEN NoItem ELSE running[Hashcode(l)]
    BY <1>1, <2>1
  <2> QED BY <2>1, <2>2 DEF RunningOf
<1>4. CASE \A l \in Index : Hashcode(l) = i => RunningOf(l) = NoItem
  BY <1>2, <1>3, <1>4 DEF Active
<1>5. ASSUME NEW k \in Index, Hashcode(k) = i, RunningOf(k) # NoItem
      PROVE  Active[k] # NoItem /\ Active' = [Active EXCEPT ![k] = NoItem]
  <2>1. running[i][1] = k
    BY <1>5 DEF RunningOf
  <2>2. \A l \in Index \ {k} : RunningOf(l)' = RunningOf(l)
    <3> TAKE l \in Index \ {k}
    <3>1. Hashcode(l) = i => RunningOf(l) = NoItem
      BY <2>1 DEF RunningOf
    <3> QED BY <1>3, <3>1
  <2>3. RunningOf(k)' = NoItem
    BY <1>3, <1>5
  <2>4. Active' = [l \in Index |-> IF l = k THEN NoItem ELSE RunningOf(l)]
    BY <2>2, <2>3 DEF Active
  <2> QED BY <1>5, <2>4 DEF Active
<1> QED BY <1>2, <1>4, <1>5

LEMMA RefinesStep ==
  Inv /\ Inv' /\ OrderInv /\ [Next]_vars => [Serial!Next]_<<Pending, Active>>
<1> SUFFICES ASSUME Inv, Inv', OrderInv, [Next]_vars  PROVE [Serial!Next]_<<Pending, Active>>
  OBVIOUS
<1> USE DEF Serial!Next, Serial!Dispatch, Serial!Begin, Serial!End
<1>1. CASE Idles
  BY <1>1 DEF Idles, Pending, Active, OfIndex, Places, Before, RunningOf, Hashcode
<1>2. ASSUME NEW k \in Index, Dispatch(k)  PROVE Serial!Next
  BY <1>2, RefinesDispatch DEF Pending, Active
<1>3. ASSUME NEW i \in Thread, TakeTask(i), UNCHANGED given
      PROVE  [Serial!Next]_<<Pending, Active>>
  BY <1>3, RefinesTake DEF Pending, Active
<1>4. ASSUME NEW i \in Thread, FinishTask(i), UNCHANGED given
      PROVE  [Serial!Next]_<<Pending, Active>>
  BY <1>4, RefinesFinish DEF Pending, Active
<1> QED BY <1>1, <1>2, <1>3, <1>4, NextCases

\* Whatever the number of threads, the indices and the tasks, the collection
\* runs the tasks of one index one at a time, each once, in the order in which
\* they were dispatched.
THEOREM CollectionKeepsOrder == Spec => KeepsOrder
<1>1. Spec => [](Inv /\ OrderInv)
  BY InvInit, OrderInvInit, InvStep, OrderInvStep, PTL DEF Spec
<1>2. Inv /\ Inv' /\ OrderInv /\ [Next]_vars =>
        [Serial!Next]_<<[k \in Index |-> OfIndex(k)], [k \in Index |-> RunningOf(k)]>>
  BY RefinesStep DEF Pending, Active
<1> QED BY <1>1, <1>2, RefinesInit, PTL DEF Spec, KeepsOrder, Serial!Spec
=============================================================================
